---------------------------- MODULE MessageFlow ----------------------------
(***************************************************************************)
(* The docs command of the domain tool: a sequence diagram of what follows *)
(* from a message, found by walking the two gateways' bindings and the     *)
(* handlers' source (message_types/docs/index.ts).  The walk is recursive: *)
(* a frame of its call stack is a message on a gateway and the calls of    *)
(* its handler that are left.                                              *)
(***************************************************************************)
EXTENDS Naturals, Sequences, FiniteSets

CONSTANTS
  Repositories, \* what there may be to parse: the gateways' bindings and the files
  MaxDepth      \* how many calls deep the stack of the process goes

VARIABLES
  repository, \* the repository parsed, {} before
  origin,     \* the message and gateway the flow starts with
  frames,     \* the walk's call stack, innermost last
  entering,   \* the call about to be made: {} or {<<gateway, message>>}
  diagram,    \* the lines written: <<from, to, message>>
  flow        \* "idle", "walking", "done" or "failed"

flowVars == <<repository, origin, frames, entering, diagram, flow>>

FlowInit ==
  /\ repository = {} /\ origin = {} /\ entering = {}
  /\ frames = <<>> /\ diagram = <<>>
  /\ flow = "idle"

Gateways == {"event", "command"}
NoQueue == [many |-> FALSE, queues |-> <<>>]
Repository == CHOOSE r \in repository : TRUE

(* The code that the tool is for: a binding out leads to queues, a message *)
(* has one handler, of the class that the first binding out for it leads   *)
(* to, and handlers call with messages of the repository.                  *)
BindingsIn(r) ==
  [dir : {"in", "out"}, msg : r.messages, toQueue : [many : BOOLEAN, queues : Seq(STRING)]]
CallsIn(r) == [method : STRING, on : STRING, message : SUBSET r.messages]
Answers(r, gateway, message, k, i) ==
  LET b == r.bindings[gateway][k] IN
    /\ b.dir = "out" /\ b.msg = message /\ b.toQueue.queues[1] = r.files[i].class
    /\ message \in DOMAIN r.files[i].handlers
ASSUME RepositoriesAssumption ==
  \A r \in Repositories :
    /\ r.files \in Seq({r.files[i] : i \in DOMAIN r.files})
    /\ \A i \in DOMAIN r.files : \A m \in DOMAIN r.files[i].handlers :
         r.files[i].handlers[m] \in Seq(CallsIn(r))
    /\ \A g \in Gateways :
         /\ r.bindings[g] \in Seq(BindingsIn(r))
         /\ \A i \in DOMAIN r.bindings[g] :
              LET b == r.bindings[g][i] IN
                b.dir = "out" => b.toQueue.queues # <<>> /\ b.toQueue.queues[1] \notin Gateways
         /\ \A m \in r.messages, k \in DOMAIN r.bindings[g], i \in DOMAIN r.files :
              Answers(r, g, m, k, i) =>
                /\ \A l \in DOMAIN r.bindings[g] :
                     r.bindings[g][l].dir = "out" /\ r.bindings[g][l].msg = m => k <= l
                /\ \A j \in DOMAIN r.files : Answers(r, g, m, k, j) => j = i

-----------------------------------------------------------------------------
(* getSequenceLineStartWithMessage: the first binding out of the gateway   *)
(* for the message, and where it leads.                                    *)
MsgToQueue(gateway, message) ==
  LET bindings == Repository.bindings[gateway]
      out == {i \in DOMAIN bindings : bindings[i].dir = "out" /\ bindings[i].msg = message}
  IN  IF out = {} THEN NoQueue
      ELSE bindings[CHOOSE i \in out : \A j \in out : i <= j].toQueue

(* The calls in the handler: of the first file with a class of that name   *)
(* that has a handler for the message.                                     *)
\* Mutant: only the first file with the class is looked at.
OfFirstClass(processor, message) ==
  LET having == {i \in DOMAIN Repository.files : Repository.files[i].class = processor}
      first == Repository.files[CHOOSE i \in having : \A j \in having : i <= j]
  IN  IF having = {} \/ message \notin DOMAIN first.handlers THEN <<>> ELSE first.handlers[message]
CallsOf(processor, message) ==
  LET having == {i \in DOMAIN Repository.files :
                   /\ Repository.files[i].class = processor
                   /\ message \in DOMAIN Repository.files[i].handlers}
  IN  IF having = {} THEN <<>>
      ELSE Repository.files[CHOOSE i \in having : \A j \in having : i <= j].handlers[message]

(* A call is followed when it sends or publishes, on a gateway, something  *)
(* whose interface is known.                                               *)
Followed(call) ==
  call.method \in {"send", "publish"} /\ call.on \in Gateways /\ call.message # {}
MessageOf(call) == CHOOSE m \in call.message : TRUE

(* buildMermaidMessageFlowDiagram: both gateways need bindings.            *)
BuildDiagram(r, gateway, message) ==
  /\ flow = "idle"
  /\ repository' = {r}
  /\ origin' = {<<gateway, message>>}
  /\ IF \E g \in Gateways : r.bindings[g] = <<>>
     THEN flow' = "failed" /\ UNCHANGED entering
     ELSE flow' = "walking" /\ entering' = {<<gateway, message>>}
  /\ UNCHANGED <<frames, diagram>>

(* Where nothing leads out the call returns at once.  A list of queues is  *)
(* taken for a name and throws, and so does a stack that is full.          *)
Enter(gateway, message) ==
  /\ entering = {<<gateway, message>>}
  /\ entering' = {}
  /\ LET to == MsgToQueue(gateway, message) IN
       IF to = NoQueue THEN UNCHANGED <<frames, diagram, flow>>
       ELSE IF to.many \/ Len(frames) = MaxDepth
            THEN flow' = "failed" /\ UNCHANGED <<frames, diagram>>
            ELSE /\ diagram' = Append(diagram, <<gateway, to.queues[1], message>>)
                 /\ frames' = Append(frames,
                      [processor |-> to.queues[1], calls |-> CallsOf(to.queues[1], message)])
                 /\ UNCHANGED flow
  /\ UNCHANGED <<repository, origin>>

Top == frames[Len(frames)]

NextCall ==
  /\ flow = "walking" /\ entering = {} /\ frames # <<>> /\ Top.calls # <<>>
  /\ frames' = [frames EXCEPT ![Len(frames)].calls = Tail(@)]
  /\ LET call == Head(Top.calls) IN
       IF Followed(call)
       THEN /\ diagram' = Append(diagram, <<Top.processor, call.on, MessageOf(call)>>)
            /\ entering' = {<<call.on, MessageOf(call)>>}
       ELSE UNCHANGED <<diagram, entering>>
  /\ UNCHANGED <<repository, origin, flow>>

Return ==
  /\ flow = "walking" /\ entering = {} /\ frames # <<>> /\ Top.calls = <<>>
  /\ frames' = SubSeq(frames, 1, Len(frames) - 1)
  /\ UNCHANGED <<repository, origin, entering, diagram, flow>>

EndOfFlow ==
  /\ flow = "walking" /\ entering = {} /\ frames = <<>>
  /\ flow' = "done"
  /\ UNCHANGED <<repository, origin, frames, entering, diagram>>

FlowNext ==
  \/ \E r \in Repositories, g \in Gateways : \E m \in r.messages : BuildDiagram(r, g, m)
  \/ \E e \in entering : Enter(e[1], e[2])
  \/ NextCall \/ Return \/ EndOfFlow

-----------------------------------------------------------------------------
(* The reference: what may follow what, from the bindings and the handlers *)
(* of the repository, whatever the order they are found in.                *)
Hops == Gateways \X Repository.messages
Handlers(hop) ==
  {Repository.files[i].handlers[hop[2]] : i \in
     {j \in DOMAIN Repository.files :
        /\ hop[2] \in DOMAIN Repository.files[j].handlers
        /\ \E k \in DOMAIN Repository.bindings[hop[1]] :
             LET b == Repository.bindings[hop[1]][k] IN
               /\ b.dir = "out" /\ b.msg = hop[2]
               /\ b.toQueue.queues # <<>> /\ b.toQueue.queues[1] = Repository.files[j].class}}
Follows(a, b) ==
  \E calls \in Handlers(a) : \E i \in DOMAIN calls :
    Followed(calls[i]) /\ b = <<calls[i].on, MessageOf(calls[i])>>
\* What is in every set of hops that has the origin and all that follows.
Reached ==
  LET after == [a \in Hops |-> {b \in Hops : Follows(a, b)}]
      closed == {S \in SUBSET Hops : origin \subseteq S /\ \A a \in S : after[a] \subseteq S}
  IN  {h \in Hops : \A S \in closed : h \in S}

(* A finished diagram has the hop of every message that can follow, over   *)
(* any number of handlers, and of no other; and each processor sends a     *)
(* message on only below the line by which it got one that its handler     *)
(* answers with it.                                                        *)
FlowIsDrawn ==
  flow = "done" =>
    /\ {<<diagram[i][1], diagram[i][3]>> : i \in {j \in DOMAIN diagram : diagram[j][1] \in Gateways}}
         = {h \in Reached : \E i \in DOMAIN Repository.bindings[h[1]] :
              LET b == Repository.bindings[h[1]][i] IN
                b.dir = "out" /\ b.msg = h[2] /\ b.toQueue # NoQueue}
    /\ \A i \in DOMAIN diagram : diagram[i][1] \notin Gateways =>
         \E j \in 1 .. i - 1 :
           /\ diagram[j][2] = diagram[i][1] /\ diagram[j][1] \in Gateways
           /\ Follows(<<diagram[j][1], diagram[j][3]>>, <<diagram[i][2], diagram[i][3]>>)

=============================================================================
