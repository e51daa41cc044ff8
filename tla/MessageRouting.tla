--------------------------- MODULE MessageRouting ---------------------------
(***************************************************************************)
(* How a message gets from a gateway's queue to the consumers it is bound  *)
(* to: the router that the domain tool generates from the gateway's        *)
(* definition (MessageQueueInput.ts, strong-gateway.ts.hbs), run by the    *)
(* gateway's processor (TrackedQueueProcessor.process), which sends the    *)
(* message on through the consumers' queues (MessageConsumer.ts,           *)
(* MessageQueue.ts), and is run again when a send fails or it stalls.      *)
(*                                                                         *)
(* A binding leads from a message type to queues; its pattern is {} or     *)
(* {the set of messages that match it}.                                    *)
(***************************************************************************)
EXTENDS Naturals, Sequences, FiniteSets, SequencesExt

CONSTANTS
  Types,     \* the message types
  Messages,  \* the messages
  TypeOf,    \* the type of each message
  Label,     \* metadata.task.name ?? job.name: what its routing goes by
  Queues,    \* the consumers' queues
  Allows,    \* the types each queue is bound to take, {} when any
  Gateways,  \* the definitions there may be: sequences of outbound bindings
  Attempts,  \* a job's attempts
  MaxFaults  \* BOUND: how many sends fail and workers stall

Binding ==
  [type : Types, toQueue : Seq(Queues), pattern : {{}} \cup {{P} : P \in SUBSET Messages}]
ASSUME RoutingAssumption ==
  /\ TypeOf \in [Messages -> Types]
  /\ Allows \in [Queues -> SUBSET Types]
  /\ Gateways \subseteq Seq(Binding)
  /\ Attempts \in Nat \ {0} /\ MaxFaults \in Nat

VARIABLES
  definition, \* the gateway's outbound bindings
  job,        \* the message's job on the gateway's queue
  received,   \* how often each consumer's queue has got the message
  routeFaults \* faults so far

routeVars == <<definition, job, received, routeFaults>>

(* at: the case the router is in and the queue it sends to next.           *)
Job == [state : {"waiting", "active", "completed", "failed"}, attempts : 0 .. Attempts,
        stalls : 0 .. 2, case : Nat, queue : Nat]

RouteTypeOK ==
  /\ definition \in Gateways
  /\ job \in [Messages -> Job]
  /\ received \in [Queues \X Messages -> Nat]
  /\ routeFaults \in 0 .. MaxFaults

RouteInit ==
  /\ definition \in Gateways
  /\ job = [m \in Messages |-> [state |-> "waiting", attempts |-> 0, stalls |-> 0,
                                case |-> 0, queue |-> 0]]
  /\ received = [p \in Queues \X Messages |-> 0]
  /\ routeFaults = 0

-----------------------------------------------------------------------------
(* A case of the router's switch is the index of its binding; the default  *)
(* is 0.                                                                   *)
Default == 0
HasPattern(i) == definition[i].pattern # {}
HasNone(i) == definition[i].pattern = {}

(* outboundBindings: the sort moves what has a pattern behind what has     *)
(* none and, its comparison never calling two patterns equal, turns their  *)
(* order around.                                                           *)
Before(i, j) ==
  \/ HasNone(i) /\ (HasPattern(j) \/ i < j)
  \/ HasPattern(i) /\ HasPattern(j) /\ j < i
After(i) == {j \in DOMAIN definition : Before(i, j)}
First(S) == CHOOSE i \in S : \A j \in S \ {i} : Before(i, j)

(* The cases of the switch that carry the message's label, and what the    *)
(* router does in a case: without a pattern, or with one that matches, it  *)
(* sends to the case's queues and breaks.  Otherwise there is no break.    *)
Labelled(m) == {i \in DOMAIN definition : definition[i].type = Label[m]}
Takes(i, m) == HasNone(i) \/ \E P \in definition[i].pattern : m \in P

(* isAllowed, on the consumer's queue.                                     *)
IsAllowed(q, m) == Allows[q] = {} \/ TypeOf[m] \in Allows[q]

RouteFault == routeFaults < MaxFaults /\ routeFaults' = routeFaults + 1

(* A worker takes the job; a label with no case is logged, and that is all *)
Route(m) ==
  /\ job[m].state = "waiting"
  /\ job' = [job EXCEPT ![m] =
       IF Labelled(m) = {} THEN [@ EXCEPT !.state = "completed"]
       ELSE [@ EXCEPT !.state = "active", !.case = First(Labelled(m)), !.queue = 1]]
  /\ UNCHANGED <<definition, received, routeFaults>>

(* No match and no break: the switch goes on with the body of the next     *)
(* case, whatever its label, and after the last one with the default.      *)
\* Mutant: the case breaks whether its pattern matches or not.
BreakAnyway(m) ==
  /\ job[m].state = "active" /\ job[m].case \in DOMAIN definition /\ ~ Takes(job[m].case, m)
  /\ job' = [job EXCEPT ![m].case = Default]
  /\ UNCHANGED <<definition, received, routeFaults>>
FallThrough(m) ==
  /\ job[m].state = "active" /\ job[m].case \in DOMAIN definition /\ ~ Takes(job[m].case, m)
  /\ job' = [job EXCEPT ![m].case = IF After(@) = {} THEN Default ELSE First(After(@))]
  /\ UNCHANGED <<definition, received, routeFaults>>

Sending(m) ==
  /\ job[m].state = "active" /\ job[m].case \in DOMAIN definition
  /\ Takes(job[m].case, m) /\ job[m].queue \in DOMAIN definition[job[m].case].toQueue
Destination(m) == definition[job[m].case].toQueue[job[m].queue]

(* add: the consumer's job gets an id of its own, also when the gateway's  *)
(* job is run again.                                                       *)
\* Mutant: each pass over the case's queues sends to all of them.
SendToAll(m) ==
  /\ Sending(m) /\ IsAllowed(Destination(m), m)
  /\ received' = [p \in DOMAIN received |->
       received[p] + IF p[2] = m /\ p[1] \in ToSet(definition[job[m].case].toQueue) THEN 1 ELSE 0]
  /\ job' = [job EXCEPT ![m].queue = @ + 1]
  /\ UNCHANGED <<definition, routeFaults>>
Send(m) ==
  /\ Sending(m) /\ IsAllowed(Destination(m), m)
  /\ received' = [received EXCEPT ![<<Destination(m), m>>] = @ + 1]
  /\ job' = [job EXCEPT ![m].queue = @ + 1]
  /\ UNCHANGED <<definition, routeFaults>>

Complete(m) ==
  /\ job[m].state = "active"
  /\ job[m].case \in DOMAIN definition =>
       Takes(job[m].case, m) /\ job[m].queue > Len(definition[job[m].case].toQueue)
  /\ job' = [job EXCEPT ![m].state = "completed"]
  /\ UNCHANGED <<definition, received, routeFaults>>

(* A failed attempt is tried again from the start, up to the attempts.     *)
Retry(j) ==
  [j EXCEPT !.state = IF j.attempts + 1 < Attempts THEN "waiting" ELSE "failed",
            !.attempts = @ + 1]

\* Mutant: a queue that refuses a message keeps its sender waiting.
RefusedWaits(m) ==
  /\ Sending(m) /\ ~ IsAllowed(Destination(m), m)
  /\ UNCHANGED routeVars
SendRefused(m) ==
  /\ Sending(m) /\ ~ IsAllowed(Destination(m), m)
  /\ job' = [job EXCEPT ![m] = Retry(@)]
  /\ UNCHANGED <<definition, received, routeFaults>>

(* The reply is lost, with the consumer's job stored or not.               *)
SendFails(m, stored) ==
  /\ Sending(m) /\ IsAllowed(Destination(m), m)
  /\ RouteFault
  /\ job' = [job EXCEPT ![m] = Retry(@)]
  /\ received' = IF stored THEN [received EXCEPT ![<<Destination(m), m>>] = @ + 1] ELSE received
  /\ UNCHANGED definition

(* The worker dies with the job: BullMQ has it run again, once.            *)
Stalled(j) ==
  [j EXCEPT !.state = IF j.stalls = 0 THEN "waiting" ELSE "failed", !.stalls = @ + 1]
Stall(m) ==
  /\ job[m].state = "active"
  /\ RouteFault
  /\ job' = [job EXCEPT ![m] = Stalled(@)]
  /\ UNCHANGED <<definition, received>>

RouteStep(m) ==
  Route(m) \/ FallThrough(m) \/ Send(m) \/ Complete(m) \/ SendRefused(m)

RouteNext ==
  \E m \in Messages :
    RouteStep(m) \/ Stall(m) \/ \E stored \in BOOLEAN : SendFails(m, stored)

RouteSpec == RouteInit /\ [][RouteNext]_routeVars
FairRouteSpec == RouteSpec /\ \A m \in Messages : WF_routeVars(RouteStep(m))

-----------------------------------------------------------------------------
(* The queues a message is bound to: by a binding of its type without a    *)
(* pattern, or with one that it matches.                                   *)
BoundTo(m) ==
  {i \in DOMAIN definition :
     /\ definition[i].type = TypeOf[m]
     /\ HasNone(i) \/ \E P \in definition[i].pattern : m \in P}

(* "Sends messages to queues and corresponding handlers depending on       *)
(* successful matches between a message and the binding's pattern matcher":*)
(* a queue gets a message only by a binding of the message's type.         *)
DeliveredAsBound ==
  \A q \in Queues, m \in Messages :
    received[<<q, m>>] > 0 => \E i \in BoundTo(m) : q \in ToSet(definition[i].toQueue)

(* A pattern that goes by the message's type, as those of the tests do.    *)
PatternsTellTypes ==
  \A i \in DOMAIN definition : \A P \in definition[i].pattern :
    \A m \in P : TypeOf[m] = definition[i].type

(* Where patterns tell the types: a job whose label is its type and that   *)
(* completes has reached every queue of one of its bindings, of one        *)
(* without a pattern when there is one, whatever failed or stalled on the  *)
(* way; and whether it completes or not, it has reached no other queue.    *)
CompletedMeansDelivered ==
  PatternsTellTypes =>
    /\ DeliveredAsBound
    /\ \A m \in Messages :
         job[m].state = "completed" /\ Label[m] = TypeOf[m] /\ BoundTo(m) # {} =>
           \E i \in BoundTo(m) :
             /\ \A q \in ToSet(definition[i].toQueue) : received[<<q, m>>] > 0
             /\ (\E j \in BoundTo(m) : HasNone(j)) => HasNone(i)

WithinRuns(q, m) ==
  received[<<q, m>>] <= job[m].attempts + job[m].stalls
                        + (IF job[m].state \in {"active", "completed"} THEN 1 ELSE 0)

(* A queue has as many copies of a message as the job had runs, at most:   *)
(* one more than its failed attempts and stalls together.                  *)
CopiesAreRetries == \A q \in Queues, m \in Messages : WithinRuns(q, m)

(* Every job of the gateway comes to an end: the router comes to the end   *)
(* of its cases, and a message a consumer refuses is not retried for ever. *)
JobsSettle == \A m \in Messages : <>[](job[m].state \in {"completed", "failed"})
=============================================================================
