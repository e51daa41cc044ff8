----------------------- MODULE MessageRouting_proofs ------------------------
(* How often a message can be doubled on its way through a router, and     *)
(* that it gets where it is bound to, for every definition of a gateway    *)
(* and any number of messages, queues, attempts and faults.                *)
EXTENDS MessageRouting, WellFoundedInduction, TLAPS

(* No binding names a queue twice.                                         *)
QueuesOnce(bindings) ==
  \A i \in DOMAIN bindings : \A k, l \in DOMAIN bindings[i].toQueue :
    bindings[i].toQueue[k] = bindings[i].toQueue[l] => k = l
EachQueueOnce == \A g \in Gateways : QueuesOnce(g)

(* What is needed of a job's type.                                         *)
JobOK(j) ==
  /\ {"state", "attempts", "stalls", "case", "queue"} \subseteq DOMAIN j
  /\ j.attempts \in Nat /\ j.stalls \in Nat /\ j.queue \in Nat

(* A run has sent to the queues before the one it is at, once to each, and *)
(* only in a case that takes the message: it falls through before it sends.*)
SentTo(bindings, j, q) ==
  \E k \in 1 .. j.queue - 1 :
    k \in DOMAIN bindings[j.case].toQueue /\ bindings[j.case].toQueue[k] = q
Copies(bindings, j, q) ==
  j.attempts + j.stalls
    + (CASE j.state = "active" -> IF SentTo(bindings, j, q) THEN 1 ELSE 0
         [] j.state = "completed" -> 1
         [] OTHER -> 0)
Placed(j, m) ==
  j.state = "active" => j.queue # 0 /\ (Takes(j.case, m) \/ j.queue = 1)
CopiesInv ==
  /\ EachQueueOnce => QueuesOnce(definition)
  /\ DOMAIN job = Messages
  /\ received \in [Queues \X Messages -> Nat]
  /\ \A m \in Messages :
       /\ JobOK(job[m])
       /\ Placed(job[m], m)
       /\ EachQueueOnce => \A q \in Queues : received[<<q, m>>] <= Copies(definition, job[m], q)

(* One job changes: it keeps its own bound, and no other is concerned.     *)
LEMMA OneJob ==
  ASSUME CopiesInv, UNCHANGED definition, NEW m \in Messages, NEW j, JobOK(j),
         job' = [job EXCEPT ![m] = j], received' \in [Queues \X Messages -> Nat],
         Placed(j, m),
         \A q \in Queues, n \in Messages \ {m} : received'[<<q, n>>] = received[<<q, n>>],
         EachQueueOnce => \A q \in Queues : received'[<<q, m>>] <= Copies(definition, j, q)
  PROVE  CopiesInv'
<1>2. \A n \in Messages : \A i : Takes(i, n)' = Takes(i, n)
  BY DEF Takes, HasNone
<1>3. DOMAIN job' = Messages /\ \A n \in Messages : job'[n] = IF n = m THEN j ELSE job[n]
  BY DEF CopiesInv
<1>4. (EachQueueOnce => QueuesOnce(definition))'
  BY DEF CopiesInv
<1>5. ASSUME NEW n \in Messages
      PROVE  /\ JobOK(job'[n])
             /\ Placed(job[n], n)'
             /\ EachQueueOnce => \A q \in Queues : received'[<<q, n>>] <= Copies(definition', job'[n], q)
  <2>1. CASE n = m
    BY <1>2, <1>3, <2>1 DEF Placed
  <2>2. CASE n # m
    BY <1>2, <1>3, <2>2 DEF CopiesInv, Placed
  <2> QED BY <2>1, <2>2
<1> QED BY <1>3, <1>4, <1>5 DEF CopiesInv

-----------------------------------------------------------------------------
(* Steps that send nothing.                                                *)
LEMMA RouteJob ==
  ASSUME CopiesInv, NEW m \in Messages, Route(m)
  PROVE  CopiesInv'
<1>1. PICK o : o = job[m] /\ JobOK(o) /\ o.state = "waiting"
  BY DEF CopiesInv, Route
<1>2. /\ UNCHANGED definition /\ received' = received
      /\ received \in [Queues \X Messages -> Nat]
      /\ EachQueueOnce => \A q \in Queues : received[<<q, m>>] <= Copies(definition, o, q)
  BY <1>1 DEF CopiesInv, Route
<1>3. CASE Labelled(m) = {}
  <2>1. PICK j : j = [o EXCEPT !.state = "completed"]
    OBVIOUS
  <2>2. job' = [job EXCEPT ![m] = j]
    BY <1>1, <1>3, <2>1 DEF Route
  <2>3. JobOK(j) /\ j.state = "completed" /\ j.attempts = o.attempts /\ j.stalls = o.stalls
    BY <1>1, <2>1 DEF JobOK
  <2>4. ASSUME NEW q \in Queues, received[<<q, m>>] <= Copies(definition, o, q)
        PROVE  received'[<<q, m>>] <= Copies(definition, j, q)
    BY <1>1, <1>2, <2>3, <2>4 DEF Copies, JobOK
  <2>5. Placed(j, m)
    BY <2>3 DEF Placed
  <2> QED BY <1>2, <2>2, <2>3, <2>4, <2>5, OneJob
<1>4. CASE Labelled(m) # {}
  <2>1. PICK c : c = First(Labelled(m))
    OBVIOUS
  <2>2. PICK j : j = [o EXCEPT !.state = "active", !.case = c, !.queue = 1]
    OBVIOUS
  <2>3. job' = [job EXCEPT ![m] = j]
    BY <1>1, <1>4, <2>1, <2>2 DEF Route
  <2>4. /\ JobOK(j) /\ j.state = "active" /\ j.queue = 1
        /\ j.attempts = o.attempts /\ j.stalls = o.stalls
    BY <1>1, <2>2 DEF JobOK
  <2>5. ASSUME NEW q \in Queues, received[<<q, m>>] <= Copies(definition, o, q)
        PROVE  received'[<<q, m>>] <= Copies(definition, j, q)
    BY <1>1, <1>2, <2>4, <2>5 DEF Copies, JobOK, SentTo
  <2>6. Placed(j, m)
    BY <2>4 DEF Placed
  <2> QED BY <1>2, <2>3, <2>4, <2>5, <2>6, OneJob
<1> QED BY <1>3, <1>4

LEMMA FallStep ==
  ASSUME CopiesInv, NEW m \in Messages, FallThrough(m)
  PROVE  CopiesInv'
<1>1. PICK o : o = job[m] /\ JobOK(o) /\ o.state = "active" /\ o.queue = 1
  BY DEF CopiesInv, Placed, FallThrough
<1>2. /\ UNCHANGED definition /\ received' = received
      /\ received \in [Queues \X Messages -> Nat]
      /\ EachQueueOnce => \A q \in Queues : received[<<q, m>>] <= Copies(definition, o, q)
  BY <1>1 DEF CopiesInv, FallThrough
<1>3. PICK c : c = IF After(o.case) = {} THEN Default ELSE First(After(o.case))
  OBVIOUS
<1>4. PICK j : j = [o EXCEPT !.case = c]
  OBVIOUS
<1>5. job' = [job EXCEPT ![m] = j]
  BY <1>1, <1>3, <1>4 DEF FallThrough
<1>6. /\ JobOK(j) /\ j.state = "active" /\ j.queue = 1
      /\ j.attempts = o.attempts /\ j.stalls = o.stalls
  BY <1>1, <1>4 DEF JobOK
<1>7. ASSUME NEW q \in Queues, received[<<q, m>>] <= Copies(definition, o, q)
      PROVE  received'[<<q, m>>] <= Copies(definition, j, q)
  BY <1>1, <1>2, <1>6, <1>7 DEF Copies, JobOK, SentTo
<1>8. Placed(j, m)
  BY <1>6 DEF Placed
<1> QED BY <1>2, <1>5, <1>6, <1>7, <1>8, OneJob

LEMMA CompleteStep ==
  ASSUME CopiesInv, NEW m \in Messages, Complete(m)
  PROVE  CopiesInv'
<1>1. PICK o : o = job[m] /\ JobOK(o) /\ o.state = "active"
  BY DEF CopiesInv, Complete
<1>2. /\ UNCHANGED definition /\ received' = received
      /\ received \in [Queues \X Messages -> Nat]
      /\ EachQueueOnce => \A q \in Queues : received[<<q, m>>] <= Copies(definition, o, q)
  BY <1>1 DEF CopiesInv, Complete
<1>3. PICK j : j = [o EXCEPT !.state = "completed"]
  OBVIOUS
<1>4. job' = [job EXCEPT ![m] = j]
  BY <1>1, <1>3 DEF Complete
<1>5. JobOK(j) /\ j.state = "completed" /\ j.attempts = o.attempts /\ j.stalls = o.stalls
  BY <1>1, <1>3 DEF JobOK
<1>6. ASSUME NEW q \in Queues, received[<<q, m>>] <= Copies(definition, o, q)
      PROVE  received'[<<q, m>>] <= Copies(definition, j, q)
  BY <1>1, <1>2, <1>5, <1>6 DEF Copies, JobOK
<1>7. Placed(j, m)
  BY <1>5 DEF Placed
<1> QED BY <1>2, <1>4, <1>5, <1>6, <1>7, OneJob

-----------------------------------------------------------------------------
(* A run ends before its time: what it has sent is one of the retries' due.*)
LEMMA RunEnds ==
  ASSUME CopiesInv, NEW m \in Messages, job[m].state = "active", UNCHANGED definition,
         NEW j, JobOK(j), j.state \in {"waiting", "failed"},
         j.attempts + j.stalls = job[m].attempts + job[m].stalls + 1,
         job' = [job EXCEPT ![m] = j], received' \in [Queues \X Messages -> Nat],
         \A q \in Queues, n \in Messages \ {m} : received'[<<q, n>>] = received[<<q, n>>],
         \A q \in Queues : \/ received'[<<q, m>>] = received[<<q, m>>]
                           \/ /\ received'[<<q, m>>] = received[<<q, m>>] + 1
                              /\ EachQueueOnce => ~ SentTo(definition, job[m], q)
  PROVE  CopiesInv'
<1>1. PICK o : o = job[m] /\ JobOK(o) /\ o.state = "active"
  BY DEF CopiesInv
<1>2. ASSUME EachQueueOnce, NEW q \in Queues
      PROVE  received'[<<q, m>>] <= Copies(definition, j, q)
  <2>1. received[<<q, m>>] <= Copies(definition, o, q) /\ received[<<q, m>>] \in Nat
    BY <1>1, <1>2 DEF CopiesInv
  <2>2. Copies(definition, j, q) = o.attempts + o.stalls + 1
    BY <1>1 DEF Copies, JobOK
  <2>3. Copies(definition, o, q) = o.attempts + o.stalls + (IF SentTo(definition, o, q) THEN 1 ELSE 0)
    BY <1>1 DEF Copies
  <2>4. o.attempts + o.stalls \in Nat
    BY <1>1 DEF JobOK
  <2>5. \/ received'[<<q, m>>] = received[<<q, m>>]
        \/ received'[<<q, m>>] = received[<<q, m>>] + 1 /\ ~ SentTo(definition, o, q)
    BY <1>1, <1>2
  <2> QED BY <2>1, <2>2, <2>3, <2>4, <2>5
<1>3. Placed(j, m)
  BY DEF Placed
<1> QED BY <1>2, <1>3, OneJob

LEMMA RetryJob ==
  ASSUME NEW o, JobOK(o)
  PROVE  /\ JobOK(Retry(o)) /\ Retry(o).state \in {"waiting", "failed"}
         /\ Retry(o).attempts + Retry(o).stalls = o.attempts + o.stalls + 1
<1>1. PICK j : j = Retry(o)
  OBVIOUS
<1>2. PICK st \in {"waiting", "failed"} : st = IF o.attempts + 1 < Attempts THEN "waiting" ELSE "failed"
  OBVIOUS
<1>3. j = [o EXCEPT !.state = st, !.attempts = @ + 1]
  BY <1>1, <1>2 DEF Retry
<1>4. JobOK(j) /\ j.state = st /\ j.attempts = o.attempts + 1 /\ j.stalls = o.stalls
  BY <1>3 DEF JobOK
<1> QED BY <1>1, <1>4 DEF JobOK

LEMMA StallStep ==
  ASSUME CopiesInv, NEW m \in Messages, Stall(m)
  PROVE  CopiesInv'
<1>1. PICK o : o = job[m] /\ JobOK(o) /\ o.state = "active"
  BY DEF CopiesInv, Stall
<1>2. PICK st \in {"waiting", "failed"} : st = IF o.stalls = 0 THEN "waiting" ELSE "failed"
  OBVIOUS
<1>3. PICK j : j = [o EXCEPT !.state = st, !.stalls = @ + 1]
  OBVIOUS
<1>4. job' = [job EXCEPT ![m] = j]
  BY <1>1, <1>2, <1>3 DEF Stall, Stalled
<1>5. JobOK(j) /\ j.state = st /\ j.stalls = o.stalls + 1 /\ j.attempts = o.attempts
  BY <1>1, <1>3 DEF JobOK
<1>6. j.attempts + j.stalls = job[m].attempts + job[m].stalls + 1
  BY <1>1, <1>5 DEF JobOK
<1>7. UNCHANGED definition /\ received' = received /\ received \in [Queues \X Messages -> Nat]
  BY DEF Stall, CopiesInv
<1> QED BY <1>1, <1>2, <1>4, <1>5, <1>6, <1>7, RunEnds

LEMMA RefusedStep ==
  ASSUME CopiesInv, NEW m \in Messages, SendRefused(m)
  PROVE  CopiesInv'
<1>1. JobOK(job[m]) /\ job[m].state = "active"
  BY DEF CopiesInv, SendRefused, Sending
<1>2. job' = [job EXCEPT ![m] = Retry(job[m])]
  BY DEF SendRefused
<1>3. UNCHANGED definition /\ received' = received /\ received \in [Queues \X Messages -> Nat]
  BY DEF SendRefused, CopiesInv
<1> QED BY <1>1, <1>2, <1>3, RetryJob, RunEnds

-----------------------------------------------------------------------------
(* What is sent to the queue that a run is at has not been sent by it.     *)
LEMMA NotSentYet ==
  ASSUME CopiesInv, EachQueueOnce, NEW m \in Messages, Sending(m)
  PROVE  ~ SentTo(definition, job[m], Destination(m))
<1>1. JobOK(job[m]) /\ QueuesOnce(definition)
  BY DEF CopiesInv
<1> QED BY <1>1 DEF QueuesOnce, SentTo, Sending, Destination, JobOK

LEMMA OneCopy ==
  ASSUME CopiesInv, NEW m \in Messages, NEW d,
         received' = [received EXCEPT ![<<d, m>>] = @ + 1]
  PROVE  /\ received' \in [Queues \X Messages -> Nat]
         /\ \A q \in Queues, n \in Messages \ {m} : received'[<<q, n>>] = received[<<q, n>>]
         /\ \A q \in Queues : received'[<<q, m>>] = IF q = d THEN received[<<q, m>>] + 1
                                                   ELSE received[<<q, m>>]
<1>1. received \in [Queues \X Messages -> Nat]
  BY DEF CopiesInv
<1>2. ASSUME NEW x \in Queues \X Messages
      PROVE  received'[x] = IF x = <<d, m>> THEN received[x] + 1 ELSE received[x]
  BY <1>1
<1>3. DOMAIN received' = Queues \X Messages /\ received' = [x \in Queues \X Messages |-> received'[x]]
  BY <1>1
<1>4. received' \in [Queues \X Messages -> Nat]
  <2>1. ASSUME NEW x \in Queues \X Messages PROVE received'[x] \in Nat
    <3>1. received[x] \in Nat
      BY <1>1
    <3> QED BY <1>2, <3>1
  <2> QED BY <1>3, <2>1
<1>5. ASSUME NEW q \in Queues, NEW n \in Messages
      PROVE  received'[<<q, n>>] = IF q = d /\ n = m THEN received[<<q, n>>] + 1
                                   ELSE received[<<q, n>>]
  BY <1>2
<1> QED BY <1>4, <1>5

LEMMA SendFailsStep ==
  ASSUME CopiesInv, NEW m \in Messages, NEW stored \in BOOLEAN, SendFails(m, stored)
  PROVE  CopiesInv'
<1>1. JobOK(job[m]) /\ job[m].state = "active" /\ Sending(m)
  BY DEF CopiesInv, SendFails, Sending
<1>2. job' = [job EXCEPT ![m] = Retry(job[m])] /\ UNCHANGED definition
  BY DEF SendFails
<1>3. CASE stored
  <2>1. received' = [received EXCEPT ![<<Destination(m), m>>] = @ + 1]
    BY <1>3 DEF SendFails
  <2>2. \A q \in Queues : \/ received'[<<q, m>>] = received[<<q, m>>]
                          \/ /\ received'[<<q, m>>] = received[<<q, m>>] + 1
                             /\ EachQueueOnce => ~ SentTo(definition, job[m], q)
    BY <1>1, <2>1, OneCopy, NotSentYet
  <2> QED BY <1>1, <1>2, <2>1, <2>2, OneCopy, RetryJob, RunEnds
<1>4. CASE ~ stored
  <2>1. received' = received /\ received \in [Queues \X Messages -> Nat]
    BY <1>4 DEF SendFails, CopiesInv
  <2> QED BY <1>1, <1>2, <2>1, RetryJob, RunEnds
<1> QED BY <1>3, <1>4

LEMMA SendStep ==
  ASSUME CopiesInv, NEW m \in Messages, Send(m)
  PROVE  CopiesInv'
<1>1. PICK o : o = job[m] /\ JobOK(o) /\ o.state = "active" /\ Takes(o.case, m) /\ o.queue # 0
  BY DEF CopiesInv, Placed, Send, Sending
<1>2. PICK d : d = Destination(m) /\ d = definition[o.case].toQueue[o.queue]
                /\ o.queue \in DOMAIN definition[o.case].toQueue
  BY <1>1 DEF Destination, Send, Sending
<1>3. received' = [received EXCEPT ![<<d, m>>] = @ + 1] /\ UNCHANGED definition
  BY <1>2 DEF Send
<1>4. PICK j : j = [o EXCEPT !.queue = @ + 1]
  OBVIOUS
<1>5. job' = [job EXCEPT ![m] = j]
  BY <1>1, <1>4 DEF Send
<1>6. /\ JobOK(j) /\ j.state = "active" /\ j.case = o.case
      /\ j.queue = o.queue + 1 /\ j.queue # 0 /\ j.attempts = o.attempts /\ j.stalls = o.stalls
  BY <1>1, <1>4 DEF JobOK
<1>7. ASSUME EachQueueOnce, NEW q \in Queues
      PROVE  received'[<<q, m>>] <= Copies(definition, j, q)
  <2>1. received[<<q, m>>] <= Copies(definition, o, q) /\ received[<<q, m>>] \in Nat
    BY <1>1, <1>7 DEF CopiesInv
  <2>2. Copies(definition, o, q) = o.attempts + o.stalls + (IF SentTo(definition, o, q) THEN 1 ELSE 0)
    BY <1>1 DEF Copies
  <2>3. Copies(definition, j, q) = o.attempts + o.stalls + (IF SentTo(definition, j, q) THEN 1 ELSE 0)
    BY <1>6 DEF Copies
  <2>4. o.attempts + o.stalls \in Nat
    BY <1>1 DEF JobOK
  <2>5. SentTo(definition, o, q) => SentTo(definition, j, q)
    BY <1>1, <1>6 DEF SentTo, JobOK
  <2>6. ~ SentTo(definition, o, d) /\ SentTo(definition, j, d)
    <3>1. ~ SentTo(definition, o, d)
      BY <1>1, <1>2, <1>7, NotSentYet DEF Send
    <3>2. o.queue \in 1 .. j.queue - 1
      <4>1. o.queue \in Nat \ {0}
        BY <1>1 DEF JobOK
      <4> QED BY <1>6, <4>1
    <3> QED BY <1>2, <1>6, <3>1, <3>2 DEF SentTo
  <2>7. received'[<<q, m>>] = IF q = d THEN received[<<q, m>>] + 1 ELSE received[<<q, m>>]
    BY <1>3, OneCopy
  <2> QED BY <2>1, <2>2, <2>3, <2>4, <2>5, <2>6, <2>7
<1>8. Placed(j, m)
  BY <1>1, <1>6 DEF Placed
<1> QED BY <1>3, <1>5, <1>6, <1>7, <1>8, OneCopy, OneJob

LEMMA RoutingStep == CopiesInv /\ [RouteNext]_routeVars => CopiesInv'
<1> SUFFICES ASSUME CopiesInv, [RouteNext]_routeVars PROVE CopiesInv'
  OBVIOUS
<1>1. ASSUME NEW m \in Messages, RouteStep(m) PROVE CopiesInv'
  BY <1>1, RouteJob, FallStep, SendStep, CompleteStep, RefusedStep DEF RouteStep
<1>2. ASSUME NEW m \in Messages, Stall(m) PROVE CopiesInv'
  BY <1>2, StallStep
<1>3. ASSUME NEW m \in Messages, NEW stored \in BOOLEAN, SendFails(m, stored) PROVE CopiesInv'
  BY <1>3, SendFailsStep
<1>4. ASSUME UNCHANGED routeVars PROVE CopiesInv'
  BY <1>4 DEF routeVars, CopiesInv, Placed, Takes, HasNone
<1> QED BY <1>1, <1>2, <1>3, <1>4 DEF RouteNext

LEMMA CopiesInit == RouteInit => CopiesInv
<1> SUFFICES ASSUME RouteInit PROVE CopiesInv
  OBVIOUS
<1>1. /\ DOMAIN job = Messages /\ received \in [Queues \X Messages -> Nat]
      /\ \A m \in Messages :
           /\ JobOK(job[m]) /\ job[m].state = "waiting"
           /\ job[m].attempts = 0 /\ job[m].stalls = 0
           /\ \A q \in Queues : received[<<q, m>>] = 0
  BY DEF RouteInit, JobOK
<1>2. EachQueueOnce => QueuesOnce(definition)
  BY DEF RouteInit, EachQueueOnce
<1>3. \A m \in Messages, q \in Queues : Copies(definition, job[m], q) = 0
  BY <1>1 DEF Copies
<1> QED BY <1>1, <1>2, <1>3 DEF CopiesInv, Placed

-----------------------------------------------------------------------------
(* However many sends fail and workers stall: where no binding names a     *)
(* queue twice, a queue has no more copies of a message than its job had   *)
(* runs. Each retry costs a copy at most.                                  *)
THEOREM CopiesBounded == ASSUME EachQueueOnce PROVE RouteSpec => []CopiesAreRetries
<1>1. CopiesInv => CopiesAreRetries
  <2> SUFFICES ASSUME CopiesInv, NEW q \in Queues, NEW m \in Messages
               PROVE  WithinRuns(q, m)
    BY DEF CopiesAreRetries
  <2>1. received[<<q, m>>] <= Copies(definition, job[m], q) /\ received[<<q, m>>] \in Nat /\ JobOK(job[m])
    BY DEF CopiesInv
  <2> QED BY <2>1 DEF Copies, JobOK, WithinRuns
<1> QED BY <1>1, CopiesInit, RoutingStep, PTL DEF RouteSpec

-----------------------------------------------------------------------------
(* The first of several cases.                                             *)
LEMMA NatLeast ==
  ASSUME NEW T, T \subseteq Nat, T # {}
  PROVE  \E x \in T : \A y \in T : x <= y
<1>1. PICK R : R = {ss \in Nat \X Nat : ss[1] < ss[2]}
  OBVIOUS
<1>2. IsWellFoundedOn(R, Nat)
  BY <1>1, NatLessThanWellFounded DEF OpToRel
<1>3. PICK x \in T : \A y \in T : ~ (<<y, x>> \in R)
  BY <1>2, WFMin
<1>4. ASSUME NEW y \in T PROVE x <= y
  <2>1. <<y, x>> \in Nat \X Nat /\ x \in Nat /\ y \in Nat
    OBVIOUS
  <2>2. ~ (y < x)
    BY <1>1, <1>3, <2>1
  <2> QED BY <2>1, <2>2
<1> QED BY <1>4

LEMMA NatGreatest ==
  ASSUME NEW n \in Nat, NEW T, T \subseteq 1 .. n, T # {}
  PROVE  \E x \in T : \A y \in T : y <= x
<1>1. PICK D : D = {d \in Nat : n - d \in T}
  OBVIOUS
<1>2. \A y \in T : n - y \in D
  <2> TAKE y \in T
  <2>1. y \in 1 .. n /\ n - y \in Nat /\ n - (n - y) = y
    OBVIOUS
  <2> QED BY <1>1, <2>1
<1>3. PICK d \in D : \A e \in D : d <= e
  BY <1>1, <1>2, NatLeast
<1>4. n - d \in T /\ d \in Nat
  BY <1>1
<1>5. ASSUME NEW y \in T PROVE y <= n - d
  <2>1. d <= n - y /\ y \in 1 .. n
    BY <1>2, <1>3
  <2> QED BY <1>4, <2>1
<1> QED BY <1>4, <1>5

(* The bindings are a sequence, and cases.                                 *)
LEMMA BindingsOK ==
  ASSUME definition \in Gateways
  PROVE  /\ definition \in Seq(Binding)
         /\ Len(definition) \in Nat /\ DOMAIN definition = 1 .. Len(definition)
         /\ Default \notin DOMAIN definition
         /\ \A i \in DOMAIN definition : definition[i].toQueue \in Seq(Queues)
<1>1. definition \in Seq(Binding)
  BY RoutingAssumption
<1>2. /\ Len(definition) \in Nat /\ DOMAIN definition = 1 .. Len(definition)
      /\ \A i \in DOMAIN definition : definition[i] \in Binding
  BY <1>1
<1>3. \A b \in Binding : b.toQueue \in Seq(Queues)
  BY DEF Binding
<1> QED BY <1>1, <1>2, <1>3 DEF Default

LEMMA FirstFound ==
  ASSUME definition \in Gateways, NEW S, S \subseteq DOMAIN definition, S # {}
  PROVE  First(S) \in S /\ \A j \in S \ {First(S)} : Before(First(S), j)
<1>1. PICK n : n \in Nat /\ DOMAIN definition = 1 .. n
  BY BindingsOK, Zenon
<1>2. \E i \in S : \A j \in S \ {i} : Before(i, j)
  <2>1. CASE \E i \in S : HasNone(i)
    <3>1. PICK T : T = {i \in S : HasNone(i)}
      OBVIOUS
    <3>2. PICK i \in T : \A j \in T : i <= j
      BY <1>1, <2>1, <3>1, NatLeast
    <3>3. ASSUME NEW j \in S \ {i} PROVE Before(i, j)
      BY <1>1, <3>1, <3>2 DEF Before, HasNone, HasPattern
    <3> QED BY <3>1, <3>3
  <2>2. CASE ~ \E i \in S : HasNone(i)
    <3>1. PICK i \in S : \A j \in S : j <= i
      BY <1>1, NatGreatest
    <3>2. ASSUME NEW j \in S \ {i} PROVE Before(i, j)
      BY <1>1, <2>2, <3>1 DEF Before, HasNone, HasPattern
    <3> QED BY <3>2
  <2> QED BY <2>1, <2>2
<1> QED BY <1>2 DEF First

-----------------------------------------------------------------------------
(* Where a message gets to.                                                *)

(* A job that goes by another name than its message's type finds no        *)
(* binding without a pattern, or one whose queues refuse the message.      *)
LabelsTell ==
  \A m \in Messages, g \in Gateways : \A i \in DOMAIN g :
    g[i].type = Label[m] /\ g[i].pattern = {} =>
      Label[m] = TypeOf[m] \/ \A q \in ToSet(g[i].toQueue) : ~ IsAllowed(q, m)

(* The message is where it may be.                                         *)
Rightly(got, m) ==
  \A q \in Queues : got[<<q, m>>] > 0 => \E i \in BoundTo(m) : q \in ToSet(definition[i].toQueue)

(* A run of a job that goes by its message's type: no binding of the       *)
(* message is behind it, and the queues before the one it is at have got   *)
(* the message.                                                            *)
Ahead(j, m) ==
  IF j.case \in DOMAIN definition
  THEN \A i \in BoundTo(m) : i = j.case \/ Before(j.case, i)
  ELSE BoundTo(m) = {}
Sent(got, j, m) ==
  \A k \in DOMAIN definition[j.case].toQueue :
    k < j.queue => got[<<definition[j.case].toQueue[k], m>>] > 0
Underway(got, j, m) ==
  /\ j.queue \in Nat
  /\ j.case \in DOMAIN definition =>
       /\ HasNone(j.case) => definition[j.case].type = Label[m]
       /\ Takes(j.case, m) => Sent(got, j, m)
  /\ Label[m] = TypeOf[m] => Ahead(j, m)

(* What a job that completes has done.                                     *)
Delivered(got, m) ==
  Label[m] = TypeOf[m] /\ BoundTo(m) # {} =>
    \E i \in BoundTo(m) :
      /\ \A q \in ToSet(definition[i].toQueue) : got[<<q, m>>] > 0
      /\ (\E j \in BoundTo(m) : HasNone(j)) => HasNone(i)

JobDelivers(got, j, m) ==
  /\ Rightly(got, m)
  /\ j.state = "active" => Underway(got, j, m)
  /\ j.state = "completed" => Delivered(got, m)

DeliveryInv ==
  /\ CopiesInv
  /\ definition \in Gateways
  /\ PatternsTellTypes => \A m \in Messages : JobDelivers(received, job[m], m)

(* A case that takes the message and may send it is a binding of it.       *)
LEMMA TakenIsBound ==
  ASSUME definition \in Gateways, PatternsTellTypes, NEW m \in Messages,
         NEW i \in DOMAIN definition, Takes(i, m),
         HasNone(i) => definition[i].type = TypeOf[m]
  PROVE  i \in BoundTo(m)
BY DEF Takes, BoundTo, PatternsTellTypes, HasNone

LEMMA BoundIsTaken ==
  ASSUME NEW m \in Messages, NEW i \in BoundTo(m)
  PROVE  Takes(i, m) /\ i \in DOMAIN definition /\ definition[i].type = TypeOf[m]
BY DEF Takes, BoundTo

-----------------------------------------------------------------------------
(* What a queue has got it keeps.                                          *)
LEMMA GotMore ==
  ASSUME definition \in Gateways, NEW m \in Messages, NEW got, NEW more, NEW j,
         \A q \in Queues : got[<<q, m>>] > 0 => more[<<q, m>>] > 0
  PROVE  /\ j.case \in DOMAIN definition /\ Sent(got, j, m) => Sent(more, j, m)
         /\ Delivered(got, m) => Delivered(more, m)
<1>1. \A i \in DOMAIN definition :
        /\ \A k \in DOMAIN definition[i].toQueue : definition[i].toQueue[k] \in Queues
        /\ ToSet(definition[i].toQueue) \subseteq Queues
  BY BindingsOK DEF ToSet
<1>2. j.case \in DOMAIN definition /\ Sent(got, j, m) => Sent(more, j, m)
  BY <1>1 DEF Sent
<1>3. Delivered(got, m) => Delivered(more, m)
  BY <1>1, BoundIsTaken DEF Delivered
<1> QED BY <1>2, <1>3

(* The bindings of a gateway do not change.                                *)
LEMMA SameBindings ==
  ASSUME UNCHANGED definition
  PROVE  /\ PatternsTellTypes' <=> PatternsTellTypes
         /\ (\A m \in Messages : JobDelivers(received, job[m], m))'
              <=> \A m \in Messages : JobDelivers(received', job'[m], m)
<1>1. PatternsTellTypes' <=> PatternsTellTypes
  BY DEF PatternsTellTypes
<1>2. (\A m \in Messages : JobDelivers(received, job[m], m))'
        <=> \A m \in Messages : JobDelivers(received', job'[m], m)
  BY DEF JobDelivers, Rightly, Underway, Delivered, Sent, Ahead, BoundTo, Takes, HasNone,
         HasPattern, Before
<1> QED BY <1>1, <1>2

(* A step of one job: the others have what they had.                       *)
LEMMA OneDelivers ==
  ASSUME DeliveryInv, CopiesInv', UNCHANGED definition, NEW m \in Messages, NEW j,
         job' = [job EXCEPT ![m] = j],
         \A q \in Queues, n \in Messages \ {m} : received'[<<q, n>>] = received[<<q, n>>],
         PatternsTellTypes => JobDelivers(received', j, m)
  PROVE  DeliveryInv'
<1>1. ASSUME PatternsTellTypes, NEW n \in Messages
      PROVE  JobDelivers(received', job'[n], n)
  <2>1. CASE n = m
    BY <1>1, <2>1 DEF DeliveryInv, CopiesInv
  <2>2. CASE n # m
    <3>1. /\ job'[n] = job[n] /\ JobDelivers(received, job[n], n)
          /\ \A q \in Queues : received'[<<q, n>>] = received[<<q, n>>]
      BY <1>1, <2>2 DEF DeliveryInv
    <3>2. PICK got : got = received'
      OBVIOUS
    <3>3. \A q \in Queues : got[<<q, n>>] = received[<<q, n>>]
      BY <3>1, <3>2
    <3>4. Rightly(got, n)
      BY <3>1, <3>3 DEF JobDelivers, Rightly
    <3>5. job[n].state = "active" => Underway(got, job[n], n)
      BY <3>1, <3>3, GotMore DEF JobDelivers, Underway, DeliveryInv
    <3>6. job[n].state = "completed" => Delivered(got, n)
      BY <3>1, <3>3, GotMore DEF JobDelivers, DeliveryInv
    <3> QED BY <3>1, <3>2, <3>4, <3>5, <3>6 DEF JobDelivers
  <2> QED BY <2>1, <2>2
<1> QED BY <1>1, SameBindings DEF DeliveryInv

-----------------------------------------------------------------------------
(* Steps that send nothing.                                                *)
LEMMA RouteDelivers ==
  ASSUME DeliveryInv, NEW m \in Messages, Route(m)
  PROVE  DeliveryInv'
<1>1. PICK o : o = job[m] /\ JobOK(o) /\ o.state = "waiting"
  BY DEF DeliveryInv, CopiesInv, Route
<1>2. CopiesInv'
  BY RouteJob DEF DeliveryInv
<1>3. /\ UNCHANGED definition /\ received' = received
      /\ PatternsTellTypes => Rightly(received, m)
  BY DEF DeliveryInv, JobDelivers, Route
<1>4. Label[m] = TypeOf[m] => BoundTo(m) \subseteq Labelled(m)
  BY DEF BoundTo, Labelled
<1>5. CASE Labelled(m) = {}
  <2>1. PICK j : j = [o EXCEPT !.state = "completed"]
    OBVIOUS
  <2>2. job' = [job EXCEPT ![m] = j]
    BY <1>1, <1>5, <2>1 DEF Route
  <2>3. j.state = "completed"
    BY <1>1, <2>1 DEF JobOK
  <2>4. Delivered(received, m)
    BY <1>4, <1>5 DEF Delivered
  <2> QED BY <1>2, <1>3, <2>2, <2>3, <2>4, OneDelivers DEF JobDelivers
<1>6. CASE Labelled(m) # {}
  <2>1. PICK c : c = First(Labelled(m))
    OBVIOUS
  <2>2. PICK j : j = [o EXCEPT !.state = "active", !.case = c, !.queue = 1]
    OBVIOUS
  <2>3. job' = [job EXCEPT ![m] = j]
    BY <1>1, <1>6, <2>1, <2>2 DEF Route
  <2>4. j.state = "active" /\ j.queue = 1 /\ j.case = c
    BY <1>1, <2>2 DEF JobOK
  <2>5. c \in Labelled(m) /\ \A i \in Labelled(m) \ {c} : Before(c, i)
    <3>1. Labelled(m) \subseteq DOMAIN definition /\ definition \in Gateways
      BY DEF Labelled, DeliveryInv
    <3> QED BY <1>6, <2>1, <3>1, FirstFound
  <2>6. c \in DOMAIN definition /\ definition[c].type = Label[m]
    BY <2>5 DEF Labelled
  <2>7. Sent(received, j, m)
    BY <2>4, <2>6, BindingsOK DEF Sent, DeliveryInv
  <2>8. Label[m] = TypeOf[m] => Ahead(j, m)
    BY <1>4, <2>4, <2>5, <2>6 DEF Ahead
  <2>9. Underway(received, j, m)
    BY <2>4, <2>6, <2>7, <2>8 DEF Underway
  <2> QED BY <1>2, <1>3, <2>3, <2>4, <2>9, OneDelivers DEF JobDelivers
<1> QED BY <1>5, <1>6

LEMMA FallDelivers ==
  ASSUME DeliveryInv, NEW m \in Messages, FallThrough(m)
  PROVE  DeliveryInv'
<1>1. PICK o : o = job[m] /\ JobOK(o) /\ o.state = "active" /\ o.queue = 1
               /\ o.case \in DOMAIN definition /\ ~ Takes(o.case, m)
  BY DEF DeliveryInv, CopiesInv, Placed, FallThrough
<1>2. /\ UNCHANGED definition /\ received' = received
      /\ PatternsTellTypes => Rightly(received, m) /\ Underway(received, o, m)
  BY <1>1 DEF DeliveryInv, JobDelivers, FallThrough
<1>3. CopiesInv'
  BY FallStep DEF DeliveryInv
<1>4. PICK c : c = IF After(o.case) = {} THEN Default ELSE First(After(o.case))
  OBVIOUS
<1>5. PICK j : j = [o EXCEPT !.case = c]
  OBVIOUS
<1>6. job' = [job EXCEPT ![m] = j]
  BY <1>1, <1>4, <1>5 DEF FallThrough
<1>7. j.state = "active" /\ j.queue = 1 /\ j.case = c
  BY <1>1, <1>5 DEF JobOK
<1>8. ASSUME PatternsTellTypes PROVE Underway(received, j, m)
  <2>1. \A i \in After(o.case) : i \in DOMAIN definition /\ ~ HasNone(i)
    BY <1>1 DEF After, Before, Takes, HasNone, HasPattern
  <2>2. Label[m] = TypeOf[m] => BoundTo(m) \subseteq After(o.case)
    <3>1. o.case \notin BoundTo(m)
      BY <1>1, BoundIsTaken
    <3> QED BY <1>1, <1>2, <1>8, <3>1, BoundIsTaken DEF Underway, Ahead, After
  <2>3. CASE After(o.case) = {}
    <3>1. c \notin DOMAIN definition
      BY <1>4, <2>3, BindingsOK DEF DeliveryInv
    <3> QED BY <1>7, <2>2, <2>3, <3>1 DEF Underway, Ahead
  <2>4. CASE After(o.case) # {}
    <3>1. c \in After(o.case) /\ \A i \in After(o.case) \ {c} : Before(c, i)
      <4>1. After(o.case) \subseteq DOMAIN definition /\ definition \in Gateways
        BY DEF After, DeliveryInv
      <4> QED BY <1>4, <2>4, <4>1, FirstFound
    <3>2. c \in DOMAIN definition /\ ~ HasNone(c)
      BY <2>1, <3>1
    <3>3. Sent(received, j, m)
      BY <1>7, <3>2, BindingsOK DEF Sent, DeliveryInv
    <3>4. Label[m] = TypeOf[m] => Ahead(j, m)
      BY <1>7, <2>2, <3>1, <3>2 DEF Ahead
    <3> QED BY <1>7, <3>2, <3>3, <3>4 DEF Underway
  <2> QED BY <2>3, <2>4
<1> QED BY <1>2, <1>3, <1>6, <1>7, <1>8, OneDelivers DEF JobDelivers

LEMMA CompleteDelivers ==
  ASSUME DeliveryInv, NEW m \in Messages, Complete(m)
  PROVE  DeliveryInv'
<1>1. PICK o : o = job[m] /\ JobOK(o) /\ o.state = "active"
               /\ (o.case \in DOMAIN definition =>
                     Takes(o.case, m) /\ o.queue > Len(definition[o.case].toQueue))
  BY DEF DeliveryInv, CopiesInv, Complete
<1>2. /\ UNCHANGED definition /\ received' = received
      /\ PatternsTellTypes => Rightly(received, m) /\ Underway(received, o, m)
  BY <1>1 DEF DeliveryInv, JobDelivers, Complete
<1>3. CopiesInv'
  BY CompleteStep DEF DeliveryInv
<1>4. PICK j : j = [o EXCEPT !.state = "completed"]
  OBVIOUS
<1>5. job' = [job EXCEPT ![m] = j]
  BY <1>1, <1>4 DEF Complete
<1>6. j.state = "completed"
  BY <1>1, <1>4 DEF JobOK
<1>7. ASSUME PatternsTellTypes PROVE Delivered(received, m)
  <2> SUFFICES ASSUME Label[m] = TypeOf[m], BoundTo(m) # {}
               PROVE  \E i \in BoundTo(m) :
                        /\ \A q \in ToSet(definition[i].toQueue) : received[<<q, m>>] > 0
                        /\ (\E k \in BoundTo(m) : HasNone(k)) => HasNone(i)
    BY DEF Delivered
  <2>1. Underway(received, o, m) /\ Ahead(o, m) /\ o.case \in DOMAIN definition
    BY <1>2, <1>7 DEF Underway, Ahead
  <2>2. o.case \in BoundTo(m)
    <3>1. Takes(o.case, m) /\ (HasNone(o.case) => definition[o.case].type = TypeOf[m])
      BY <1>1, <2>1 DEF Underway
    <3>2. definition \in Gateways
      BY DEF DeliveryInv
    <3> QED BY <1>7, <2>1, <3>1, <3>2, TakenIsBound
  <2>3. (\E k \in BoundTo(m) : HasNone(k)) => HasNone(o.case)
    BY <2>1 DEF Ahead, Before, HasPattern, HasNone
  <2>4. \A q \in ToSet(definition[o.case].toQueue) : received[<<q, m>>] > 0
    <3>1. Sent(received, o, m) /\ o.queue > Len(definition[o.case].toQueue) /\ o.queue \in Nat
      BY <1>1, <2>1 DEF Underway
    <3>2. definition[o.case].toQueue \in Seq(Queues)
      BY <2>1, BindingsOK DEF DeliveryInv
    <3>3. \A k \in DOMAIN definition[o.case].toQueue : k < o.queue
      BY <3>1, <3>2
    <3> QED BY <3>1, <3>3 DEF Sent, ToSet
  <2> QED BY <2>2, <2>3, <2>4
<1> QED BY <1>2, <1>3, <1>5, <1>6, <1>7, OneDelivers DEF JobDelivers

-----------------------------------------------------------------------------
(* A run that fails or stalls.                                             *)
LEMMA RunEndsRightly ==
  ASSUME DeliveryInv, CopiesInv', UNCHANGED definition, NEW m \in Messages, NEW j,
         job' = [job EXCEPT ![m] = j], j.state \in {"waiting", "failed"},
         \A q \in Queues, n \in Messages \ {m} : received'[<<q, n>>] = received[<<q, n>>],
         PatternsTellTypes => Rightly(received', m)
  PROVE  DeliveryInv'
<1>1. PatternsTellTypes => JobDelivers(received', j, m)
  BY DEF JobDelivers
<1> QED BY <1>1, OneDelivers

LEMMA NothingSent ==
  ASSUME DeliveryInv, NEW m \in Messages, received' = received, PatternsTellTypes
  PROVE  Rightly(received', m)
BY DEF DeliveryInv, JobDelivers

LEMMA StallDelivers ==
  ASSUME DeliveryInv, NEW m \in Messages, Stall(m)
  PROVE  DeliveryInv'
<1>1. CopiesInv'
  BY StallStep DEF DeliveryInv
<1>2. PICK j : j = Stalled(job[m]) /\ JobOK(job[m])
  BY DEF DeliveryInv, CopiesInv
<1>3. /\ job' = [job EXCEPT ![m] = j] /\ UNCHANGED definition /\ received' = received
  BY <1>2 DEF Stall
<1>4. j.state \in {"waiting", "failed"}
  BY <1>2 DEF Stalled, JobOK
<1> QED BY <1>1, <1>3, <1>4, RunEndsRightly, NothingSent

LEMMA RefusedDelivers ==
  ASSUME DeliveryInv, NEW m \in Messages, SendRefused(m)
  PROVE  DeliveryInv'
<1>1. CopiesInv' /\ JobOK(job[m])
  BY RefusedStep DEF DeliveryInv, CopiesInv
<1>2. /\ job' = [job EXCEPT ![m] = Retry(job[m])] /\ UNCHANGED definition
      /\ received' = received
  BY DEF SendRefused
<1> QED BY <1>1, <1>2, RetryJob, RunEndsRightly, NothingSent

-----------------------------------------------------------------------------
(* Steps that send.                                                        *)
LEMMA RightDestination ==
  ASSUME DeliveryInv, LabelsTell, PatternsTellTypes, NEW m \in Messages,
         Sending(m), IsAllowed(Destination(m), m)
  PROVE  /\ job[m].case \in BoundTo(m) /\ Destination(m) \in Queues
         /\ Destination(m) \in ToSet(definition[job[m].case].toQueue)
<1>1. PICK i : i = job[m].case
  OBVIOUS
<1>2. /\ i \in DOMAIN definition /\ Takes(i, m) /\ definition \in Gateways
      /\ job[m].queue \in DOMAIN definition[i].toQueue
      /\ Destination(m) = definition[i].toQueue[job[m].queue]
  BY <1>1 DEF Sending, Destination, DeliveryInv
<1>3. Destination(m) \in ToSet(definition[i].toQueue) /\ Destination(m) \in Queues
  BY <1>2, BindingsOK DEF ToSet
<1>4. HasNone(i) => definition[i].type = Label[m]
  BY <1>1, <1>2 DEF DeliveryInv, JobDelivers, Underway, Sending
<1>5. HasNone(i) => definition[i].type = TypeOf[m]
  BY <1>2, <1>3, <1>4 DEF LabelsTell, HasNone
<1> QED BY <1>1, <1>2, <1>3, <1>5, TakenIsBound

LEMMA SentRightly ==
  ASSUME DeliveryInv, LabelsTell, PatternsTellTypes, NEW m \in Messages,
         Sending(m), IsAllowed(Destination(m), m),
         received' = [received EXCEPT ![<<Destination(m), m>>] = @ + 1]
  PROVE  Rightly(received', m)
<1>1. PICK d : d = Destination(m)
  OBVIOUS
<1>2. \A q \in Queues : received'[<<q, m>>] = IF q = d THEN received[<<q, m>>] + 1
                                               ELSE received[<<q, m>>]
  BY <1>1, OneCopy DEF DeliveryInv
<1>3. Rightly(received, m)
  BY DEF DeliveryInv, JobDelivers
<1>4. \E i \in BoundTo(m) : d \in ToSet(definition[i].toQueue)
  BY <1>1, RightDestination
<1> QED BY <1>2, <1>3, <1>4 DEF Rightly

LEMMA SendFailsDelivers ==
  ASSUME DeliveryInv, LabelsTell, NEW m \in Messages, NEW stored \in BOOLEAN,
         SendFails(m, stored)
  PROVE  DeliveryInv'
<1>1. CopiesInv' /\ CopiesInv /\ JobOK(job[m])
  BY SendFailsStep DEF DeliveryInv, CopiesInv
<1>2. /\ job' = [job EXCEPT ![m] = Retry(job[m])] /\ UNCHANGED definition
      /\ Sending(m) /\ IsAllowed(Destination(m), m)
  BY DEF SendFails
<1>3. Retry(job[m]).state \in {"waiting", "failed"}
  BY <1>1, RetryJob
<1>4. CASE stored
  <2>1. received' = [received EXCEPT ![<<Destination(m), m>>] = @ + 1]
    BY <1>4 DEF SendFails
  <2>2. \A q \in Queues, n \in Messages \ {m} : received'[<<q, n>>] = received[<<q, n>>]
    BY <1>1, <2>1, OneCopy
  <2>3. PatternsTellTypes => Rightly(received', m)
    BY <1>2, <2>1, SentRightly
  <2> QED BY <1>1, <1>2, <1>3, <2>2, <2>3, RunEndsRightly
<1>5. CASE ~ stored
  <2>1. received' = received
    BY <1>5 DEF SendFails
  <2> QED BY <1>1, <1>2, <1>3, <2>1, RunEndsRightly, NothingSent
<1> QED BY <1>4, <1>5

LEMMA SendDelivers ==
  ASSUME DeliveryInv, LabelsTell, NEW m \in Messages, Send(m)
  PROVE  DeliveryInv'
<1>1. CopiesInv' /\ CopiesInv
  BY SendStep DEF DeliveryInv
<1>2. PICK o : o = job[m] /\ JobOK(o) /\ o.state = "active"
  BY <1>1 DEF CopiesInv, Send, Sending
<1>3. PICK d : d = Destination(m)
  OBVIOUS
<1>4. /\ received' = [received EXCEPT ![<<d, m>>] = @ + 1] /\ UNCHANGED definition
      /\ Sending(m) /\ IsAllowed(d, m)
  BY <1>3 DEF Send
<1>5. PICK j : j = [o EXCEPT !.queue = @ + 1]
  OBVIOUS
<1>6. job' = [job EXCEPT ![m] = j]
  BY <1>2, <1>5 DEF Send
<1>7. j.state = "active" /\ j.case = o.case /\ j.queue = o.queue + 1 /\ o.queue \in Nat
  BY <1>2, <1>5 DEF JobOK
<1>8. /\ \A q \in Queues, n \in Messages \ {m} : received'[<<q, n>>] = received[<<q, n>>]
      /\ \A q \in Queues : received'[<<q, m>>] = IF q = d THEN received[<<q, m>>] + 1
                                                ELSE received[<<q, m>>]
      /\ \A q \in Queues : received[<<q, m>>] \in Nat
  BY <1>1, <1>4, OneCopy DEF CopiesInv
<1>9. ASSUME PatternsTellTypes PROVE JobDelivers(received', j, m)
  <2>1. Rightly(received', m)
    BY <1>3, <1>4, <1>9, SentRightly
  <2>2. Underway(received, o, m)
    BY <1>2, <1>9 DEF DeliveryInv, JobDelivers
  <2>3. PICK got : got = received'
    OBVIOUS
  <2>4. /\ o.case \in DOMAIN definition /\ Takes(o.case, m) /\ definition \in Gateways
        /\ d = definition[o.case].toQueue[o.queue]
    BY <1>2, <1>3, <1>4 DEF Sending, Destination, DeliveryInv
  <2>5. Sent(got, o, m)
    <3>1. Sent(received, o, m)
      BY <2>2, <2>4 DEF Underway
    <3>2. \A q \in Queues : received[<<q, m>>] > 0 => got[<<q, m>>] > 0
      BY <1>8, <2>3
    <3> QED BY <2>4, <3>1, <3>2, GotMore
  <2>6. d \in Queues /\ got[<<d, m>>] > 0
    BY <1>3, <1>4, <1>8, <1>9, <2>3, RightDestination
  <2>7. Sent(got, j, m)
    <3>1. definition[o.case].toQueue \in Seq(Queues)
      BY <2>4, BindingsOK
    <3>2. \A k \in DOMAIN definition[o.case].toQueue : k < j.queue => k < o.queue \/ k = o.queue
      <4>1. \A k \in DOMAIN definition[o.case].toQueue : k \in Nat
        BY <3>1
      <4> QED BY <1>7, <4>1
    <3> QED BY <1>7, <2>4, <2>5, <2>6, <3>2 DEF Sent
  <2>8. Label[m] = TypeOf[m] => Ahead(j, m)
    BY <1>7, <2>2 DEF Underway, Ahead
  <2>9. Underway(got, j, m)
    BY <1>7, <2>2, <2>4, <2>7, <2>8 DEF Underway
  <2> QED BY <1>7, <2>1, <2>3, <2>9 DEF JobDelivers
<1> QED BY <1>1, <1>4, <1>6, <1>8, <1>9, OneDelivers

LEMMA DeliveryStep ==
  ASSUME LabelsTell, DeliveryInv, [RouteNext]_routeVars
  PROVE  DeliveryInv'
<1>1. ASSUME NEW m \in Messages, RouteStep(m) PROVE DeliveryInv'
  BY <1>1, RouteDelivers, FallDelivers, SendDelivers, CompleteDelivers, RefusedDelivers
     DEF RouteStep
<1>2. ASSUME NEW m \in Messages, Stall(m) PROVE DeliveryInv'
  BY <1>2, StallDelivers
<1>3. ASSUME NEW m \in Messages, NEW stored \in BOOLEAN, SendFails(m, stored)
      PROVE  DeliveryInv'
  BY <1>3, SendFailsDelivers
<1>4. ASSUME UNCHANGED routeVars PROVE DeliveryInv'
  <2>1. CopiesInv'
    BY <1>4, RoutingStep DEF DeliveryInv
  <2>2. UNCHANGED <<definition, job, received>>
    BY <1>4 DEF routeVars
  <2>3. PatternsTellTypes => \A m \in Messages : JobDelivers(received', job'[m], m)
    BY <2>2 DEF DeliveryInv
  <2> QED BY <2>1, <2>2, <2>3, SameBindings DEF DeliveryInv
<1> QED BY <1>1, <1>2, <1>3, <1>4 DEF RouteNext

-----------------------------------------------------------------------------
(* Where the patterns and labels tell the types: a job that completes has  *)
(* reached every queue of a binding of its message, and no job reaches     *)
(* another queue, whatever fails and stalls.                               *)
THEOREM CompletedDelivered == ASSUME LabelsTell PROVE RouteSpec => []CompletedMeansDelivered
<1>1. RouteInit => DeliveryInv
  <2> SUFFICES ASSUME RouteInit PROVE DeliveryInv
    OBVIOUS
  <2>1. /\ \A m \in Messages : job[m].state = "waiting"
        /\ \A m \in Messages, q \in Queues : received[<<q, m>>] = 0
    BY DEF RouteInit
  <2> QED BY <2>1, CopiesInit DEF RouteInit, DeliveryInv, JobDelivers, Rightly
<1>2. DeliveryInv /\ [RouteNext]_routeVars => DeliveryInv'
  BY DeliveryStep
<1>3. DeliveryInv => CompletedMeansDelivered
  <2> SUFFICES ASSUME DeliveryInv, PatternsTellTypes
               PROVE  /\ DeliveredAsBound
                      /\ \A m \in Messages : job[m].state = "completed" => Delivered(received, m)
    BY DEF CompletedMeansDelivered, Delivered
  <2> QED BY DEF DeliveryInv, JobDelivers, Rightly, DeliveredAsBound
<1> QED BY <1>1, <1>2, <1>3, PTL DEF RouteSpec
=============================================================================
