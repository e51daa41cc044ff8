------------------------ MODULE TaskScheduler_proofs ------------------------
(* What holds of the schedules of any number of processes and releases,    *)
(* whatever their tasks, and however many calls and processes fail.        *)
EXTENDS TaskScheduler, TLAPS

(* A process that lists or adds is at one of its tasks, and only one that  *)
(* is to add has removals under way.                                       *)
TaskAt(n) == Tasks[n.release][n.next]
Busy(n) == n.pc \in {"list", "add"}
ProcOK(n) ==
  /\ n \in Process
  /\ Busy(n) => n.next \in 1 .. Len(Tasks[n.release])
  /\ n.found # {} => n.pc = "add"
Typed == TypeOK /\ \A p \in Processes : ProcOK(proc[p])

LEMMA TaskAtType ==
  ASSUME NEW n, ProcOK(n), Busy(n)
  PROVE  TaskAt(n) \in Task
<1>1. n.release \in Releases /\ n.next \in 1 .. Len(Tasks[n.release])
  BY DEF ProcOK, Process
<1>2. Tasks[n.release] \in Seq(Task)
  BY <1>1, SchedulerAssumption
<1> QED BY <1>1, <1>2 DEF TaskAt

LEMMA StoreType ==
  ASSUME TypeOK, NEW t \in Task, Store(t)
  PROVE  repeatables' \subseteq Repeatable /\ delayed' \in [Data -> Nat]
<1>1. CASE t.kind = "every"
  <2>1. Definition(t) \in Repeatable
    BY DEF Task, Definition, Repeatable
  <2> QED BY <1>1, <2>1 DEF Store, TypeOK
<1>2. CASE t.kind # "every"
  <2>1. delayed' = [delayed EXCEPT ![t.data] = @ + 1] /\ UNCHANGED repeatables
    BY <1>2 DEF Store
  <2>2. t.data \in Data
    BY DEF Task
  <2> QED BY <2>1, <2>2 DEF TypeOK
<1> QED BY <1>1, <1>2

(* Going on with the next task, whatever became of this one.               *)
LEMMA NextTaskOK ==
  ASSUME Typed, NEW p \in Processes, NEW ok \in BOOLEAN, proc[p].found = {}
  PROVE  ProcOK(NextTask(p, ok)) /\ NextTask(p, ok).pc = "next"
<1>1. PICK n \in Process : n = proc[p]
  BY DEF Typed, TypeOK
<1>2. PICK m : m = NextTask(p, ok)
  OBVIOUS
<1>3. m = [n EXCEPT !.pc = "next", !.next = @ + 1,
             !.scheduled = IF ok THEN @ \cup {n.next} ELSE @]
  BY <1>1, <1>2 DEF NextTask
<1>4. m \in Process /\ m.pc = "next" /\ m.found = n.found
  <2> DEFINE s == IF ok THEN n.scheduled \cup {n.next} ELSE n.scheduled
  <2>1. s \in SUBSET Nat /\ n.next + 1 \in Nat \ {0}
    BY DEF Process
  <2>2. m = [n EXCEPT !.pc = "next", !.next = n.next + 1, !.scheduled = s]
    BY <1>3
  <2> HIDE DEF s
  <2> QED BY <2>1, <2>2 DEF Process
<1> QED BY <1>1, <1>2, <1>4 DEF ProcOK, Busy

(* A process changes, and what it calls stores what the types allow.       *)
LEMMA ProcTyped ==
  ASSUME Typed, NEW p \in Processes, NEW n, ProcOK(n), proc' = [proc EXCEPT ![p] = n],
         repeatables' \subseteq Repeatable, delayed' \in [Data -> Nat],
         starts' \in 0 .. MaxStarts, faults' \in 0 .. MaxFaults, astray' \in BOOLEAN
  PROVE  Typed'
<1>1. \A q \in Processes : proc'[q] = IF q = p THEN n ELSE proc[q]
  BY DEF Typed, TypeOK
<1>2. proc' \in [Processes -> Process]
  BY DEF Typed, TypeOK, ProcOK
<1> QED BY <1>1, <1>2 DEF Typed, TypeOK

-----------------------------------------------------------------------------
(* Why there is one definition of a task.  A task is recognized in the     *)
(* queue by its id where that is listed, by its name otherwise, which the  *)
(* name given in a task's options has to tell.                             *)
NamesTell ==
  \/ IdListed
  \/ \A r \in Releases : \A i \in 1 .. Len(Tasks[r]) :
       <<Tasks[r][i].name, Tasks[r][i].type>> \in Includes

(* As long as no process ran beside another and no removal failed, one     *)
(* process at most is at work; whatever its next definition would double   *)
(* is to be removed; and nothing is doubled.                               *)
Idle(n) == n.pc \in {"down", "done"}
Clears(n, rs) ==
  n.pc = "add" /\ TaskAt(n).kind = "every" => \A r \in rs : Matches(r, TaskAt(n)) => r \in n.found
OneEach(rs) == \A r, s \in rs : r.name = s.name /\ r.data = s.data => r = s
Tidy ==
  NamesTell /\ ~ astray =>
    /\ \A p, q \in Processes : Idle(proc[p]) \/ Idle(proc[q]) \/ p = q
    /\ \A p \in Processes : Clears(proc[p], repeatables)
    /\ OneEach(repeatables)
ScheduleInv == Typed /\ Tidy

(* A process at work goes on: the others are idle.                         *)
LEMMA ProcTidy ==
  ASSUME Typed, Tidy, NEW p \in Processes, NEW n, proc' = [proc EXCEPT ![p] = n],
         Idle(proc[p]) => Idle(n) /\ UNCHANGED repeatables,
         NamesTell /\ ~ astray' => ~ astray /\ Clears(n, repeatables') /\ OneEach(repeatables')
  PROVE  Tidy'
<1> SUFFICES ASSUME NamesTell, ~ astray'
             PROVE  /\ \A q, r \in Processes : Idle(proc'[q]) \/ Idle(proc'[r]) \/ q = r
                    /\ \A q \in Processes : Clears(proc'[q], repeatables')
                    /\ OneEach(repeatables')
  BY DEF Tidy
<1>1. \A q \in Processes : proc'[q] = IF q = p THEN n ELSE proc[q]
  BY DEF Typed, TypeOK
<1>2. \A q, r \in Processes : Idle(proc[q]) \/ Idle(proc[r]) \/ q = r
  BY DEF Tidy
<1>3. \A q, r \in Processes : Idle(proc'[q]) \/ Idle(proc'[r]) \/ q = r
  BY <1>1, <1>2
<1>4. ASSUME NEW q \in Processes PROVE Clears(proc'[q], repeatables')
  <2>1. CASE q = p
    BY <1>1, <2>1
  <2>2. CASE q # p /\ Idle(proc[p])
    BY <1>1, <2>2 DEF Tidy
  <2>3. CASE q # p /\ Idle(proc[q])
    BY <1>1, <2>3 DEF Clears, Idle
  <2> QED BY <1>2, <2>1, <2>2, <2>3
<1> QED BY <1>3, <1>4

-----------------------------------------------------------------------------
(* The actions, each with what its process goes on with.                   *)
LEMMA StartStep ==
  ASSUME ScheduleInv, NEW p \in Processes, NEW r \in Releases, Start(p, r)
  PROVE  ScheduleInv'
<1> DEFINE n == [pc |-> "next", release |-> r, next |-> 1, found |-> {}, scheduled |-> {}]
<1>1. proc' = [proc EXCEPT ![p] = n] /\ UNCHANGED <<repeatables, delayed, faults>>
  BY DEF Start
<1>2. ProcOK(n)
  BY DEF ProcOK, Process, Busy
<1>3. starts' \in 0 .. MaxStarts /\ astray' \in BOOLEAN
  BY SchedulerAssumption DEF Start, ScheduleInv, Typed, TypeOK, RunsBeside
<1> HIDE DEF n
<1>4. Typed'
  BY <1>1, <1>2, <1>3, ProcTyped DEF ScheduleInv, Typed, TypeOK
<1>5. ASSUME ~ astray'
      PROVE  /\ \A q \in Processes \ {p} : Idle(proc[q])
             /\ ~ astray
  BY <1>5 DEF Start, RunsBeside, Idle
<1>6. \A q \in Processes : proc'[q] = IF q = p THEN n ELSE proc[q]
  BY <1>1 DEF ScheduleInv, Typed, TypeOK
<1>7. ASSUME NEW rs PROVE Clears(n, rs)
  BY DEF Clears, n
<1> QED BY <1>1, <1>4, <1>5, <1>6, <1>7 DEF ScheduleInv, Tidy

LEMMA DieStep ==
  ASSUME ScheduleInv, NEW p \in Processes, Die(p)
  PROVE  ScheduleInv'
<1>1. PICK m \in Process : m = proc[p]
  BY DEF ScheduleInv, Typed, TypeOK
<1>2. PICK n : n = [m EXCEPT !.pc = "down", !.found = {}]
  OBVIOUS
<1>3. proc' = [proc EXCEPT ![p] = n]
  BY <1>1, <1>2 DEF Die
<1>4. n \in Process /\ n.pc = "down" /\ n.found = {}
  BY <1>2 DEF Process
<1>5. ProcOK(n) /\ Idle(n) /\ Clears(n, repeatables)
  BY <1>4 DEF ProcOK, Busy, Idle, Clears
<1>6. faults' \in 0 .. MaxFaults /\ UNCHANGED <<repeatables, delayed, starts, astray>>
  BY SchedulerAssumption DEF Die, Fault, ScheduleInv, Typed, TypeOK
<1>7. Typed'
  BY <1>3, <1>5, <1>6, ProcTyped DEF ScheduleInv, Typed, TypeOK
<1>8. Tidy'
  BY <1>3, <1>5, <1>6, ProcTidy DEF ScheduleInv, Tidy
<1> QED BY <1>7, <1>8 DEF ScheduleInv

(* A process at work goes on without having written to the queue.          *)
LEMMA QuietStep ==
  ASSUME ScheduleInv, NEW p \in Processes, ~ Idle(proc[p]),
         NEW n, ProcOK(n), Clears(n, repeatables), proc' = [proc EXCEPT ![p] = n],
         faults' \in 0 .. MaxFaults, UNCHANGED <<repeatables, delayed, starts, astray>>
  PROVE  ScheduleInv'
<1>1. Typed'
  BY ProcTyped DEF ScheduleInv, Typed, TypeOK
<1>2. Tidy'
  BY ProcTidy DEF ScheduleInv, Tidy
<1> QED BY <1>1, <1>2 DEF ScheduleInv

LEMMA FinishStep ==
  ASSUME ScheduleInv, NEW p \in Processes, Finish(p)
  PROVE  ScheduleInv'
<1>1. PICK m \in Process : m = proc[p]
  BY DEF ScheduleInv, Typed, TypeOK
<1>2. PICK n : n = [m EXCEPT !.pc = "done"]
  OBVIOUS
<1>3. proc' = [proc EXCEPT ![p] = n]
  BY <1>1, <1>2 DEF Finish
<1>4. n \in Process /\ n.pc = "done" /\ n.found = m.found
  BY <1>2 DEF Process
<1>5. m.pc = "next" /\ m.found = {}
  BY <1>1 DEF Finish, ScheduleInv, Typed, ProcOK
<1>6. ProcOK(n) /\ Clears(n, repeatables) /\ ~ Idle(proc[p])
  BY <1>1, <1>4, <1>5 DEF ProcOK, Busy, Idle, Clears
<1> QED BY <1>3, <1>6, QuietStep DEF Finish, ScheduleInv, Typed, TypeOK

LEMMA CheckStep ==
  ASSUME ScheduleInv, NEW p \in Processes, Check(p)
  PROVE  ScheduleInv'
<1>1. PICK m \in Process : m = proc[p]
  BY DEF ScheduleInv, Typed, TypeOK
<1>2. /\ ~ Idle(proc[p]) /\ m.pc = "next" /\ m.found = {} /\ proc[p].found = {}
      /\ m.next \in 1 .. Len(Tasks[m.release])
  <2>1. m.next <= Len(Tasks[m.release]) /\ m.pc = "next"
    BY <1>1 DEF Check
  <2>2. m.next \in Nat \ {0} /\ m.release \in Releases
    BY DEF Process
  <2>3. Len(Tasks[m.release]) \in Nat
    BY <2>2, SchedulerAssumption
  <2> QED BY <1>1, <2>1, <2>2, <2>3 DEF ScheduleInv, Typed, ProcOK, Idle
<1>3. UNCHANGED <<repeatables, delayed, starts, faults, astray>> /\ faults' \in 0 .. MaxFaults
  BY DEF Check, ScheduleInv, Typed, TypeOK
<1>4. CASE ~ TaskOf(p).valid
  <2>1. proc' = [proc EXCEPT ![p] = NextTask(p, FALSE)]
    BY <1>4 DEF Check
  <2>2. ProcOK(NextTask(p, FALSE)) /\ NextTask(p, FALSE).pc = "next"
    BY <1>2, NextTaskOK DEF ScheduleInv
  <2>3. Clears(NextTask(p, FALSE), repeatables)
    BY <2>2 DEF Clears
  <2> QED BY <1>2, <1>3, <2>1, <2>2, <2>3, QuietStep
<1>5. CASE TaskOf(p).valid
  <2> DEFINE c == IF TaskOf(p).kind = "at" THEN "add" ELSE "list"
  <2>1. PICK n : n = [m EXCEPT !.pc = c]
    OBVIOUS
  <2>2. proc' = [proc EXCEPT ![p] = n]
    BY <1>1, <1>5, <2>1 DEF Check
  <2>3. c \in {"add", "list"}
    OBVIOUS
  <2> HIDE DEF c
  <2>4. /\ n \in Process /\ n.pc = c /\ n.found = {}
        /\ n.release = m.release /\ n.next = m.next
    BY <1>2, <2>1, <2>3 DEF Process
  <2>5. TaskAt(n) = TaskOf(p)
    BY <1>1, <2>4 DEF TaskAt, TaskOf
  <2>6. ProcOK(n) /\ Clears(n, repeatables)
    BY <1>2, <2>4, <2>5 DEF ProcOK, Busy, Clears, c
  <2> QED BY <1>2, <1>3, <2>2, <2>6, QuietStep
<1> QED BY <1>4, <1>5

LEMMA ListStep ==
  ASSUME ScheduleInv, NEW p \in Processes, List(p)
  PROVE  ScheduleInv'
<1>1. PICK m \in Process : m = proc[p]
  BY DEF ScheduleInv, Typed, TypeOK
<1>2. PICK f : f = {r \in repeatables : Matches(r, TaskOf(p))}
  OBVIOUS
<1>3. PICK n : n = [m EXCEPT !.pc = "add", !.found = f]
  OBVIOUS
<1>4. proc' = [proc EXCEPT ![p] = n]
  BY <1>1, <1>2, <1>3 DEF List
<1>5. f \in SUBSET Repeatable
  BY <1>2 DEF ScheduleInv, Typed, TypeOK
<1>6. /\ n \in Process /\ n.pc = "add" /\ n.found = f
      /\ n.release = m.release /\ n.next = m.next
  BY <1>3, <1>5 DEF Process
<1>7. m.pc = "list" /\ m.next \in 1 .. Len(Tasks[m.release]) /\ ~ Idle(proc[p])
  BY <1>1 DEF List, ScheduleInv, Typed, ProcOK, Busy, Idle
<1>8. TaskAt(n) = TaskOf(p)
  BY <1>1, <1>6 DEF TaskAt, TaskOf
<1>9. ProcOK(n) /\ Clears(n, repeatables)
  BY <1>2, <1>6, <1>7, <1>8 DEF ProcOK, Busy, Clears
<1>10. UNCHANGED <<repeatables, delayed, starts, faults, astray>> /\ faults' \in 0 .. MaxFaults
  BY DEF List, ScheduleInv, Typed, TypeOK
<1> QED BY <1>4, <1>7, <1>9, <1>10, QuietStep

(* One removal ends, whether it removed its definition or failed.          *)
LEMMA RemovalEnds ==
  ASSUME ScheduleInv, NEW p \in Processes, NEW r \in proc[p].found,
         proc' = [proc EXCEPT ![p].found = @ \ {r}],
         repeatables' \in {repeatables, repeatables \ {r}},
         ~ astray' => ~ astray /\ r \notin repeatables',
         astray' \in BOOLEAN, faults' \in 0 .. MaxFaults, UNCHANGED <<delayed, starts>>
  PROVE  ScheduleInv'
<1>1. PICK m \in Process : m = proc[p]
  BY DEF ScheduleInv, Typed, TypeOK
<1>2. PICK n : n = [m EXCEPT !.found = @ \ {r}]
  OBVIOUS
<1>3. proc' = [proc EXCEPT ![p] = n]
  BY <1>1, <1>2
<1>4. m.pc = "add" /\ m.next \in 1 .. Len(Tasks[m.release]) /\ ~ Idle(proc[p])
  BY <1>1 DEF ScheduleInv, Typed, ProcOK, Busy, Idle
<1>5. m.found \ {r} \in SUBSET Repeatable
  BY DEF Process
<1>6. /\ n \in Process /\ n.pc = "add" /\ n.found = m.found \ {r}
      /\ n.release = m.release /\ n.next = m.next
  BY <1>2, <1>4, <1>5 DEF Process
<1>7. ProcOK(n)
  BY <1>4, <1>6 DEF ProcOK, Busy
<1>8. ASSUME NamesTell, ~ astray'
      PROVE  ~ astray /\ Clears(n, repeatables') /\ OneEach(repeatables')
  <2>1. ~ astray /\ r \notin repeatables' /\ repeatables' \subseteq repeatables
    BY <1>8
  <2>2. Clears(m, repeatables) /\ OneEach(repeatables)
    BY <1>1, <1>8, <2>1 DEF ScheduleInv, Tidy
  <2>3. TaskAt(n) = TaskAt(m)
    BY <1>6 DEF TaskAt
  <2> QED BY <1>4, <1>6, <2>1, <2>2, <2>3 DEF Clears, OneEach
<1>9. Typed'
  <2>1. repeatables' \subseteq Repeatable /\ delayed' \in [Data -> Nat] /\ starts' \in 0 .. MaxStarts
    BY DEF ScheduleInv, Typed, TypeOK
  <2> QED BY <1>3, <1>7, <2>1, ProcTyped DEF ScheduleInv
<1>10. Tidy'
  BY <1>3, <1>4, <1>8, ProcTidy DEF ScheduleInv
<1> QED BY <1>9, <1>10 DEF ScheduleInv

(* The add, answered or not: what would be doubled has been removed.       *)
LEMMA AddStep ==
  ASSUME ScheduleInv, NEW p \in Processes, NEW ok \in BOOLEAN,
         AtAdd(p), Store(TaskOf(p)), proc' = [proc EXCEPT ![p] = NextTask(p, ok)],
         faults' \in 0 .. MaxFaults, UNCHANGED <<starts, astray>>
  PROVE  ScheduleInv'
<1>1. PICK n : n = NextTask(p, ok)
  OBVIOUS
<1>2. proc' = [proc EXCEPT ![p] = n] /\ ProcOK(n) /\ n.pc = "next" /\ ~ Idle(proc[p])
  BY <1>1, NextTaskOK DEF AtAdd, ScheduleInv, Idle
<1>3. PICK m : m = proc[p] /\ ProcOK(m) /\ m.pc = "add" /\ m.found = {}
  BY DEF AtAdd, ScheduleInv, Typed
<1>4. PICK t \in Task : t = TaskOf(p) /\ t = TaskAt(m)
  BY <1>3, TaskAtType DEF Busy, TaskAt, TaskOf
<1>5. repeatables' \subseteq Repeatable /\ delayed' \in [Data -> Nat]
  BY <1>4, StoreType DEF ScheduleInv, Typed
<1>6. ASSUME NamesTell, ~ astray' PROVE OneEach(repeatables')
  <2>1. OneEach(repeatables) /\ Clears(m, repeatables)
    BY <1>3, <1>6 DEF ScheduleInv, Tidy
  <2>2. CASE t.kind # "every"
    BY <1>4, <2>1, <2>2 DEF Store
  <2>3. CASE t.kind = "every"
    <3>1. repeatables' = repeatables \cup {Definition(t)}
      BY <1>4, <2>3 DEF Store
    <3>2. \A r \in repeatables : ~ Matches(r, t)
      BY <1>3, <1>4, <2>1, <2>3 DEF Clears
    <3>3. IdListed \/ <<t.name, t.type>> \in Includes
      <4>1. m.release \in Releases /\ m.next \in 1 .. Len(Tasks[m.release])
        BY <1>3 DEF ProcOK, Process, Busy
      <4> QED BY <1>4, <1>6, <4>1 DEF NamesTell, TaskAt
    <3>4. Definition(t).name = t.name /\ Definition(t).data = t.data
      BY DEF Definition
    <3>5. \A r \in repeatables : ~ (r.name = t.name /\ r.data = t.data)
      BY <3>2, <3>3 DEF Matches
    <3> HIDE DEF Definition
    <3> QED BY <2>1, <3>1, <3>4, <3>5 DEF OneEach
  <2> QED BY <2>2, <2>3
<1>7. Typed'
  <2>1. starts' \in 0 .. MaxStarts /\ astray' \in BOOLEAN
    BY DEF ScheduleInv, Typed, TypeOK
  <2> QED BY <1>2, <1>5, <2>1, ProcTyped DEF ScheduleInv
<1>8. Tidy'
  <2>1. Clears(n, repeatables')
    BY <1>2 DEF Clears
  <2> QED BY <1>2, <1>6, <2>1, ProcTidy DEF ScheduleInv
<1> QED BY <1>7, <1>8 DEF ScheduleInv

(* A task is passed over, with nothing to remove.                          *)
LEMMA PassStep ==
  ASSUME ScheduleInv, NEW p \in Processes, proc[p].pc = "list" \/ AtAdd(p),
         proc' = [proc EXCEPT ![p] = NextTask(p, FALSE)],
         faults' \in 0 .. MaxFaults, UNCHANGED <<repeatables, delayed, starts, astray>>
  PROVE  ScheduleInv'
<1>1. proc[p].found = {} /\ ~ Idle(proc[p])
  BY DEF AtAdd, ScheduleInv, Typed, ProcOK, Idle
<1>2. ProcOK(NextTask(p, FALSE)) /\ NextTask(p, FALSE).pc = "next"
  BY <1>1, NextTaskOK DEF ScheduleInv
<1>3. Clears(NextTask(p, FALSE), repeatables)
  BY <1>2 DEF Clears
<1> QED BY <1>1, <1>2, <1>3, QuietStep

LEMMA ScheduleStep == ScheduleInv /\ [Next]_vars => ScheduleInv'
<1> SUFFICES ASSUME ScheduleInv, [Next]_vars PROVE ScheduleInv'
  OBVIOUS
<1>a. faults \in 0 .. MaxFaults /\ (Fault => faults' \in 0 .. MaxFaults) /\ astray \in BOOLEAN
  BY SchedulerAssumption DEF ScheduleInv, Typed, TypeOK, Fault
<1>1. ASSUME NEW p \in Processes, NEW r \in Releases, Start(p, r) PROVE ScheduleInv'
  BY <1>1, StartStep
<1>2. ASSUME NEW p \in Processes, Die(p) PROVE ScheduleInv'
  BY <1>2, DieStep
<1>3. ASSUME NEW p \in Processes, Finish(p) PROVE ScheduleInv'
  BY <1>3, FinishStep
<1>4. ASSUME NEW p \in Processes, Check(p) PROVE ScheduleInv'
  BY <1>4, CheckStep
<1>5. ASSUME NEW p \in Processes, List(p) PROVE ScheduleInv'
  BY <1>5, ListStep
<1>6. ASSUME NEW p \in Processes, NEW r, Remove(p, r) PROVE ScheduleInv'
  BY <1>a, <1>6, RemovalEnds DEF Remove
<1>7. ASSUME NEW p \in Processes, NEW r, RemoveFails(p, r) PROVE ScheduleInv'
  BY <1>a, <1>7, RemovalEnds DEF RemoveFails
<1>8. ASSUME NEW p \in Processes, Add(p) PROVE ScheduleInv'
  BY <1>a, <1>8, AddStep DEF Add
<1>9. ASSUME NEW p \in Processes, AddUnanswered(p) PROVE ScheduleInv'
  BY <1>a, <1>9, AddStep DEF AddUnanswered
<1>10. ASSUME NEW p \in Processes, AddRefused(p) PROVE ScheduleInv'
  BY <1>a, <1>10, PassStep DEF AddRefused
<1>11. ASSUME NEW p \in Processes, CallFails(p) PROVE ScheduleInv'
  BY <1>a, <1>11, PassStep DEF CallFails
<1>12. ASSUME NEW d \in Data, RunDelayed(d) PROVE ScheduleInv'
  BY <1>12 DEF RunDelayed, ScheduleInv, Typed, TypeOK, Tidy
<1>13. CASE UNCHANGED vars
  BY <1>13 DEF vars, ScheduleInv, Typed, TypeOK, Tidy
<1> QED BY <1>1, <1>2, <1>3, <1>4, <1>5, <1>6, <1>7, <1>8, <1>9, <1>10, <1>11, <1>12, <1>13
        DEF Next, Work, Trouble

LEMMA ScheduleInit == Init => ScheduleInv
<1> SUFFICES ASSUME Init PROVE ScheduleInv
  OBVIOUS
<1>1. \A p \in Processes : proc[p] \in Process /\ proc[p].pc = "down" /\ proc[p].found = {}
  BY DEF Init, Process
<1>2. TypeOK
  <2>1. DOMAIN proc = Processes /\ proc \in [Processes -> Process]
    BY <1>1 DEF Init
  <2>2. MaxStarts \in Nat /\ MaxFaults \in Nat
    BY SchedulerAssumption
  <2>3. delayed \in [Data -> Nat] /\ starts \in 0 .. MaxStarts /\ faults \in 0 .. MaxFaults
    BY <2>2 DEF Init
  <2> QED BY <2>1, <2>3 DEF Init, TypeOK
<1>3. Tidy
  BY <1>1 DEF Init, Tidy, Idle, Clears, OneEach
<1>4. ASSUME NEW p \in Processes PROVE ProcOK(proc[p])
  <2>1. ~ Busy(proc[p])
    BY <1>1 DEF Busy
  <2> QED BY <1>1, <2>1 DEF ProcOK
<1> QED BY <1>2, <1>3, <1>4 DEF ScheduleInv, Typed

-----------------------------------------------------------------------------
(* The schedules, the processes and their counters stay within their types *)
(* and bounds, for any tasks and releases.                                 *)
THEOREM SchedulesTyped == Spec => []TypeOK
<1>1. ScheduleInv => TypeOK
  BY DEF ScheduleInv, Typed
<1> QED BY <1>1, ScheduleInit, ScheduleStep, PTL DEF Spec

(* "We only allow a single repeatable job per" configuration, for every    *)
(* deployment whose tasks can be recognized: neither releases that change  *)
(* a task nor calls that fail nor processes that die leave two definitions *)
(* of what was scheduled, unless processes ran beside each other or a      *)
(* removal failed.                                                         *)
THEOREM OneScheduleEach == ASSUME NamesTell PROVE Spec => []SingleSchedule
<1>1. NamesTell /\ ScheduleInv => SingleSchedule
  BY DEF ScheduleInv, Tidy, OneEach, SingleSchedule, DefinitionsOf
<1> QED BY <1>1, ScheduleInit, ScheduleStep, PTL DEF Spec

-----------------------------------------------------------------------------
(* Why a recurring task goes on recurring.  A process takes away what it   *)
(* takes for its own task, so the tasks have to be told apart: what is     *)
(* taken for a task has its name and data, and a release has it once.      *)
Same(t, u) == t.name = u.name /\ t.data = u.data
Recurring(t) == t.valid /\ t.kind = "every"
IndexesOf(r) == 1 .. Len(Tasks[r])
TasksApart ==
  /\ \A r, s \in Releases : \A i \in IndexesOf(r), j \in IndexesOf(s) :
       /\ Recurring(Tasks[r][i]) /\ Recurring(Tasks[s][j])
       /\ Matches(Definition(Tasks[r][i]), Tasks[s][j])
         => Same(Tasks[r][i], Tasks[s][j])
  /\ \A r \in Releases : \A i, j \in IndexesOf(r) :
       Recurring(Tasks[r][i]) /\ Recurring(Tasks[r][j]) /\ Same(Tasks[r][i], Tasks[r][j]) => i = j

(* What is stored, and what a process is to remove, is of recurring tasks; *)
(* what a process has scheduled is behind it.                              *)
Definitions ==
  {d \in Repeatable : \E r \in Releases : \E i \in IndexesOf(r) :
     Recurring(Tasks[r][i]) /\ d = Definition(Tasks[r][i])}
At(n, i) == Tasks[n.release][i]
RunOK(n) ==
  /\ Busy(n) => TaskAt(n).valid
  /\ n.pc = "list" => TaskAt(n).kind = "every"
  /\ \A r \in n.found : TaskAt(n).kind = "every" /\ Matches(r, TaskAt(n)) /\ r \in Definitions
  /\ \A i \in n.scheduled : i \in IndexesOf(n.release) /\ i < n.next /\ At(n, i).valid

(* Where every process says it has scheduled a task, one of them left its  *)
(* own definition of it.                                                   *)
Covers(n, d) == \E i \in n.scheduled : At(n, i).kind = "every" /\ Same(At(n, i), d)
Leaves(n, d, rs) ==
  \E i \in n.scheduled :
    At(n, i).kind = "every" /\ Same(At(n, i), d) /\ Definition(At(n, i)) \in rs
RecurInv ==
  /\ repeatables \subseteq Definitions
  /\ \A p \in Processes : RunOK(proc[p])
  /\ \A d \in Definitions :
       Processes # {} /\ (\A p \in Processes : Covers(proc[p], d))
         => \E p \in Processes : Leaves(proc[p], d, repeatables)

(* A process that covers a task after a step has just left its definition, *)
(* or covered it before and nobody's definition of it went away.           *)
LEMMA RecurProc ==
  ASSUME Typed, RecurInv, NEW p \in Processes, NEW n, RunOK(n), proc' = [proc EXCEPT ![p] = n],
         repeatables' \subseteq Definitions,
         \A d \in Definitions : Covers(n, d) =>
           \/ Leaves(n, d, repeatables')
           \/ /\ n.release = proc[p].release /\ proc[p].scheduled \subseteq n.scheduled
              /\ Covers(proc[p], d)
              /\ \A r \in repeatables \ repeatables' : ~ Same(r, d)
  PROVE  RecurInv'
<1>1. \A q \in Processes : proc'[q] = IF q = p THEN n ELSE proc[q]
  BY DEF Typed, TypeOK
<1>2. ASSUME NEW d \in Definitions, \A q \in Processes : Covers(proc'[q], d)
      PROVE  \E q \in Processes : Leaves(proc'[q], d, repeatables')
  <2>1. Covers(n, d)
    BY <1>1, <1>2
  <2>2. CASE Leaves(n, d, repeatables')
    BY <1>1, <2>2
  <2>3. CASE /\ n.release = proc[p].release /\ proc[p].scheduled \subseteq n.scheduled
             /\ Covers(proc[p], d)
             /\ \A r \in repeatables \ repeatables' : ~ Same(r, d)
    <3>1. \A q \in Processes : Covers(proc[q], d)
      BY <1>1, <1>2, <2>3
    <3>2. PICK q \in Processes : Leaves(proc[q], d, repeatables)
      BY <3>1 DEF RecurInv
    <3>3. PICK i \in proc[q].scheduled :
            /\ At(proc[q], i).kind = "every" /\ Same(At(proc[q], i), d)
            /\ Definition(At(proc[q], i)) \in repeatables
      BY <3>2 DEF Leaves
    <3>4. Same(Definition(At(proc[q], i)), d)
      BY <3>3 DEF Same, Definition
    <3>5. Definition(At(proc[q], i)) \in repeatables'
      BY <2>3, <3>3, <3>4
    <3>6. i \in proc'[q].scheduled /\ At(proc'[q], i) = At(proc[q], i)
      BY <1>1, <2>3, <3>3 DEF At
    <3> QED BY <3>3, <3>5, <3>6 DEF Leaves
  <2> QED BY <2>1, <2>2, <2>3
<1>3. \A q \in Processes : RunOK(proc'[q])
  BY <1>1 DEF RecurInv
<1> QED BY <1>2, <1>3 DEF RecurInv

(* A process goes on; nothing is scheduled and nothing is removed.         *)
LEMMA RecurQuiet ==
  ASSUME Typed, RecurInv, NEW p \in Processes, NEW n, RunOK(n), proc' = [proc EXCEPT ![p] = n],
         n.release = proc[p].release, n.scheduled = proc[p].scheduled,
         repeatables \subseteq repeatables', repeatables' \subseteq Definitions
  PROVE  RecurInv'
<1>1. \A d \in Definitions : Covers(n, d) => Covers(proc[p], d)
  BY DEF Covers, At
<1> QED BY <1>1, RecurProc

LEMMA NextRunOK ==
  ASSUME Typed, RecurInv, NEW p \in Processes, NEW ok \in BOOLEAN, proc[p].found = {},
         ok => Busy(proc[p]), NEW n, n = NextTask(p, ok)
  PROVE  /\ RunOK(n) /\ n.release = proc[p].release
         /\ n.scheduled = IF ok THEN proc[p].scheduled \cup {proc[p].next} ELSE proc[p].scheduled
<1>1. PICK m \in Process : m = proc[p] /\ ProcOK(m) /\ RunOK(m)
  BY DEF Typed, ProcOK, RecurInv
<1> DEFINE s == IF ok THEN m.scheduled \cup {m.next} ELSE m.scheduled
<1>2. n = [m EXCEPT !.pc = "next", !.next = m.next + 1, !.scheduled = s]
  BY <1>1 DEF NextTask
<1>3. s \in SUBSET Nat /\ m.next \in Nat
  BY DEF Process
<1>4. ASSUME NEW i \in s PROVE i \in IndexesOf(m.release) /\ i < m.next + 1 /\ At(m, i).valid
  <2>1. CASE i \in m.scheduled
    BY <1>1, <1>3, <1>4, <2>1 DEF RunOK
  <2>2. CASE ok /\ i = m.next
    BY <1>1, <1>3, <2>2 DEF RunOK, ProcOK, TaskAt, At, IndexesOf
  <2> QED BY <2>1, <2>2
<1>5. s = IF ok THEN m.scheduled \cup {m.next} ELSE m.scheduled
  OBVIOUS
<1> HIDE DEF s
<1>6. /\ n.pc = "next" /\ n.next = m.next + 1 /\ n.scheduled = s
      /\ n.release = m.release /\ n.found = {}
  BY <1>1, <1>2 DEF Process
<1> QED BY <1>1, <1>4, <1>5, <1>6 DEF RunOK, Busy, At

(* A removal takes away definitions of the task it is made for, which its  *)
(* process has not scheduled yet.                                          *)
LEMMA RemovedNotCovered ==
  ASSUME TasksApart, NEW n, ProcOK(n), RunOK(n), NEW r \in n.found, NEW d, Same(r, d)
  PROVE  ~ Covers(n, d)
<1>1. n.pc = "add" /\ n.next \in IndexesOf(n.release) /\ n.release \in Releases
  BY DEF ProcOK, Busy, IndexesOf, Process
<1>2. Recurring(TaskAt(n)) /\ Matches(r, TaskAt(n)) /\ r \in Definitions
  BY <1>1 DEF RunOK, Busy, Recurring
<1>3. PICK s \in Releases : \E i \in IndexesOf(s) :
        Recurring(Tasks[s][i]) /\ r = Definition(Tasks[s][i])
  BY <1>2 DEF Definitions
<1>4. PICK i \in IndexesOf(s) : Recurring(Tasks[s][i]) /\ r = Definition(Tasks[s][i])
  BY <1>3
<1>5. Same(Tasks[s][i], TaskAt(n))
  BY <1>1, <1>2, <1>4 DEF TasksApart, TaskAt
<1>6. Same(d, TaskAt(n))
  BY <1>4, <1>5 DEF Same, Definition
<1>7. ASSUME NEW k \in n.scheduled, At(n, k).kind = "every", Same(At(n, k), d)
      PROVE  FALSE
  <2>1. k \in IndexesOf(n.release) /\ k < n.next /\ Recurring(At(n, k))
    BY <1>7 DEF RunOK, Recurring
  <2>2. Same(At(n, k), TaskAt(n))
    BY <1>6, <1>7 DEF Same
  <2>3. k = n.next
    BY <1>1, <1>2, <2>1, <2>2 DEF TasksApart, At, TaskAt
  <2>4. n.next \in Nat
    BY DEF ProcOK, Process
  <2> QED BY <2>1, <2>3, <2>4
<1> QED BY <1>7 DEF Covers

LEMMA RecurRemoval ==
  ASSUME TasksApart, Typed, RecurInv, NEW p \in Processes, NEW r \in proc[p].found,
         proc' = [proc EXCEPT ![p].found = @ \ {r}],
         repeatables' \in {repeatables, repeatables \ {r}}
  PROVE  RecurInv'
<1>1. PICK m \in Process : m = proc[p] /\ ProcOK(m) /\ RunOK(m)
  BY DEF Typed, ProcOK, RecurInv
<1>2. PICK n : n = [m EXCEPT !.found = m.found \ {r}]
  OBVIOUS
<1>3. proc' = [proc EXCEPT ![p] = n]
  BY <1>1, <1>2
<1>4. /\ n.pc = m.pc /\ n.next = m.next /\ n.scheduled = m.scheduled
      /\ n.release = m.release /\ n.found = m.found \ {r}
  BY <1>2 DEF Process
<1>5. RunOK(n)
  BY <1>1, <1>4 DEF RunOK, Busy, TaskAt, At
<1>6. \A d \in Definitions : Covers(n, d) => Covers(m, d)
  BY <1>4 DEF Covers, At
<1>7. \A d \in Definitions : Covers(m, d) => ~ Same(r, d)
  BY <1>1, RemovedNotCovered
<1>8. repeatables' \subseteq Definitions /\ \A x \in repeatables \ repeatables' : x = r
  BY DEF RecurInv
<1>9. ASSUME NEW d \in Definitions, Covers(n, d)
      PROVE  Covers(m, d) /\ \A x \in repeatables \ repeatables' : ~ Same(x, d)
  BY <1>6, <1>7, <1>8, <1>9
<1>10. n.release = m.release /\ m.scheduled \subseteq n.scheduled /\ repeatables' \subseteq Definitions
  BY <1>4, <1>8
<1> QED BY <1>1, <1>3, <1>5, <1>9, <1>10, RecurProc

(* The add of a recurring task leaves its definition.                      *)
LEMMA RecurAdd ==
  ASSUME Typed, RecurInv, NEW p \in Processes, NEW ok \in BOOLEAN,
         AtAdd(p), Store(TaskOf(p)), proc' = [proc EXCEPT ![p] = NextTask(p, ok)]
  PROVE  RecurInv'
<1>1. PICK m : m = proc[p] /\ ProcOK(m) /\ RunOK(m) /\ m.pc = "add" /\ m.found = {}
  BY DEF AtAdd, Typed, RecurInv
<1>2. PICK n : n = NextTask(p, ok)
  OBVIOUS
<1>3. /\ RunOK(n) /\ n.release = m.release
      /\ n.scheduled = IF ok THEN m.scheduled \cup {m.next} ELSE m.scheduled
  BY <1>1, <1>2, NextRunOK DEF Busy
<1>4. PICK t \in Task : t = TaskOf(p) /\ t = TaskAt(m) /\ t.valid
  BY <1>1, TaskAtType DEF Busy, TaskAt, TaskOf, RunOK
<1>5. m.next \in IndexesOf(m.release) /\ m.release \in Releases
  BY <1>1 DEF ProcOK, Process, Busy, IndexesOf
<1>6. PICK def \in Repeatable : def = Definition(t)
  BY DEF Task, Definition, Repeatable
<1>7. t.kind = "every" => def \in Definitions
  BY <1>4, <1>5, <1>6 DEF Definitions, Recurring, TaskAt
<1>8. /\ repeatables \subseteq repeatables' /\ repeatables' \subseteq Definitions
      /\ t.kind = "every" => def \in repeatables'
  BY <1>4, <1>6, <1>7 DEF Store, RecurInv
<1>9. ASSUME NEW d \in Definitions, Covers(n, d)
      PROVE  Leaves(n, d, repeatables') \/ Covers(m, d)
  <2>1. PICK i \in n.scheduled : At(n, i).kind = "every" /\ Same(At(n, i), d)
    BY <1>9 DEF Covers
  <2>2. CASE i \in m.scheduled
    BY <1>3, <2>1, <2>2 DEF Covers, At
  <2>3. CASE i = m.next
    <3>1. At(n, i) = t
      BY <1>3, <1>4, <2>3 DEF At, TaskAt
    <3> QED BY <1>6, <1>8, <2>1, <3>1 DEF Leaves
  <2> QED BY <1>3, <2>2, <2>3
<1>10. m.scheduled \subseteq n.scheduled /\ repeatables \ repeatables' = {}
  BY <1>3, <1>8
<1> QED BY <1>1, <1>2, <1>3, <1>8, <1>9, <1>10, RecurProc

LEMMA RecurPass ==
  ASSUME Typed, RecurInv, NEW p \in Processes, proc[p].found = {},
         proc' = [proc EXCEPT ![p] = NextTask(p, FALSE)], UNCHANGED repeatables
  PROVE  RecurInv'
<1>1. PICK n : n = NextTask(p, FALSE)
  OBVIOUS
<1>2. RunOK(n) /\ n.release = proc[p].release /\ n.scheduled = proc[p].scheduled
  BY <1>1, NextRunOK
<1> QED BY <1>1, <1>2, RecurQuiet DEF RecurInv

LEMMA RecurStart ==
  ASSUME Typed, RecurInv, NEW p \in Processes, NEW r \in Releases, Start(p, r)
  PROVE  RecurInv'
<1> DEFINE n == [pc |-> "next", release |-> r, next |-> 1, found |-> {}, scheduled |-> {}]
<1>1. proc' = [proc EXCEPT ![p] = n] /\ repeatables' = repeatables
  BY DEF Start
<1>2. RunOK(n) /\ \A d : ~ Covers(n, d)
  BY DEF RunOK, Busy, Covers
<1> HIDE DEF n
<1> QED BY <1>1, <1>2, RecurProc DEF RecurInv

LEMMA RecurCheck ==
  ASSUME Typed, RecurInv, NEW p \in Processes, Check(p)
  PROVE  RecurInv'
<1>1. PICK m \in Process : m = proc[p] /\ ProcOK(m) /\ RunOK(m) /\ m.pc = "next" /\ m.found = {}
  BY DEF Check, Typed, ProcOK, RecurInv
<1>2. CASE ~ TaskOf(p).valid
  BY <1>1, <1>2, RecurPass DEF Check
<1>3. CASE TaskOf(p).valid
  <2> DEFINE c == IF TaskOf(p).kind = "at" THEN "add" ELSE "list"
  <2>1. PICK n : n = [m EXCEPT !.pc = c]
    OBVIOUS
  <2>2. proc' = [proc EXCEPT ![p] = n] /\ UNCHANGED repeatables
    BY <1>1, <1>3, <2>1 DEF Check
  <2>3. /\ n.pc = c /\ n.found = {} /\ n.scheduled = m.scheduled
        /\ n.release = m.release /\ n.next = m.next
    BY <1>1, <2>1 DEF Process
  <2>4. PICK t : t = TaskOf(p) /\ t = TaskAt(n) /\ (t.kind # "at" => t.kind = "every")
    <3>1. TaskOf(p) = TaskAt(m) /\ TaskAt(n) = TaskAt(m)
      BY <1>1, <2>3 DEF TaskOf, TaskAt
    <3>2. m.next \in 1 .. Len(Tasks[m.release]) /\ Tasks[m.release] \in Seq(Task)
      <4>1. m.next <= Len(Tasks[m.release]) /\ m.next \in Nat \ {0} /\ m.release \in Releases
        BY <1>1 DEF Check, Process
      <4>2. Tasks[m.release] \in Seq(Task)
        BY <4>1, SchedulerAssumption
      <4>3. Len(Tasks[m.release]) \in Nat
        BY <4>2
      <4> QED BY <4>1, <4>2, <4>3
    <3>3. TaskAt(m) \in Task
      BY <3>2 DEF TaskAt
    <3> QED BY <3>1, <3>3 DEF Task
  <2>5. RunOK(n)
    BY <1>1, <1>3, <2>3, <2>4 DEF RunOK, At
  <2> HIDE DEF c
  <2> QED BY <1>1, <2>2, <2>3, <2>5, RecurQuiet DEF RecurInv
<1> QED BY <1>2, <1>3

LEMMA RecurList ==
  ASSUME Typed, RecurInv, NEW p \in Processes, List(p)
  PROVE  RecurInv'
<1>1. PICK m \in Process : m = proc[p] /\ RunOK(m) /\ m.pc = "list"
  BY DEF List, Typed, ProcOK, RecurInv
<1>2. PICK f : f = {r \in repeatables : Matches(r, TaskOf(p))}
  OBVIOUS
<1>3. PICK n : n = [m EXCEPT !.pc = "add", !.found = f]
  OBVIOUS
<1>4. proc' = [proc EXCEPT ![p] = n] /\ UNCHANGED repeatables
  BY <1>1, <1>2, <1>3 DEF List
<1>5. /\ n.pc = "add" /\ n.found = f /\ n.scheduled = m.scheduled
      /\ n.release = m.release /\ n.next = m.next
  BY <1>3 DEF Process
<1>6. PICK t : t = TaskAt(n) /\ t = TaskAt(m) /\ t = TaskOf(p)
  BY <1>1, <1>5 DEF TaskAt, TaskOf
<1>7. RunOK(n)
  BY <1>1, <1>2, <1>5, <1>6 DEF RunOK, Busy, At, RecurInv
<1> QED BY <1>1, <1>4, <1>5, <1>7, RecurQuiet DEF RecurInv

(* A process that ends or dies keeps what it has scheduled.                *)
LEMMA RecurEnd ==
  ASSUME Typed, RecurInv, NEW p \in Processes, Finish(p) \/ Die(p)
  PROVE  RecurInv'
<1>1. PICK m \in Process : m = proc[p] /\ ProcOK(m) /\ RunOK(m)
  BY DEF Typed, ProcOK, RecurInv
<1>2. PICK n : n \in {[m EXCEPT !.pc = "done"], [m EXCEPT !.pc = "down", !.found = {}]}
               /\ proc' = [proc EXCEPT ![p] = n]
  BY <1>1 DEF Finish, Die
<1>3. /\ n.pc \in {"done", "down"} /\ n.found \subseteq m.found
      /\ n.scheduled = m.scheduled /\ n.release = m.release /\ n.next = m.next
  BY <1>2 DEF Process
<1>4. RunOK(n)
  <2>1. ~ Busy(n) /\ n.pc # "list" /\ TaskAt(n) = TaskAt(m)
    BY <1>3 DEF Busy, TaskAt
  <2> QED BY <1>1, <1>3, <2>1 DEF RunOK, At
<1> QED BY <1>1, <1>2, <1>3, <1>4, RecurQuiet DEF RecurInv, Finish, Die

LEMMA RecurStep == TasksApart /\ Typed /\ RecurInv /\ [Next]_vars => RecurInv'
<1> SUFFICES ASSUME TasksApart, Typed, RecurInv, [Next]_vars PROVE RecurInv'
  OBVIOUS
<1>1. ASSUME NEW p \in Processes, NEW r \in Releases, Start(p, r) PROVE RecurInv'
  BY <1>1, RecurStart
<1>2. ASSUME NEW p \in Processes, Finish(p) \/ Die(p) PROVE RecurInv'
  BY <1>2, RecurEnd
<1>3. ASSUME NEW p \in Processes, Check(p) PROVE RecurInv'
  BY <1>3, RecurCheck
<1>4. ASSUME NEW p \in Processes, List(p) PROVE RecurInv'
  BY <1>4, RecurList
<1>5. ASSUME NEW p \in Processes, NEW r, Remove(p, r) PROVE RecurInv'
  BY <1>5, RecurRemoval DEF Remove
<1>6. ASSUME NEW p \in Processes, NEW r, RemoveFails(p, r) PROVE RecurInv'
  BY <1>6, RecurRemoval DEF RemoveFails
<1>7. ASSUME NEW p \in Processes, Add(p) PROVE RecurInv'
  BY <1>7, RecurAdd DEF Add
<1>8. ASSUME NEW p \in Processes, AddUnanswered(p) PROVE RecurInv'
  BY <1>8, RecurAdd DEF AddUnanswered
<1>9. ASSUME NEW p \in Processes, AddRefused(p) PROVE RecurInv'
  BY <1>9, RecurPass DEF AddRefused, AtAdd
<1>10. ASSUME NEW p \in Processes, CallFails(p) PROVE RecurInv'
  <2>1. proc[p].found = {}
    BY <1>10 DEF CallFails, AtAdd, Typed, ProcOK
  <2> QED BY <1>10, <2>1, RecurPass DEF CallFails
<1>11. ASSUME UNCHANGED <<repeatables, proc>> PROVE RecurInv'
  BY <1>11 DEF RecurInv
<1> QED BY <1>1, <1>2, <1>3, <1>4, <1>5, <1>6, <1>7, <1>8, <1>9, <1>10, <1>11
        DEF Next, Work, Trouble, RunDelayed, vars

(* However processes of different releases start, overlap, fail and die:   *)
(* a recurring task that each of them says it has scheduled recurs with    *)
(* what one of them asked for, where no task is taken for another.         *)
THEOREM TasksGoOnRecurring == ASSUME TasksApart PROVE Spec => []ScheduledTasksRecur
<1>1. Init => RecurInv
  <2> SUFFICES ASSUME Init PROVE RecurInv
    OBVIOUS
  <2>1. \A p \in Processes : proc[p].pc = "down" /\ proc[p].found = {} /\ proc[p].scheduled = {}
    BY DEF Init
  <2>2. ASSUME NEW n, n.pc = "down", n.found = {}, n.scheduled = {}
        PROVE  RunOK(n)
    BY <2>2 DEF RunOK, Busy
  <2>3. ASSUME NEW p \in Processes PROVE RunOK(proc[p])
    BY <2>1, <2>2, Zenon
  <2>4. ASSUME NEW d \in Definitions, NEW p \in Processes PROVE ~ Covers(proc[p], d)
    BY <2>1, Zenon DEF Covers
  <2>5. repeatables = {}
    BY DEF Init
  <2> QED BY <2>3, <2>4, <2>5 DEF RecurInv
<1>2. Typed /\ RecurInv => ScheduledTasksRecur
  <2> SUFFICES ASSUME Typed, RecurInv, NEW p \in Processes, NEW t \in Every(p),
                      \A q \in Processes : \E u \in Every(q) : u.name = t.name /\ u.data = t.data
               PROVE  \E q \in Processes : \E u \in Every(q) :
                        u.name = t.name /\ u.data = t.data /\ Definition(u) \in repeatables
    BY DEF ScheduledTasksRecur
  <2>1. PICK i \in proc[p].scheduled : t = At(proc[p], i) /\ t.kind = "every"
    BY DEF Every, Scheduled, At
  <2>2. i \in IndexesOf(proc[p].release) /\ Recurring(t) /\ proc[p].release \in Releases
    BY <2>1 DEF RecurInv, RunOK, Recurring, Typed, ProcOK, Process
  <2>3. t \in Task
    BY <2>1, <2>2, SchedulerAssumption DEF At, IndexesOf
  <2>4. PICK d \in Repeatable : d = Definition(t)
    BY <2>3 DEF Task, Definition, Repeatable
  <2>5. d \in Definitions /\ d.name = t.name /\ d.data = t.data
    BY <2>1, <2>2, <2>4 DEF Definitions, At, Definition
  <2>6. \A q \in Processes : \A u \in Every(q) : \E k \in proc[q].scheduled :
          u = At(proc[q], k) /\ u.kind = "every"
    BY DEF Every, Scheduled, At
  <2>7. \A q \in Processes : Covers(proc[q], d)
    <3>1. ASSUME NEW q \in Processes PROVE Covers(proc[q], d)
      <4>1. PICK u \in Every(q) : u.name = t.name /\ u.data = t.data
        OBVIOUS
      <4>2. PICK k \in proc[q].scheduled : u = At(proc[q], k) /\ u.kind = "every"
        BY <2>6
      <4>3. Same(u, d)
        BY <2>5, <4>1 DEF Same
      <4> QED BY <4>2, <4>3 DEF Covers
    <3> QED BY <3>1, Zenon
  <2>8. PICK q \in Processes : Leaves(proc[q], d, repeatables)
    BY <2>5, <2>7 DEF RecurInv
  <2>9. PICK k \in proc[q].scheduled :
          /\ At(proc[q], k).kind = "every" /\ Same(At(proc[q], k), d)
          /\ Definition(At(proc[q], k)) \in repeatables
    BY <2>8 DEF Leaves
  <2>10. At(proc[q], k) \in Every(q)
    BY <2>9 DEF Every, Scheduled, At
  <2> QED BY <2>5, <2>9, <2>10 DEF Same
<1>3. TasksApart /\ (ScheduleInv /\ RecurInv) /\ [Next]_vars => (ScheduleInv /\ RecurInv)'
  BY RecurStep, ScheduleStep DEF ScheduleInv
<1>4. ScheduleInv => Typed
  BY DEF ScheduleInv
<1>5. Init => ScheduleInv /\ RecurInv
  BY <1>1, ScheduleInit
<1>6. (ScheduleInv /\ RecurInv) /\ [Next]_vars => (ScheduleInv /\ RecurInv)'
  BY <1>3
<1> QED BY <1>2, <1>4, <1>5, <1>6, PTL DEF Spec
=============================================================================
