--------------------- MODULE SingleThreadExecutor_proofs ---------------------
(***************************************************************************)
(* Theorems about SingleThreadExecutor, for every set of tasks, delays and *)
(* priorities, every way actions end and every number of calls of stop().  *)
(*                                                                         *)
(* The safety invariants of the module are inductive together: a waiting   *)
(* worker is entered through Wait, which needs NextDeadline to be the least *)
(* abs_time, and StartTask needs the popped tasks to be pending, due and   *)
(* processed one at a time (BatchPrecedesQueue).                           *)
(***************************************************************************)
EXTENDS SingleThreadExecutor, FiniteSetTheorems, WellFoundedInduction, TLAPS

(* Every nonempty set of natural numbers has a least element. *)
LEMMA NatMinimum ==
    ASSUME NEW S, S \subseteq Nat, S # {}
    PROVE  \E m \in S : \A n \in S : m <= n
<1> DEFINE R == {ss \in Nat \X Nat : ss[1] < ss[2]}
<1>1. IsWellFoundedOn(R, Nat)
  BY NatLessThanWellFounded DEF OpToRel
<1>0. \A a, b \in Nat : a < b => <<a, b>> \in R
  OBVIOUS
<1> HIDE DEF R
<1>2. PICK m \in S : \A n \in S : ~ (<<n, m>> \in R)
  BY <1>1, WFMin
<1>3. \A n \in S : m <= n
  <2> TAKE n \in S
  <2>1. m \in Nat /\ n \in Nat
    OBVIOUS
  <2>2. ~ (n < m)
    BY <1>0, <1>2, <2>1
  <2>3. QED
    BY <2>1, <2>2
<1>4. QED
  BY <1>3

-----------------------------------------------------------------------------
(* The inductive invariant. *)
IInv == TypeOK /\ NoLostWakeup /\ NoTaskLost /\ BatchPrecedesQueue

(***************************************************************************)
(* The for loop of _process_expired_tasks takes the first of the popped    *)
(* tasks: some task is no later than all others, so NextExpired is one.    *)
(***************************************************************************)
LEMMA NextExpiredFirst ==
    ASSUME TypeOK, expired # {}
    PROVE  NextExpired \in expired /\ \A u \in expired : Earlier(NextExpired, u)
<1>1. expired \subseteq Tasks /\ absTime \in [Tasks -> Nat] /\ priority \in [Tasks -> Nat]
  BY DEF TypeOK
<1>2. PICK time \in {absTime[t] : t \in expired} :
          \A n \in {absTime[t] : t \in expired} : time <= n
  <2>1. {absTime[t] : t \in expired} \subseteq Nat /\ {absTime[t] : t \in expired} # {}
    BY <1>1
  <2>2. QED
    BY <2>1, NatMinimum
<1> DEFINE First == {t \in expired : absTime[t] = time}
<1>3. PICK p \in {priority[t] : t \in First} :
          \A n \in {priority[t] : t \in First} : p <= n
  <2>1. {priority[t] : t \in First} \subseteq Nat /\ {priority[t] : t \in First} # {}
    BY <1>1, <1>2
  <2>2. QED
    BY <2>1, NatMinimum
<1>4. PICK t \in First : priority[t] = p
  BY <1>3
<1>5. \A u \in expired : Earlier(t, u)
  <2> TAKE u \in expired
  <2>1. absTime[u] \in Nat /\ absTime[t] \in Nat /\ absTime[t] <= absTime[u]
    BY <1>1, <1>2, <1>4
  <2>2. absTime[u] = absTime[t] => priority[t] <= priority[u]
    BY <1>3, <1>4
  <2>3. QED
    BY <2>1, <2>2 DEF Earlier
<1>6. QED
  BY <1>4, <1>5 DEF NextExpired

(***************************************************************************)
(* get_time_till_next_task looks at the head of the heap only: the head is *)
(* no later than any task of the queue, and None means an empty queue.     *)
(***************************************************************************)
LEMMA NextDeadlineFirst ==
    ASSUME TypeOK
    PROVE  /\ NextDeadline \in Nat \cup {Forever}
           /\ \A t \in queue : NextDeadline # Forever /\ NextDeadline <= absTime[t]
<1>1. CASE queue = {}
  BY <1>1 DEF NextDeadline
<1>2. CASE queue # {}
  <2>1. {absTime[t] : t \in queue} \subseteq Nat /\ {absTime[t] : t \in queue} # {}
    BY <1>2 DEF TypeOK
  <2>2. \E m \in {absTime[t] : t \in queue} : \A n \in {absTime[t] : t \in queue} : m <= n
    BY <2>1, NatMinimum
  <2>3. \E m \in {absTime[t] : t \in queue} : \A u \in queue : m <= absTime[u]
    BY <2>2
  <2>4. NextDeadline \in {absTime[t] : t \in queue} /\ \A u \in queue :
     NextDeadline <= absTime[u]
    BY <1>2, <2>3 DEF NextDeadline
  <2>5. QED
    BY <2>1, <2>4 DEF Forever
<1>3. QED
  BY <1>1, <1>2

(* stop() counts a finite number of tasks. *)
LEMMA LiveCount ==
    ASSUME TypeOK
    PROVE  Cardinality(Live) \in Nat
<1>1. Live \in SUBSET Tasks
  BY DEF Live, TypeOK
<1>2. QED
  BY <1>1, ExecutorAssumption, FS_Subset, FS_CardinalityType

(* A new executor, before run() is called. *)
LEMMA InitIInv == Init => IInv
<1> SUFFICES ASSUME Init PROVE IInv
  OBVIOUS
<1>1. TypeOK
  <2>1. stopSync \in BOOLEAN /\ quiet \in BOOLEAN
    BY DEF Init
  <2>2. clock \in Nat /\ tasksToFinish \in Int /\ stops \in Nat /\ loaded \in Int
    BY DEF Init
  <2>3. absTime \in [Tasks -> Nat] /\ priority \in [Tasks -> Nat]
    BY DEF Init
  <2>4. future \in [Tasks -> FutureStates]
    BY DEF Init, FutureStates
  <2>5. QED
    BY <2>1, <2>2, <2>3, <2>4 DEF Init, TypeOK, Statuses, PCs
<1>2. NoLostWakeup /\ NoTaskLost /\ BatchPrecedesQueue
  BY DEF Init, NoLostWakeup, NoTaskLost, BatchPrecedesQueue, InBatch
<1>3. QED
  BY <1>1, <1>2 DEF IInv

(* One step of any thread: one case per action, one step per conjunct. *)
LEMMA NextIInv == IInv /\ [Next]_vars => IInv'
<1> SUFFICES ASSUME IInv, [Next]_vars PROVE IInv'
  OBVIOUS
<1> USE ExecutorAssumption DEF IInv, Statuses, FutureStates, Settled, PCs, Looping,
   InBatch, Over, Forever,
        execVars, stopVars, workerVars, ghostVars

<1>1. ASSUME NEW t \in Tasks, ScheduleDelayed(t) PROVE IInv'
  <2>1. TypeOK'
    BY <1>1 DEF TypeOK, ScheduleDelayed, Accept, Reject, Deadline, Notify
  <2>2. NoLostWakeup'
    BY <1>1 DEF NoLostWakeup, ShouldStop, TypeOK, ScheduleDelayed, Accept, Reject,
       Deadline, Notify
  <2>3. NoTaskLost'
    BY <1>1 DEF NoTaskLost, BatchPrecedesQueue, TypeOK, ScheduleDelayed, Accept,
       Reject, Deadline, Notify
  <2>4. BatchPrecedesQueue'
    BY <1>1 DEF BatchPrecedesQueue, NoTaskLost, TypeOK, ScheduleDelayed, Accept,
       Reject, Deadline, Notify
  <2>5. QED
    BY <2>1, <2>2, <2>3, <2>4
<1>2. ASSUME NEW t \in Tasks, Cancel(t) PROVE IInv'
  <2>1. TypeOK'
    BY <1>2 DEF TypeOK, Cancel
  <2>2. NoLostWakeup'
    BY <1>2 DEF NoLostWakeup, ShouldStop, TypeOK, Cancel
  <2>3. NoTaskLost'
    BY <1>2 DEF NoTaskLost, BatchPrecedesQueue, TypeOK, Cancel
  <2>4. BatchPrecedesQueue'
    BY <1>2 DEF BatchPrecedesQueue, NoTaskLost, TypeOK, Cancel
  <2>5. QED
    BY <2>1, <2>2, <2>3, <2>4
<1>3. ASSUME NEW who \in {"client", "worker"}, NEW sync \in BOOLEAN, StopCount(who,
   sync)
   PROVE IInv'
  <2>1. TypeOK'
    BY <1>3, LiveCount DEF TypeOK, StopCount, Live
  <2>2. NoLostWakeup'
    BY <1>3, LiveCount DEF NoLostWakeup, ShouldStop, TypeOK, StopCount
  <2>3. NoTaskLost'
    BY <1>3, LiveCount DEF NoTaskLost, BatchPrecedesQueue, TypeOK, StopCount
  <2>4. BatchPrecedesQueue'
    BY <1>3, LiveCount DEF BatchPrecedesQueue, NoTaskLost, TypeOK, StopCount
  <2>5. QED
    BY <2>1, <2>2, <2>3, <2>4
<1>4. CASE StopStatus
  <2>1. TypeOK'
    BY <1>4 DEF TypeOK, StopStatus, Notify
  <2>2. NoLostWakeup'
    BY <1>4 DEF NoLostWakeup, ShouldStop, TypeOK, StopStatus, Notify
  <2>3. NoTaskLost'
    BY <1>4 DEF NoTaskLost, BatchPrecedesQueue, TypeOK, StopStatus, Notify
  <2>4. BatchPrecedesQueue'
    BY <1>4 DEF BatchPrecedesQueue, NoTaskLost, TypeOK, StopStatus, Notify
  <2>5. QED
    BY <2>1, <2>2, <2>3, <2>4
<1>5. CASE Run
  <2>1. TypeOK'
    BY <1>5 DEF TypeOK, Run
  <2>2. NoLostWakeup'
    BY <1>5 DEF NoLostWakeup, ShouldStop, TypeOK, Run
  <2>3. NoTaskLost'
    BY <1>5 DEF NoTaskLost, BatchPrecedesQueue, TypeOK, Run
  <2>4. BatchPrecedesQueue'
    BY <1>5 DEF BatchPrecedesQueue, NoTaskLost, TypeOK, Run
  <2>5. QED
    BY <2>1, <2>2, <2>3, <2>4
<1>6. CASE LeaveLoop
  <2>1. TypeOK'
    BY <1>6 DEF TypeOK, LeaveLoop, AtCheck
  <2>2. NoLostWakeup'
    BY <1>6 DEF NoLostWakeup, ShouldStop, TypeOK, LeaveLoop, AtCheck
  <2>3. NoTaskLost'
    BY <1>6 DEF NoTaskLost, BatchPrecedesQueue, TypeOK, LeaveLoop, AtCheck
  <2>4. BatchPrecedesQueue'
    BY <1>6 DEF BatchPrecedesQueue, NoTaskLost, TypeOK, LeaveLoop, AtCheck
  <2>5. QED
    BY <2>1, <2>2, <2>3, <2>4
<1>7. CASE Wait
  <2>1. TypeOK'
    BY <1>7, NextDeadlineFirst DEF TypeOK, Wait, AtCheck
  <2>2. NoLostWakeup'
    BY <1>7, NextDeadlineFirst DEF NoLostWakeup, ShouldStop, TypeOK, Wait, AtCheck
  <2>3. NoTaskLost'
    BY <1>7, NextDeadlineFirst DEF NoTaskLost, BatchPrecedesQueue, TypeOK, Wait, AtCheck
  <2>4. BatchPrecedesQueue'
    BY <1>7, NextDeadlineFirst DEF BatchPrecedesQueue, NoTaskLost, TypeOK, Wait, AtCheck
  <2>5. QED
    BY <2>1, <2>2, <2>3, <2>4
<1>8. CASE Timeout
  <2>1. TypeOK'
    BY <1>8 DEF TypeOK, Timeout
  <2>2. NoLostWakeup'
    BY <1>8 DEF NoLostWakeup, ShouldStop, TypeOK, Timeout
  <2>3. NoTaskLost'
    BY <1>8 DEF NoTaskLost, BatchPrecedesQueue, TypeOK, Timeout
  <2>4. BatchPrecedesQueue'
    BY <1>8 DEF BatchPrecedesQueue, NoTaskLost, TypeOK, Timeout
  <2>5. QED
    BY <2>1, <2>2, <2>3, <2>4
<1>9. CASE PopExpired
  <2>1. TypeOK'
    BY <1>9 DEF TypeOK, PopExpired, AtCheck, Due
  <2>2. NoLostWakeup'
    BY <1>9 DEF NoLostWakeup, ShouldStop, TypeOK, PopExpired, AtCheck, Due
  <2>3. NoTaskLost'
    BY <1>9 DEF NoTaskLost, BatchPrecedesQueue, TypeOK, PopExpired, AtCheck, Due
  <2>4. BatchPrecedesQueue'
    BY <1>9 DEF BatchPrecedesQueue, NoTaskLost, TypeOK, PopExpired, AtCheck, Due
  <2>5. QED
    BY <2>1, <2>2, <2>3, <2>4
<1>10. CASE StartTask
  <2>1. TypeOK'
    BY <1>10, NextExpiredFirst DEF TypeOK, StartTask, PassedOver, Cancelled
  <2>2. NoLostWakeup'
    BY <1>10, NextExpiredFirst DEF NoLostWakeup, ShouldStop, TypeOK, StartTask,
       PassedOver, Cancelled
  <2>3. NoTaskLost'
    BY <1>10, NextExpiredFirst DEF NoTaskLost, BatchPrecedesQueue, TypeOK, StartTask,
       PassedOver,
       Cancelled
  <2>4. BatchPrecedesQueue'
    BY <1>10, NextExpiredFirst DEF BatchPrecedesQueue, NoTaskLost, TypeOK, StartTask,
       PassedOver,
       Cancelled
  <2>5. QED
    BY <2>1, <2>2, <2>3, <2>4
<1>11. ASSUME NEW outcome \in Outcomes, EndAction(outcome) PROVE IInv'
  <2>1. TypeOK'
    BY <1>11 DEF TypeOK, EndAction
  <2>2. NoLostWakeup'
    BY <1>11 DEF NoLostWakeup, ShouldStop, TypeOK, EndAction
  <2>3. NoTaskLost'
    BY <1>11 DEF NoTaskLost, BatchPrecedesQueue, TypeOK, EndAction
  <2>4. BatchPrecedesQueue'
    BY <1>11 DEF BatchPrecedesQueue, NoTaskLost, TypeOK, EndAction
  <2>5. QED
    BY <2>1, <2>2, <2>3, <2>4
<1>12. CASE ReadStatus
  <2>1. TypeOK'
    BY <1>12 DEF TypeOK, ReadStatus, LeaveTask
  <2>2. NoLostWakeup'
    BY <1>12 DEF NoLostWakeup, ShouldStop, TypeOK, ReadStatus, LeaveTask
  <2>3. NoTaskLost'
    BY <1>12 DEF NoTaskLost, BatchPrecedesQueue, TypeOK, ReadStatus, LeaveTask
  <2>4. BatchPrecedesQueue'
    BY <1>12 DEF BatchPrecedesQueue, NoTaskLost, TypeOK, ReadStatus, LeaveTask
  <2>5. QED
    BY <2>1, <2>2, <2>3, <2>4
<1>13. CASE LoadCount
  <2>1. TypeOK'
    BY <1>13 DEF TypeOK, LoadCount
  <2>2. NoLostWakeup'
    BY <1>13 DEF NoLostWakeup, ShouldStop, TypeOK, LoadCount
  <2>3. NoTaskLost'
    BY <1>13 DEF NoTaskLost, BatchPrecedesQueue, TypeOK, LoadCount
  <2>4. BatchPrecedesQueue'
    BY <1>13 DEF BatchPrecedesQueue, NoTaskLost, TypeOK, LoadCount
  <2>5. QED
    BY <2>1, <2>2, <2>3, <2>4
<1>14. CASE StoreCount
  <2>1. TypeOK'
    BY <1>14 DEF TypeOK, StoreCount, LeaveTask
  <2>2. NoLostWakeup'
    BY <1>14 DEF NoLostWakeup, ShouldStop, TypeOK, StoreCount, LeaveTask
  <2>3. NoTaskLost'
    BY <1>14 DEF NoTaskLost, BatchPrecedesQueue, TypeOK, StoreCount, LeaveTask
  <2>4. BatchPrecedesQueue'
    BY <1>14 DEF BatchPrecedesQueue, NoTaskLost, TypeOK, StoreCount, LeaveTask
  <2>5. QED
    BY <2>1, <2>2, <2>3, <2>4
<1>15. CASE EndBatch
  <2>1. TypeOK'
    BY <1>15 DEF TypeOK, EndBatch, BatchIsDone
  <2>2. NoLostWakeup'
    BY <1>15 DEF NoLostWakeup, ShouldStop, TypeOK, EndBatch, BatchIsDone
  <2>3. NoTaskLost'
    BY <1>15 DEF NoTaskLost, BatchPrecedesQueue, TypeOK, EndBatch, BatchIsDone
  <2>4. BatchPrecedesQueue'
    BY <1>15 DEF BatchPrecedesQueue, NoTaskLost, TypeOK, EndBatch, BatchIsDone
  <2>5. QED
    BY <2>1, <2>2, <2>3, <2>4
<1>16. CASE Tick
  <2>1. TypeOK'
    BY <1>16 DEF TypeOK, Tick
  <2>2. NoLostWakeup'
    BY <1>16 DEF NoLostWakeup, ShouldStop, TypeOK, Tick
  <2>3. NoTaskLost'
    BY <1>16 DEF NoTaskLost, BatchPrecedesQueue, TypeOK, Tick
  <2>4. BatchPrecedesQueue'
    BY <1>16 DEF BatchPrecedesQueue, NoTaskLost, TypeOK, Tick
  <2>5. QED
    BY <2>1, <2>2, <2>3, <2>4
<1>17. CASE UNCHANGED vars
  BY <1>17 DEF vars, TypeOK, NoLostWakeup, ShouldStop, NoTaskLost, BatchPrecedesQueue
<1>18. QED
  BY <1>1, <1>2, <1>3, <1>4, <1>5, <1>6, <1>7, <1>8, <1>9, <1>10, <1>11, <1>12, <1>13,
     <1>14, <1>15, <1>16, <1>17 DEF Next, Worker, Client

(* Every reachable state of the executor satisfies the invariant. *)
THEOREM Invariance == Spec => []IInv
<1>1. QED
  BY InitIInv, NextIInv, PTL DEF Spec

(***************************************************************************)
(* The attributes of the executor and the locals of its worker keep their  *)
(* types, whatever the threads do.                                         *)
(***************************************************************************)
THEOREM TypeCorrectness == Spec => []TypeOK
<1>1. IInv => TypeOK
  BY DEF IInv
<1>2. QED
  BY <1>1, Invariance, PTL

(***************************************************************************)
(* However schedule_delayed() and stop() interleave with the worker's checks, *)
(* a worker asleep in condition.wait has nothing to do before its timeout. *)
(***************************************************************************)
THEOREM WakeupIsNeverLost == Spec => []NoLostWakeup
<1>1. IInv => NoLostWakeup
  BY DEF IInv
<1>2. QED
  BY <1>1, Invariance, PTL

(***************************************************************************)
(* A task accepted by schedule_delayed() is held by the queue or the popped *)
(* batch, and by one of them only, until its future is settled.            *)
(***************************************************************************)
THEOREM AcceptedTaskIsHeld == Spec => []NoTaskLost
<1>1. IInv => NoTaskLost
  BY DEF IInv
<1>2. QED
  BY <1>1, Invariance, PTL

(***************************************************************************)
(* The popped batch is finished before anything else is popped, and no     *)
(* task scheduled meanwhile should have preceded it.                       *)
(***************************************************************************)
THEOREM BatchIsProcessedFirst == Spec => []BatchPrecedesQueue
<1>1. IInv => BatchPrecedesQueue
  BY DEF IInv
<1>2. QED
  BY <1>1, Invariance, PTL

(* Only StartTask makes a future "running", and it takes the first task. *)
LEMMA StartIsOrdered ==
    ASSUME IInv, [Next]_vars, NEW t \in Tasks,
           future[t] # "running", future'[t] = "running"
    PROVE  /\ absTime[t] <= clock
           /\ \A u \in expired : Earlier(t, u)
           /\ \A u \in queue : absTime[t] <= absTime[u]
<1> USE DEF IInv
<1>1. StartTask /\ t = NextExpired
  BY ExecutorAssumption DEF TypeOK, Next, Worker, Client, vars, execVars, stopVars,
     workerVars, ghostVars,
     ScheduleDelayed, Accept, Reject, Cancel, StopCount, StopStatus, Run, LeaveLoop,
        Wait, Timeout,
     PopExpired, StartTask, PassedOver, EndAction, ReadStatus, LeaveTask, LoadCount,
        StoreCount,
        EndBatch, BatchIsDone, Tick, FutureStates, Settled
<1>2. t \in expired /\ \A u \in expired : Earlier(t, u)
  BY <1>1, NextExpiredFirst DEF StartTask, PassedOver
<1>3. QED
  BY <1>2 DEF BatchPrecedesQueue

(***************************************************************************)
(* The worker never starts an action before its time, nor before an earlier *)
(* one of the batch or of the queue.                                       *)
(***************************************************************************)
THEOREM TasksStartInOrder == Spec => StartsInOrder
<1>1. IInv /\ [Next]_vars =>
        [\A t \in Tasks :
           future[t] # "running" /\ future'[t] = "running" =>
               /\ absTime[t] <= clock
               /\ \A u \in expired : Earlier(t, u)
               /\ \A u \in queue : absTime[t] <= absTime[u]]_vars
  BY StartIsOrdered
<1>2. QED
  BY <1>1, Invariance, PTL DEF Spec, StartsInOrder

(* No step changes a settled future or revives a cancelled one. *)
LEMMA SettledStep ==
    ASSUME IInv, [Next]_vars, NEW t \in Tasks
    PROVE  /\ future[t] \in Settled => future'[t] = future[t]
           /\ future[t] = "cancelled" => future'[t] \in {"cancelled", "notified"}
           /\ future[t] = "running" => future'[t] \in {"running", "result", "error"}
<1> USE DEF IInv
<1>1. CASE UNCHANGED future
  BY <1>1
<1>2. CASE \E u \in Tasks : ScheduleDelayed(u) \/ Cancel(u)
  BY <1>2 DEF TypeOK, ScheduleDelayed, Accept, Reject, Cancel, Settled
<1>3. CASE StartTask
  <2>1. NextExpired \in Tasks /\ future[NextExpired] \in {"pending", "cancelled"}
    BY <1>3, NextExpiredFirst DEF StartTask, PassedOver, NoTaskLost, TypeOK
  <2>2. QED
    BY <1>3, <2>1 DEF StartTask, PassedOver, Cancelled, TypeOK, Settled
<1>4. CASE \E outcome \in Outcomes : EndAction(outcome)
  BY <1>4, ExecutorAssumption DEF EndAction, BatchPrecedesQueue, TypeOK, Settled,
     InBatch
<1>5. QED
  BY <1>1, <1>2, <1>3, <1>4 DEF Next, Worker, Client, vars, StopCount, StopStatus, Run,
     LeaveLoop, Wait, Timeout,
     PopExpired, ReadStatus, LoadCount, StoreCount, EndBatch, BatchIsDone, Tick

(***************************************************************************)
(* _process_task never sets a future twice and never starts a cancelled task: *)
(* set_result and set_exception can not raise InvalidStateError.           *)
(***************************************************************************)
THEOREM FuturesSettleOnce == Spec => FutureSettlesOnce
<1>1. IInv /\ [Next]_vars =>
        [\A t \in Tasks :
           /\ future[t] \in Settled => future'[t] = future[t]
           /\ future[t] = "cancelled" => future'[t] \in {"cancelled", "notified"}
           /\ future[t] = "running" => future'[t] \in {"running", "result",
              "error"}]_vars
  BY SettledStep
<1>2. QED
  BY <1>1, Invariance, PTL DEF Spec, FutureSettlesOnce
-----------------------------------------------------------------------------
(***************************************************************************)
(* Why a stop(sync=True) of an idle loop finishes its tasks: from then on  *)
(* _tasks_to_finish is at least the number of promised tasks that have not *)
(* been taken off it yet, a task being taken off only in its "finally".    *)
(***************************************************************************)
Unfinished == {t \in promised : future[t] \in {"pending", "running"}}
Owing == {t \in promised : future[t] \in {"pending", "running"} \/ t = current}

Draining == quiet /\ promised # {}

(* What is in the queue, in the batch and in the status meanwhile. *)
DrainShape ==
    /\ pc # "new"
    /\ \A t \in queue \cup expired : future[t] = "pending" => t \in promised
    /\ \A t \in promised : future[t] \notin {"unscheduled", "rejected"}
    /\ current # NoTask => current \in promised
    /\ mutex = "free" => status # "Running"
    /\ mutex = "free" /\ pc \in Looping => status = "StoppedSync"
    /\ mutex # "free" /\ pc \in Looping =>
           pc \in {"check", "waiting"} /\ stopSync /\ tasksToFinish # 0

(* What the counter covers. *)
DrainCount ==
    /\ pc = "store" => loaded = tasksToFinish
    /\ pc \in Looping => Cardinality(Owing) <= tasksToFinish
    /\ pc = "ended" => Unfinished = {}

DrainInv == Draining => DrainShape /\ DrainCount

(* The set that the counter is compared with is finite. *)
LEMMA OwingFinite ==
    ASSUME TypeOK
    PROVE  IsFiniteSet(Owing) /\ Cardinality(Owing) \in Nat
<1>1. Owing \in SUBSET Tasks
  BY DEF Owing, TypeOK
<1>2. QED
  BY <1>1, ExecutorAssumption, FS_Subset, FS_CardinalityType

(***************************************************************************)
(* stop() starts a new count: it covers all that is left if the loop is    *)
(* idle, and otherwise quiet is false from there on.                       *)
(***************************************************************************)
LEMMA StopCountDrain ==
    ASSUME IInv, NEW who \in {"client", "worker"}, NEW sync \in BOOLEAN,
           StopCount(who, sync)
    PROVE  DrainInv'
<1> SUFFICES ASSUME Draining' PROVE DrainShape' /\ DrainCount'
  BY DEF DrainInv
<1>1. pc \in {"check", "waiting"} /\ sync /\ promised' = Live /\ Live # {}
  BY DEF Draining, StopCount, Looping, IInv, TypeOK
<1>2. expired = {} /\ current = NoTask
  BY <1>1 DEF IInv, BatchPrecedesQueue, InBatch
<1>3. IsFiniteSet(Live)
  BY ExecutorAssumption, FS_Subset DEF Live, IInv, TypeOK
<1>4. tasksToFinish' = Cardinality(Live) /\ Cardinality(Live) # 0
  BY <1>1, <1>3, FS_EmptySet DEF StopCount
<1>5. DrainShape'
  BY <1>1, <1>2, <1>4
  DEF DrainShape, StopCount, Live, Cancelled, IInv, NoTaskLost, TypeOK, workerVars
<1>6. Owing' \subseteq Live
  BY <1>1 DEF Owing
<1>7. Cardinality(Owing') <= Cardinality(Live)
  BY <1>3, <1>6, FS_Subset
<1>8. DrainCount'
  BY <1>1, <1>4, <1>7 DEF DrainCount, StopCount, workerVars
<1>9. QED
  BY <1>5, <1>8

(* A step that only takes tasks out of Owing keeps what the counter covers. *)
LEMMA SmallerOwing ==
    ASSUME TypeOK, TypeOK', DrainCount, Owing' \subseteq Owing, pc \in Looping,
           tasksToFinish' = tasksToFinish
    PROVE  Cardinality(Owing') <= tasksToFinish'
<1>1. IsFiniteSet(Owing) /\ Cardinality(Owing) \in Nat /\ Cardinality(Owing') \in Nat
  BY OwingFinite, FS_Subset, FS_CardinalityType
<1>2. Cardinality(Owing') <= Cardinality(Owing)
  BY <1>1, FS_Subset
<1>3. Cardinality(Owing) <= tasksToFinish
  BY DEF DrainCount
<1>4. QED
  BY <1>1, <1>2, <1>3 DEF TypeOK

(* When the loop ends, nothing promised is pending or running. *)
LEMMA LeaveLoopDrain ==
    ASSUME IInv, Draining, DrainShape, DrainCount, LeaveLoop
    PROVE  Unfinished = {}
<1>1. status = "StoppedSync" /\ pc = "check" /\ expired = {} /\ current = NoTask
  BY DEF LeaveLoop, AtCheck, DrainShape, IInv, BatchPrecedesQueue, InBatch, Looping
<1>2. CASE queue = {}
  BY <1>1, <1>2, ExecutorAssumption DEF Unfinished, IInv, NoTaskLost, TypeOK
<1>3. CASE tasksToFinish = 0
  <2>1. Cardinality(Owing) = 0
    BY <1>1, <1>3, OwingFinite DEF DrainCount, Looping, IInv
  <2>2. Owing = {}
    BY <2>1, OwingFinite, FS_EmptySet DEF IInv
  <2>3. QED
    BY <2>2 DEF Owing, Unfinished
<1>4. QED
  BY <1>1, <1>2, <1>3 DEF LeaveLoop, ShouldStop

(* The "finally" of a promised task takes exactly that task off the count. *)
LEMMA StoreCountDrain ==
    ASSUME IInv, IInv', Draining, DrainShape, DrainCount, StoreCount
    PROVE  DrainCount'
<1> USE DEF IInv, BatchPrecedesQueue, InBatch, Looping
<1>1. current \in promised /\ current \in Tasks /\ current # NoTask
  BY DEF StoreCount, DrainShape, TypeOK
<1>2. loaded = tasksToFinish /\ tasksToFinish' = tasksToFinish - 1
  BY DEF StoreCount, DrainCount
<1>3. Cardinality(Owing) <= tasksToFinish /\ Cardinality(Owing) \in Nat
   /\ IsFiniteSet(Owing)
  BY OwingFinite DEF StoreCount, DrainCount
<1>4. CASE pc' = "died"
  BY <1>4 DEF DrainCount
<1>5. CASE pc' = "next" /\ future[current] # "running"
  <2>1. future[current] \in {"result", "error"}
    BY <1>1, <1>5
  <2>2. Owing' = Owing \ {current} /\ current \in Owing
    BY <1>1, <1>5, <2>1, ExecutorAssumption DEF Owing, StoreCount, LeaveTask,
       ghostVars, TypeOK
  <2>3. Cardinality(Owing') = Cardinality(Owing) - 1
    BY <1>3, <2>2, FS_RemoveElement
  <2>4. QED
    BY <1>2, <1>3, <1>5, <2>3 DEF DrainCount, TypeOK
<1>6. QED
  BY <1>4, <1>5 DEF StoreCount, LeaveTask

(* The invariant of a draining loop is preserved by every step. *)
LEMMA NextDrain == IInv /\ DrainInv /\ [Next]_vars => DrainInv'
<1> SUFFICES ASSUME IInv, DrainInv, [Next]_vars PROVE DrainInv'
  OBVIOUS
<1>0. IInv'
  BY NextIInv
<1>1. CASE \E who \in {"client", "worker"}, sync \in BOOLEAN : StopCount(who, sync)
  BY <1>1, StopCountDrain
<1>2. CASE ~ \E who \in {"client", "worker"}, sync \in BOOLEAN : StopCount(who, sync)
  <2>1. promised' = promised /\ quiet' = quiet
    BY <1>2 DEF Next, Worker, Client, vars, execVars, stopVars, workerVars, ghostVars,
       ScheduleDelayed, Cancel, StopStatus, Run, LeaveLoop, Wait, Timeout, PopExpired,
       StartTask, PassedOver, EndAction, ReadStatus, LoadCount, StoreCount, EndBatch,
          BatchIsDone, Tick
  <2> SUFFICES ASSUME Draining PROVE DrainShape' /\ DrainCount'
    BY <2>1 DEF DrainInv, Draining
  <2>2. DrainShape /\ DrainCount
    BY DEF DrainInv
  <2> USE ExecutorAssumption DEF IInv, TypeOK, Looping, InBatch, execVars, stopVars,
          workerVars, ghostVars
  <2>3. ASSUME NEW t \in Tasks, ScheduleDelayed(t) PROVE DrainShape' /\ DrainCount'
    <3>1. Reject(t) /\ t \notin promised
      BY <2>2, <2>3 DEF ScheduleDelayed, Accept, DrainShape
    <3>2. DrainShape'
      BY <2>1, <2>2, <2>3, <3>1 DEF DrainShape, ScheduleDelayed, Reject
    <3>3. Owing' = Owing /\ Unfinished' = Unfinished
      BY <2>1, <2>3, <3>1 DEF Owing, Unfinished, ScheduleDelayed, Reject
    <3>4. QED
      BY <2>2, <2>3, <3>1, <3>2, <3>3 DEF DrainCount, ScheduleDelayed, Reject
  <2>4. ASSUME NEW t \in Tasks, Cancel(t) PROVE DrainShape' /\ DrainCount'
    <3>1. DrainShape'
      BY <2>1, <2>2, <2>4 DEF DrainShape, Cancel
    <3>2. Owing' \subseteq Owing /\ Unfinished' \subseteq Unfinished
      BY <2>1, <2>4 DEF Owing, Unfinished, Cancel
    <3>3. pc \in Looping => Cardinality(Owing') <= tasksToFinish'
      BY <1>0, <2>2, <2>4, <3>2, SmallerOwing DEF Cancel
    <3>4. QED
      BY <2>2, <2>4, <3>1, <3>2, <3>3 DEF DrainCount, Cancel
  <2>5. CASE StopStatus \/ Wait \/ Timeout \/ PopExpired \/ LoadCount \/ EndBatch
     \/ Tick \/ UNCHANGED vars
    <3>1. DrainShape'
      <4>1. CASE StopStatus
        BY <2>1, <2>2, <4>1 DEF DrainShape, StopStatus, Notify
      <4>2. CASE Wait \/ Timeout \/ LoadCount \/ EndBatch
        BY <2>1, <2>2, <4>2 DEF DrainShape, Wait, Timeout, LoadCount, EndBatch,
           BatchIsDone, AtCheck
      <4>3. CASE PopExpired
        BY <2>1, <2>2, <4>3 DEF DrainShape, PopExpired, AtCheck, Due
      <4>4. CASE Tick \/ UNCHANGED vars
        BY <2>1, <2>2, <4>4 DEF DrainShape, Tick, vars
      <4>5. QED
        BY <2>5, <4>1, <4>2, <4>3, <4>4
    <3>2. Owing' = Owing /\ Unfinished' = Unfinished
      BY <2>1, <2>5 DEF Owing, Unfinished, StopStatus, Wait, Timeout, PopExpired,
         LoadCount,
         EndBatch, BatchIsDone, Tick, vars
    <3>3. QED
      BY <2>2, <2>5, <3>1, <3>2 DEF DrainCount, StopStatus, Notify, Wait, Timeout,
         PopExpired,
         LoadCount, EndBatch, BatchIsDone, Tick, vars, AtCheck
  <2>6. CASE Run
    BY <2>2, <2>6 DEF DrainShape, Run
  <2>7. CASE LeaveLoop
    <3>1. DrainShape'
      BY <2>1, <2>2, <2>7 DEF DrainShape, LeaveLoop
    <3>2. Unfinished' = Unfinished
      BY <2>1, <2>7 DEF Unfinished, LeaveLoop
    <3>3. QED
      BY <2>2, <2>7, <3>1, <3>2, LeaveLoopDrain DEF DrainCount, LeaveLoop
  <2>8. CASE StartTask
    <3>1. NextExpired \in expired /\ future[NextExpired] \in {"pending", "cancelled"}
      BY <2>8, NextExpiredFirst DEF StartTask, PassedOver, NoTaskLost
    <3>2. current = NoTask
      BY <2>8 DEF StartTask, PassedOver, BatchPrecedesQueue
    <3>3. DrainShape'
      BY <2>1, <2>2, <2>8, <3>1 DEF DrainShape, StartTask, PassedOver, Cancelled
    <3>4. Owing' \subseteq Owing
      BY <2>1, <2>2, <2>8, <3>1, <3>2 DEF Owing, StartTask, PassedOver, Cancelled,
         DrainShape
    <3>5. QED
      BY <1>0, <2>2, <2>8, <3>3, <3>4, SmallerOwing DEF DrainCount, StartTask,
         PassedOver
  <2>9. ASSUME NEW outcome \in Outcomes,
     EndAction(outcome) PROVE DrainShape' /\ DrainCount'
    <3>1. DrainShape'
      BY <2>1, <2>2, <2>9 DEF DrainShape, EndAction, BatchPrecedesQueue
    <3>2. Owing' \subseteq Owing
      BY <2>1, <2>9 DEF Owing, EndAction
    <3>3. QED
      BY <1>0, <2>2, <2>9, <3>1, <3>2, SmallerOwing DEF DrainCount, EndAction
  <2>10. CASE ReadStatus
    <3>1. status = "StoppedSync" /\ pc' = "load" /\ UNCHANGED <<current, expired>>
      BY <2>2, <2>10 DEF DrainShape, ReadStatus
    <3>2. DrainShape'
      BY <2>1, <2>2, <2>10, <3>1 DEF DrainShape, ReadStatus
    <3>3. Owing' = Owing
      BY <2>1, <2>10, <3>1 DEF Owing, ReadStatus
    <3>4. QED
      BY <2>2, <2>10, <3>1, <3>2, <3>3 DEF DrainCount, ReadStatus
  <2>11. CASE StoreCount
    <3>1. DrainShape'
      BY <2>1, <2>2, <2>11 DEF DrainShape, StoreCount, LeaveTask
    <3>2. QED
      BY <1>0, <2>2, <2>11, <3>1, StoreCountDrain
  <2>12. QED
    BY <1>2, <2>3, <2>4, <2>5, <2>6, <2>7, <2>8, <2>9, <2>10, <2>11 DEF Next, Worker,
       Client
<1>3. QED
  BY <1>1, <1>2

(***************************************************************************)
(* For any number of tasks, threads' steps and calls of stop():            *)
(* Host.stop() and EthernetBus.stop() of an idle loop drop nothing.        *)
(***************************************************************************)
THEOREM IdleSyncStopKeepsItsWord == Spec => []IdleSyncStopFinishesTasks
<1>1. Init => DrainInv
  BY DEF Init, DrainInv, Draining
<1>2. IInv /\ DrainInv => IdleSyncStopFinishesTasks
  <2> SUFFICES ASSUME IInv, DrainInv, pc = "ended", quiet, NEW t \in promised
               PROVE  future[t] \in {"result", "error", "cancelled", "notified"}
    BY DEF IdleSyncStopFinishesTasks
  <2>1. DrainShape /\ Unfinished = {}
    BY DEF DrainInv, Draining, DrainCount
  <2>2. QED
    BY <2>1 DEF DrainShape, Unfinished, IInv, TypeOK, FutureStates, Settled
<1>3. QED
  BY <1>1, <1>2, NextDrain, Invariance, PTL DEF Spec

-----------------------------------------------------------------------------
(* The refinement of DelayedCalls.                                         *)

(* A new executor is one that accepts nothing yet. *)
LEMMA InitIsAbstract == Init => Abstract!Init
  BY DEF Init, Abstract!Init, Over

(***************************************************************************)
(* While the loop is between two batches, what the queue holds is all that *)
(* was accepted and not begun, and no action runs.                         *)
(***************************************************************************)
LEMMA QueueIsWaiting ==
    ASSUME IInv, pc = "check"
    PROVE  /\ expired = {}
           /\ queue = Abstract!Waiting
           /\ \A t \in Tasks : future[t] # "running"
<1> USE DEF IInv, InBatch
<1>1. expired = {} /\ current = NoTask
  BY DEF BatchPrecedesQueue
<1>2. queue = Abstract!Waiting
  BY <1>1 DEF NoTaskLost, TypeOK, Abstract!Waiting
<1>3. \A t \in Tasks : future[t] # "running"
  BY <1>1, ExecutorAssumption DEF NoTaskLost
<1>4. QED
  BY <1>1, <1>2, <1>3

(* Every step of a thread is a step of DelayedCalls, or none at all. *)
LEMMA StepIsAbstract == IInv /\ [Next]_vars => [Abstract!Next]_(Abstract!vars)
<1> SUFFICES ASSUME IInv, [Next]_vars PROVE [Abstract!Next]_(Abstract!vars)
  OBVIOUS
<1> USE ExecutorAssumption
    DEF IInv, execVars, stopVars, workerVars, ghostVars, Over, Looping, InBatch
<1>1. ASSUME NEW t \in Tasks, ScheduleDelayed(t)
      PROVE  \/ Abstract!Refuse(t)
             \/ \E d \in Delays, p \in Priorities : Abstract!Accept(t, d, p)
  BY <1>1 DEF ScheduleDelayed, Accept, Reject, Deadline, Notify,
              Abstract!Accept, Abstract!Refuse, Abstract!Becomes
<1>2. ASSUME NEW t \in Tasks, Cancel(t) PROVE Abstract!Cancel(t)
  BY <1>2 DEF Cancel, Abstract!Cancel, Abstract!Becomes
<1>3. ASSUME NEW who \in {"client", "worker"}, NEW sync \in BOOLEAN, StopCount(who,
   sync)
      PROVE  UNCHANGED Abstract!vars
  BY <1>3 DEF StopCount, Abstract!vars
<1>4. ASSUME StopStatus PROVE Abstract!Close
  BY <1>4 DEF StopStatus, Notify, Abstract!Close
<1>5. ASSUME Run PROVE Abstract!Open
  BY <1>5 DEF Run, Abstract!Open
<1>6. ASSUME LeaveLoop PROVE Abstract!End
  BY <1>6, QueueIsWaiting
  DEF LeaveLoop, AtCheck, ShouldStop, Abstract!End, Abstract!Idle
<1>7. ASSUME Wait \/ Timeout \/ LoadCount \/ EndBatch PROVE UNCHANGED Abstract!vars
  BY <1>7 DEF Wait, Timeout, LoadCount, EndBatch, AtCheck, Abstract!vars
<1>8. ASSUME PopExpired PROVE Abstract!TakeTurn
  BY <1>8, QueueIsWaiting
  DEF PopExpired, AtCheck, Due, Abstract!TakeTurn, Abstract!Idle
<1>9. ASSUME StartTask PROVE \E t \in Tasks : Abstract!Begin(t)
  <2>1. /\ NextExpired \in Tasks
        /\ NextExpired \in expired
        /\ \A u \in expired : Earlier(NextExpired, u)
    BY <1>9, NextExpiredFirst DEF StartTask, TypeOK
  <2>2. \A u \in Tasks : future[u] # "running"
    BY <1>9 DEF StartTask, NoTaskLost, BatchPrecedesQueue
  <2>3. Abstract!IsNext(NextExpired)
    BY <1>9, <2>1, <2>2 DEF StartTask, Abstract!IsNext, Earlier
  <2>4. future[NextExpired] \in {"pending", "cancelled"}
    BY <2>1 DEF NoTaskLost
  <2>5. Abstract!Begin(NextExpired)
    BY <1>9, <2>3, <2>4
    DEF StartTask, PassedOver, Cancelled, Abstract!Begin, Abstract!Becomes
  <2>6. QED
    BY <2>1, <2>5
<1>10. ASSUME NEW outcome \in Outcomes, EndAction(outcome)
       PROVE  (current \in Tasks /\ Abstract!Finish(current)) \/ UNCHANGED Abstract!vars
  BY <1>10 DEF EndAction, TypeOK, BatchPrecedesQueue, Abstract!Finish,
               Abstract!Becomes, Abstract!vars
<1>11. ASSUME ReadStatus
       PROVE  (current \in Tasks /\ Abstract!Die(current)) \/ UNCHANGED Abstract!vars
  BY <1>11 DEF ReadStatus, TypeOK, BatchPrecedesQueue, LeaveTask, Abstract!Die,
               Abstract!vars
<1>12. ASSUME StoreCount
       PROVE  (current \in Tasks /\ Abstract!Die(current)) \/ UNCHANGED Abstract!vars
  BY <1>12 DEF StoreCount, TypeOK, BatchPrecedesQueue, LeaveTask, Abstract!Die,
               Abstract!vars
<1>13. ASSUME Tick PROVE Abstract!Tick
  BY <1>13 DEF Tick, Abstract!Tick
<1>14. ASSUME UNCHANGED vars PROVE UNCHANGED Abstract!vars
  BY <1>14 DEF vars, Abstract!vars
<1>15. ASSUME Worker PROVE Abstract!Next \/ UNCHANGED Abstract!vars
  BY <1>6, <1>7, <1>8, <1>9, <1>10, <1>11, <1>12, <1>15 DEF Worker, Abstract!Next
<1>16. ASSUME Client PROVE Abstract!Next \/ UNCHANGED Abstract!vars
  BY <1>1, <1>2, <1>3, <1>4, <1>16 DEF Client, Abstract!Next
<1>17. ASSUME Run \/ Tick PROVE Abstract!Next
  BY <1>5, <1>13, <1>17 DEF Abstract!Next
<1>18. QED
  BY <1>14, <1>15, <1>16, <1>17 DEF Next

(***************************************************************************)
(* The executor of scheduler.py implements DelayedCalls for any tasks,     *)
(* delays, priorities and stops: what the owner of a future sees of the    *)
(* queue, the lock, the condition and stop() is what DelayedCalls allows.  *)
(***************************************************************************)
THEOREM ExecutorImplementsDelayedCalls == Spec => ImplementsDelayedCalls
<1>1. QED
  BY InitIsAbstract, StepIsAbstract, Invariance, PTL
  DEF Spec, ImplementsDelayedCalls, Abstract!Spec
=============================================================================
