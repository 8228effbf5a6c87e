------------------------ MODULE SingleThreadExecutor ------------------------
(***************************************************************************)
(* lwip_py/utility/scheduler.py: one worker thread that executes delayed   *)
(* calls, and any number of other threads that schedule calls, cancel      *)
(* their futures and stop the executor.                                    *)
(*                                                                         *)
(* A step is what one thread does between two points at which another      *)
(* thread can interfere.  The code inside "with self._condition" is one    *)
(* step, except in stop(): its two assignments are visible to the worker,  *)
(* which reads _status and updates _tasks_to_finish without the lock, so   *)
(* stop() takes two steps and holds the mutex in between.                  *)
(*                                                                         *)
(* The heap of TaskQueue is the set of its entries: it only ever hands     *)
(* them out in the order of (abs_time, priority).  Two entries with the    *)
(* same (abs_time, priority) do not meet here, see DistinctKey.            *)
(*                                                                         *)
(* A definition named X_Something is X with a plausible mistake; nothing   *)
(* uses it, it shows that the properties would notice that mistake.        *)
(***************************************************************************)
EXTENDS Integers, FiniteSets

CONSTANTS
    Tasks,       \* the calls of schedule_delayed, each made at most once
    Delays,      \* the delays they may ask for, in clock ticks
    Priorities,  \* the priorities they may ask for, 0 the highest
    Outcomes,    \* how an action may end: "result", "error" (an Exception)
                 \* or "exit" (any other BaseException)
    NoTask,      \* no task is being processed
    MaxTime,     \* bound: the clock stops here
    MaxStops     \* bound: the number of calls of stop()

ASSUME ExecutorAssumption ==
    /\ IsFiniteSet(Tasks)
    /\ Delays \subseteq Nat
    /\ Priorities \subseteq Nat
    /\ Outcomes \subseteq {"result", "error", "exit"}
    /\ NoTask \notin Tasks
    /\ MaxTime \in Nat
    /\ MaxStops \in Nat

VARIABLES
    clock,          \* time.monotonic()
    status,         \* _status
    tasksToFinish,  \* _tasks_to_finish
    queue,          \* _tasks, the tasks not yet popped
    absTime,        \* task.abs_time
    priority,       \* task.priority
    future,         \* the state of task.future, as its owner sees it
    mutex,          \* who is inside stop(): "free", "client" or "worker"
    stopSync,       \* the argument of the stop() in progress
    stops,          \* number of calls of stop() so far
    pc,             \* where the worker thread is
    waitUntil,      \* when its condition.wait times out
    expired,        \* expired_tasks, the popped tasks not yet started
    current,        \* the task in _process_task
    loaded,         \* the value the worker read for "_tasks_to_finish -= 1"
    promised,       \* history: what the last stop() of the loop undertook
    quiet           \* history: no popped task was in progress at that stop()

execVars   == <<clock, status, tasksToFinish, queue, absTime, priority>>
stopVars   == <<mutex, stopSync, stops>>
workerVars == <<pc, waitUntil, expired, current, loaded>>
ghostVars  == <<promised, quiet>>
vars == <<execVars, future, stopVars, workerVars, ghostVars>>

(* condition.wait(None), when the queue is empty. *)
Forever == -1

Statuses == {"Running", "Stopped", "StoppedSync"}

(***************************************************************************)
(* A future is "pending" from its creation; cancel() makes a pending one   *)
(* "cancelled", set_running_or_notify_cancel() makes that "notified".  A   *)
(* call that raised Stopped is "rejected" and has no future.               *)
(***************************************************************************)
Settled == {"rejected", "notified", "result", "error"}
FutureStates == Settled \cup {"unscheduled", "pending", "cancelled", "running"}

InBatch == {"next", "action", "finally", "load", "store"}
Looping == {"check", "waiting"} \cup InBatch
Over    == {"ended", "died"}
PCs     == {"new"} \cup Looping \cup Over

Earlier(t, u) ==
    \/ absTime[t] < absTime[u]
    \/ absTime[t] = absTime[u] /\ priority[t] <= priority[u]

Due_Strict == {t \in queue : absTime[t] < clock}
Due == {t \in queue : absTime[t] <= clock}

(* The future's cancelled(). *)
Cancelled(t) == future[t] \in {"cancelled", "notified"}

(* The number that stop() computes is the size of this set. *)
Live == {t \in queue : ~ Cancelled(t)}

(* condition.notify(): the worker is the only thread that ever waits. *)
Notify_Missing == UNCHANGED pc
Notify == pc' = IF pc = "waiting" THEN "check" ELSE pc

TypeOK ==
    /\ clock \in Nat
    /\ status \in Statuses
    /\ tasksToFinish \in Int
    /\ queue \subseteq Tasks
    /\ absTime \in [Tasks -> Nat]
    /\ priority \in [Tasks -> Nat]
    /\ future \in [Tasks -> FutureStates]
    /\ mutex \in {"free", "client", "worker"}
    /\ stopSync \in BOOLEAN
    /\ stops \in Nat
    /\ pc \in PCs
    /\ waitUntil \in Nat \cup {Forever}
    /\ expired \subseteq Tasks
    /\ current \in Tasks \cup {NoTask}
    /\ loaded \in Int
    /\ promised \subseteq Tasks
    /\ quiet \in BOOLEAN

Init ==
    /\ clock = 0
    /\ status = "Stopped"
    /\ tasksToFinish = 0
    /\ queue = {}
    /\ absTime = [t \in Tasks |-> 0]
    /\ priority = [t \in Tasks |-> 0]
    /\ future = [t \in Tasks |-> "unscheduled"]
    /\ mutex = "free"
    /\ stopSync = FALSE
    /\ stops = 0
    /\ pc = "new"
    /\ waitUntil = Forever
    /\ expired = {}
    /\ current = NoTask
    /\ loaded = 0
    /\ promised = {}
    /\ quiet = FALSE

-----------------------------------------------------------------------------
(* The threads that use the executor, a task's own action included.        *)

(***************************************************************************)
(* Two calls never collide on (abs_time, priority): abs_time is a          *)
(* nanosecond reading taken under the lock.  What a collision does is the  *)
(* subject of module TaskQueue.                                            *)
(***************************************************************************)
DistinctKey(time, p) ==
    \A u \in queue : absTime[u] # time \/ priority[u] # p

(* self._time() + delay, read under the lock. *)
Deadline_SignError(d) == clock - d
Deadline(d) == clock + d

Accept(t, d, p) ==
    /\ status = "Running"
    /\ Deadline(d) <= MaxTime
    /\ DistinctKey(Deadline(d), p)
    /\ absTime' = [absTime EXCEPT ![t] = Deadline(d)]
    /\ priority' = [priority EXCEPT ![t] = p]
    /\ future' = [future EXCEPT ![t] = "pending"]
    /\ queue' = queue \cup {t}
    /\ Notify
    /\ UNCHANGED <<clock, status, tasksToFinish>>

(* Stopped is raised. *)
Reject(t) ==
    /\ status # "Running"
    /\ future' = [future EXCEPT ![t] = "rejected"]
    /\ UNCHANGED <<execVars, pc>>

ScheduleDelayed(t) ==
    /\ mutex = "free"
    /\ future[t] = "unscheduled"
    /\ \/ \E d \in Delays, p \in Priorities : Accept(t, d, p)
       \/ Reject(t)
    /\ UNCHANGED <<stopVars, waitUntil, expired, current, loaded, ghostVars>>

(* Future.cancel(), which does nothing unless the future is pending. *)
Cancel(t) ==
    /\ future[t] = "pending"
    /\ future' = [future EXCEPT ![t] = "cancelled"]
    /\ UNCHANGED <<execVars, stopVars, workerVars, ghostVars>>

(* stop(sync), up to the assignment of _tasks_to_finish. *)
StopCount(who, sync) ==
    /\ mutex = "free"
    /\ stops < MaxStops
    /\ who = "worker" => pc = "action"
    /\ mutex' = who
    /\ stopSync' = sync
    /\ stops' = stops + 1
    /\ tasksToFinish' = Cardinality(Live)
    /\ promised' = IF pc \in Looping THEN IF sync THEN Live ELSE {}
                                     ELSE promised
    /\ quiet' = (pc \in {"check", "waiting"})
    /\ UNCHANGED <<clock, status, queue, absTime, priority, future, workerVars>>

(* The rest of stop(); _tasks_to_finish is read again. *)
StopStatus ==
    /\ mutex # "free"
    /\ status' = IF stopSync /\ tasksToFinish # 0 THEN "StoppedSync"
                                                  ELSE "Stopped"
    /\ Notify
    /\ mutex' = "free"
    /\ UNCHANGED <<clock, tasksToFinish, queue, absTime, priority, future,
                   stopSync, stops, waitUntil, expired, current, loaded,
                   ghostVars>>

-----------------------------------------------------------------------------
(* The worker thread.                                                      *)

(* Entering run(). *)
Run ==
    /\ pc = "new"
    /\ mutex = "free"
    /\ tasksToFinish' = 0
    /\ status' = "Running"
    /\ pc' = "check"
    /\ UNCHANGED <<clock, queue, absTime, priority, future, stopVars,
                   waitUntil, expired, current, loaded, ghostVars>>

ShouldStop_NoEmptyCheck ==
    \/ status = "Stopped"
    \/ status = "StoppedSync" /\ tasksToFinish = 0

ShouldStop_OneShort ==
    \/ status = "Stopped"
    \/ status = "StoppedSync" /\ (queue = {} \/ tasksToFinish <= 1)

ShouldStop ==
    \/ status = "Stopped"
    \/ status = "StoppedSync" /\ (queue = {} \/ tasksToFinish = 0)

(* One turn of _wait_for_task_to_process begins with the lock held. *)
AtCheck == pc = "check" /\ mutex = "free"

LeaveLoop ==
    /\ AtCheck
    /\ ShouldStop
    /\ status' = "Stopped"
    /\ pc' = "ended"
    /\ UNCHANGED <<clock, tasksToFinish, queue, absTime, priority, future,
                   stopVars, waitUntil, expired, current, loaded, ghostVars>>

(* get_time_till_next_task, as a point in time. *)
NextDeadline ==
    IF queue = {} THEN Forever
    ELSE CHOOSE time \in {absTime[t] : t \in queue} :
             \A u \in queue : time <= absTime[u]

Wait ==
    /\ AtCheck
    /\ ~ ShouldStop
    /\ Due = {}
    /\ waitUntil' = NextDeadline
    /\ pc' = "waiting"
    /\ UNCHANGED <<execVars, future, stopVars, expired, current, loaded,
                   ghostVars>>

Timeout ==
    /\ pc = "waiting"
    /\ waitUntil # Forever
    /\ waitUntil <= clock
    /\ pc' = "check"
    /\ UNCHANGED <<execVars, future, stopVars, waitUntil, expired, current,
                   loaded, ghostVars>>

(* pop_tasks_till_timestamp, after which the lock is released. *)
PopExpired ==
    /\ AtCheck
    /\ ~ ShouldStop
    /\ Due # {}
    /\ expired' = Due
    /\ queue' = queue \ Due
    /\ pc' = "next"
    /\ UNCHANGED <<clock, status, tasksToFinish, absTime, priority, future,
                   stopVars, waitUntil, current, loaded, ghostVars>>

(* The next of the sorted expired_tasks. *)
NextExpired_Reversed == CHOOSE t \in expired : \A u \in expired : Earlier(u, t)
NextExpired == CHOOSE t \in expired : \A u \in expired : Earlier(t, u)

(* set_running_or_notify_cancel() returns False, and cancelled() is True. *)
PassedOver_Never(t) == FALSE
PassedOver(t) == Cancelled(t)

(* set_running_or_notify_cancel, and the action unless it was cancelled. *)
StartTask ==
    /\ pc = "next"
    /\ expired # {}
    /\ expired' = expired \ {NextExpired}
    /\ \/ /\ PassedOver(NextExpired)
          /\ future' = [future EXCEPT ![NextExpired] = "notified"]
          /\ UNCHANGED <<current, pc>>
       \/ /\ ~ PassedOver(NextExpired)
          /\ future' = [future EXCEPT ![NextExpired] = "running"]
          /\ current' = NextExpired
          /\ pc' = "action"
    /\ UNCHANGED <<execVars, stopVars, waitUntil, loaded, ghostVars>>

(* The action ends; set_result or set_exception, or neither. *)
EndAction(outcome) ==
    /\ pc = "action"
    /\ mutex # "worker"
    /\ future' = IF outcome = "exit" THEN future
                 ELSE [future EXCEPT ![current] = outcome]
    /\ pc' = "finally"
    /\ UNCHANGED <<execVars, stopVars, waitUntil, expired, current, loaded,
                   ghostVars>>

(* _process_task returns, or raises what "except Exception" let pass. *)
LeaveTask ==
    /\ current' = NoTask
    /\ \/ /\ future[current] = "running"
          /\ pc' = "died"
          /\ expired' = {}
       \/ /\ future[current] # "running"
          /\ pc' = "next"
          /\ UNCHANGED expired

(* "if self._status == StoppedSync", read without the lock. *)
ReadStatus ==
    /\ pc = "finally"
    /\ \/ /\ status = "StoppedSync"
          /\ pc' = "load"
          /\ UNCHANGED <<current, expired>>
       \/ /\ status # "StoppedSync"
          /\ LeaveTask
    /\ UNCHANGED <<execVars, future, stopVars, waitUntil, loaded, ghostVars>>

(* "self._tasks_to_finish -= 1" is a load and a store. *)
LoadCount ==
    /\ pc = "load"
    /\ loaded' = tasksToFinish
    /\ pc' = "store"
    /\ UNCHANGED <<execVars, future, stopVars, waitUntil, expired, current,
                   ghostVars>>

StoreCount ==
    /\ pc = "store"
    /\ tasksToFinish' = loaded - 1
    /\ loaded' = 0
    /\ LeaveTask
    /\ UNCHANGED <<clock, status, queue, absTime, priority, future, stopVars,
                   waitUntil, ghostVars>>

(* Whether the for loop over expired_tasks is over. *)
BatchIsDone_Always == TRUE
BatchIsDone == expired = {}

(* ScopedUnlocker takes the lock back and the loop of run() turns. *)
EndBatch ==
    /\ pc = "next"
    /\ BatchIsDone
    /\ mutex = "free"
    /\ pc' = "check"
    /\ UNCHANGED <<execVars, future, stopVars, waitUntil, expired, current,
                   loaded, ghostVars>>

-----------------------------------------------------------------------------
Tick ==
    /\ clock < MaxTime
    /\ clock' = clock + 1
    /\ UNCHANGED <<status, tasksToFinish, queue, absTime, priority, future,
                   stopVars, workerVars, ghostVars>>

Worker ==
    \/ LeaveLoop \/ Wait \/ Timeout \/ PopExpired
    \/ StartTask \/ (\E outcome \in Outcomes : EndAction(outcome))
    \/ ReadStatus \/ LoadCount \/ StoreCount \/ EndBatch

Client ==
    \/ \E t \in Tasks : ScheduleDelayed(t) \/ Cancel(t)
    \/ \E who \in {"client", "worker"}, sync \in BOOLEAN : StopCount(who, sync)
    \/ StopStatus

Next == Run \/ Worker \/ Client \/ Tick

Spec == Init /\ [][Next]_vars

(***************************************************************************)
(* The threads are scheduled by the operating system: a started worker     *)
(* keeps going, a stop() that has begun goes on, and time passes.  Actions *)
(* are assumed to return.  Nobody has to schedule, cancel or stop.         *)
(***************************************************************************)
Fairness ==
    /\ WF_vars(Run)
    /\ WF_vars(Worker)
    /\ WF_vars(StopStatus)
    /\ WF_vars(Tick)

FairSpec == Spec /\ Fairness

-----------------------------------------------------------------------------
(* Properties.                                                             *)

Abstract == INSTANCE DelayedCalls
    WITH turn <- expired,
         open <- status = "Running",
         worker <- IF pc = "new" THEN "new" ELSE IF pc \in Over THEN "over"
                                                ELSE "working"

(***************************************************************************)
(* The executor, with its queue, its unlocked accesses and the two steps   *)
(* of stop(), is the executor of DelayedCalls: in particular it takes up   *)
(* all the calls that are due, no turn is interrupted, nothing is accepted *)
(* before run() or after stop(), and the loop ends only when it is closed. *)
(***************************************************************************)
ImplementsDelayedCalls == Abstract!Spec

(***************************************************************************)
(* condition.wait never misses its notify(): whenever the worker sleeps    *)
(* and nobody is inside stop(), it has no reason to leave the loop, and    *)
(* its timeout comes no later than the first task of the queue.            *)
(***************************************************************************)
NoLostWakeup ==
    pc = "waiting" /\ mutex = "free" =>
        /\ ~ ShouldStop
        /\ \A t \in queue : waitUntil # Forever /\ waitUntil <= absTime[t]

(***************************************************************************)
(* A task that was accepted is in the queue or among the popped ones until *)
(* its future is set or its cancellation noticed, and in one of them only; *)
(* the only thing that loses popped tasks is the death of the worker.      *)
(***************************************************************************)
NoTaskLost ==
    /\ queue \cap expired = {}
    /\ \A t \in Tasks :
           /\ t \in queue \cup expired => future[t] \in {"pending", "cancelled"}
           /\ future[t] \in {"pending", "cancelled"} =>
                  t \in queue \cup expired \/ pc = "died"
           /\ future[t] = "running" => current = t \/ pc = "died"

(***************************************************************************)
(* The popped tasks are processed to the end before anything else is       *)
(* popped, they are all due, and none of them should have waited for a     *)
(* task that is still queued, although clients go on scheduling meanwhile; *)
(* _process_task holds one unfinished task at a time.                      *)
(***************************************************************************)
BatchPrecedesQueue ==
    /\ expired # {} => pc \in InBatch
    /\ \A t \in expired :
           absTime[t] <= clock /\ \A u \in queue : absTime[t] <= absTime[u]
    /\ current # NoTask <=> pc \in InBatch \ {"next"}
    /\ current # NoTask => future[current] \in {"running", "result", "error"}
    /\ pc = "action" => future[current] = "running"
    /\ mutex = "worker" => pc = "action"

(***************************************************************************)
(* Tasks start in the order of (abs_time, priority) and never early: the   *)
(* one that starts is due, is the first of the popped ones, and no task    *)
(* scheduled while the popped ones are processed should have preceded it.  *)
(***************************************************************************)
StartsInOrder ==
    [][\A t \in Tasks :
           future[t] # "running" /\ future'[t] = "running" =>
               /\ absTime[t] <= clock
               /\ \A u \in expired : Earlier(t, u)
               /\ \A u \in queue : absTime[t] <= absTime[u]]_vars

(***************************************************************************)
(* A future is settled once: a result, an exception, a noticed             *)
(* cancellation or a rejection stays, a successful cancel() keeps the      *)
(* action from ever starting, and a started action can not be cancelled.   *)
(***************************************************************************)
FutureSettlesOnce ==
    [][\A t \in Tasks :
           /\ future[t] \in Settled => future'[t] = future[t]
           /\ future[t] = "cancelled" => future'[t] \in {"cancelled", "notified"}
           /\ future[t] = "running" =>
                  future'[t] \in {"running", "result", "error"}]_vars

(***************************************************************************)
(* stop(sync=True) called while the worker has no popped task in progress  *)
(* keeps its word: the loop ends only when every task that was queued and  *)
(* not cancelled at the call has been executed or cancelled since.         *)
(***************************************************************************)
IdleSyncStopFinishesTasks ==
    pc = "ended" /\ quiet =>
        \A t \in promised : future[t] \in {"result", "error", "cancelled", "notified"}

(***************************************************************************)
(* The docstring of stop(): sync "indicates if already scheduled tasks     *)
(* should be finished".  The same as above for every stop(sync=True).      *)
(***************************************************************************)
SyncStopFinishesTasks ==
    pc = "ended" =>
        \A t \in promised : future[t] \in {"result", "error", "cancelled", "notified"}

(***************************************************************************)
(* Once run() has been entered, a stop() of either kind ends the loop,     *)
(* whatever is cancelled meanwhile and however the unlocked updates of     *)
(* _tasks_to_finish interleave with it.                                    *)
(***************************************************************************)
StopEndsRunningLoop ==
    (pc \in Looping /\ status # "Running") ~> (pc \in Over)

(***************************************************************************)
(* The docstring of stop(): "The call signals that the processing loop     *)
(* should be ended."  Any call of stop() is followed by the loop's end.    *)
(***************************************************************************)
StopEndsLoop == (stops > 0 /\ mutex = "free") ~> (pc \in Over)

(***************************************************************************)
(* An executor nobody stops executes every task it accepted, unless it is  *)
(* cancelled first or an action's SystemExit kills the worker.             *)
(***************************************************************************)
AcceptedTaskRuns ==
    \A t \in Tasks :
        (future[t] = "pending") ~> (future[t] # "pending" \/ stops > 0 \/ pc = "died")
=============================================================================
