----------------------------- MODULE TaskQueue -----------------------------
(***************************************************************************)
(* lwip_py/utility/scheduler.py, class TaskQueue: a binary heap of the     *)
(* tuples (abs_time, priority, task), kept by heapq.                       *)
(*                                                                         *)
(* Tasks are numbered in the order of their scheduling.  Two tuples that   *)
(* agree in abs_time and priority are compared by the tasks themselves,    *)
(* field by field: their actions, then their arguments.  Tasks in          *)
(* Comparable share one action and have arguments that can be ordered (two *)
(* frames of one interface on the bus); any other pair raises TypeError.   *)
(*                                                                         *)
(* heapq is the C implementation of CPython, which swaps entries in place, *)
(* so that a comparison that raises leaves every entry in the list.        *)
(***************************************************************************)
EXTENDS Naturals, Sequences, Functions

CONSTANTS
    Times,         \* the abs_time a task may have, and the timestamps
    Priorities,    \* the priorities a task may have
    Comparable,    \* the tasks that a comparison can tell apart
    MaxTasks       \* bound: the number of tasks scheduled

ASSUME TaskQueueAssumption ==
    /\ Times \subseteq Nat
    /\ Priorities \subseteq Nat
    /\ Comparable \subseteq 1 .. MaxTasks
    /\ MaxTasks \in Nat

VARIABLES
    heap,       \* _queue, the tasks in the order of the list
    key,        \* (abs_time, priority) of every task scheduled so far
    scheduled,  \* the number of tasks scheduled so far
    till,       \* the argument of the last call, if it was a pop, or 0
    popped,     \* what that call returned, if it did
    raised      \* the call that raised TypeError, if the last one did

vars == <<heap, key, scheduled, till, popped, raised>>

Keys == Times \X Priorities

TypeOK ==
    /\ heap \in Seq(1 .. scheduled)
    /\ key \in Seq(Keys)
    /\ scheduled \in 0 .. MaxTasks
    /\ till \in Times \cup {0}
    /\ popped \in Seq(1 .. scheduled)
    /\ Len(heap) + Len(popped) <= scheduled
    /\ raised \in {"nothing", "push", "pop"}

Init ==
    /\ heap = <<>>
    /\ key = <<>>
    /\ scheduled = 0
    /\ till = 0
    /\ popped = <<>>
    /\ raised = "nothing"

-----------------------------------------------------------------------------
(* heapq, over entries k[t] of the tasks t.                                *)

KeyLess_PriorityFirst(k, l) == k[2] < l[2] \/ (k[2] = l[2] /\ k[1] < l[1])
KeyLess(k, l) == k[1] < l[1] \/ (k[1] = l[1] /\ k[2] < l[2])

(* The comparison of two tuples: "less", "notless" or "TypeError". *)
Compare(k, t, u) ==
    CASE KeyLess(k[t], k[u]) -> "less"
      [] KeyLess(k[u], k[t]) -> "notless"
      [] OTHER -> IF {t, u} \subseteq Comparable
                  THEN IF t < u THEN "less" ELSE "notless"
                  ELSE "TypeError"

Swap(h, i, j) == [h EXCEPT ![i] = h[j], ![j] = h[i]]

Parent(i) == i \div 2

(* A loop: at most n times step, from s on. *)
Repeat(step, s, n) ==
    LET F[m \in 0 .. n] == IF m = 0 THEN s ELSE step[F[m - 1]]
    IN  F[n]

(* The list during a sifting, and the place of the entry that is moved. *)
Sifting == [heap : Seq(Nat), at : Nat]

OrderAbove(k, s) == Compare(k, s.heap[s.at], s.heap[Parent(s.at)])

SiftDownStep(k) ==
    [s \in Sifting |->
        IF s.at > 1 /\ OrderAbove(k, s) = "less"
        THEN [heap |-> Swap(s.heap, s.at, Parent(s.at)), at |-> Parent(s.at)]
        ELSE s]

(* Moves entry i towards the root; ok is FALSE if a comparison raised. *)
SiftDown(k, h, i) ==
    LET s == Repeat(SiftDownStep(k), [heap |-> h, at |-> i], Len(h))
    IN  [heap |-> s.heap, ok |-> s.at = 1 \/ OrderAbove(k, s) = "notless"]

OrderBelow(k, s) ==
    IF 2 * s.at = Len(s.heap) THEN "less"
    ELSE Compare(k, s.heap[2 * s.at], s.heap[2 * s.at + 1])

SmallerChild(k, s) == IF OrderBelow(k, s) = "less" THEN 2 * s.at ELSE 2 * s.at + 1

SiftUpStep(k) ==
    [s \in Sifting |->
        IF 2 * s.at <= Len(s.heap) /\ OrderBelow(k, s) # "TypeError"
        THEN [heap |-> Swap(s.heap, s.at, SmallerChild(k, s)),
              at |-> SmallerChild(k, s)]
        ELSE s]

(* Moves entry i to a leaf along the smaller children, and back up. *)
SiftUp(k, h, i) ==
    LET s == Repeat(SiftUpStep(k), [heap |-> h, at |-> i], Len(h))
    IN  IF 2 * s.at > Len(s.heap) THEN SiftDown(k, s.heap, s.at)
        ELSE [heap |-> s.heap, ok |-> FALSE]

HeapPush(k, h, t) == SiftDown(k, Append(h, t), Len(h) + 1)

(* The last entry replaces the first, which is returned. *)
HeapPop(k, h) ==
    LET last == Len(h)
    IN  IF last = 1 THEN [heap |-> <<>>, ok |-> TRUE]
        ELSE SiftUp(k, SubSeq([h EXCEPT ![1] = h[last]], 1, last - 1), 1)

-----------------------------------------------------------------------------
(* schedule_task; a TypeError leaves the task in the list. *)
AfterPush_DropOnError(push) == IF push.ok THEN push.heap ELSE heap
AfterPush(push) == push.heap

ScheduleTask(k) ==
    LET t == scheduled + 1
        push == HeapPush(Append(key, k), heap, t)
    IN  /\ scheduled < MaxTasks
        /\ scheduled' = t
        /\ key' = Append(key, k)
        /\ heap' = AfterPush(push)
        /\ raised' = IF push.ok THEN "nothing" ELSE "push"
        /\ till' = 0
        /\ popped' = <<>>

IsDue_Strict(t, timestamp) == key[t][1] < timestamp
IsDue(t, timestamp) == key[t][1] <= timestamp

(* pop_tasks_till_timestamp between two turns of its loop; ok is FALSE *)
(* once a comparison raised, which loses the tasks popped so far.      *)
Popping == [heap : Seq(Nat), tasks : Seq(Nat), ok : BOOLEAN]

PopStep(timestamp) ==
    [s \in Popping |->
        LET pop == HeapPop(key, s.heap)
        IN  IF ~ s.ok \/ s.heap = <<>> \/ ~ IsDue(s.heap[1], timestamp) THEN s
            ELSE [heap |-> pop.heap,
                  tasks |-> IF pop.ok THEN Append(s.tasks, s.heap[1]) ELSE <<>>,
                  ok |-> pop.ok]]

PopLoop(timestamp) ==
    Repeat(PopStep(timestamp), [heap |-> heap, tasks |-> <<>>, ok |-> TRUE], Len(heap))

AfterPop_Peek(result) == heap
AfterPop(result) == result.heap

PopTasksTillTimestamp(timestamp) ==
    LET result == PopLoop(timestamp)
    IN  /\ till' = timestamp
        /\ heap' = AfterPop(result)
        /\ popped' = result.tasks
        /\ raised' = IF result.ok THEN "nothing" ELSE "pop"
        /\ UNCHANGED <<key, scheduled>>

(* get_time_till_next_task, without the subtraction of the timestamp. *)
NextTime == key[heap[1]][1]

(* The thread that uses the queue does not survive a pop that raised. *)
Next ==
    /\ raised # "pop"
    /\ \/ \E k \in Keys : ScheduleTask(k)
       \/ \E timestamp \in Times : PopTasksTillTimestamp(timestamp)

Spec == Init /\ [][Next]_vars

-----------------------------------------------------------------------------
Abstract == INSTANCE PriorityQueue WITH entries <- Range(heap),
                                        Timestamps <- Times

(***************************************************************************)
(* The heap is the priority queue that SingleThreadExecutor takes it for:  *)
(* whatever the order of pushes, failed pushes and pops, a pop returns all *)
(* the tasks due, sorted by (abs_time, priority), and keeps all the        *)
(* others.  Only a tie of two tasks without an order makes a pop raise,    *)
(* and what that pop loses was due.                                        *)
(***************************************************************************)
ImplementsPriorityQueue == Abstract!Spec

(***************************************************************************)
(* get_time_till_next_task looks at the first entry only.  It is the       *)
(* earliest one, also after a push that raised TypeError half way.         *)
(***************************************************************************)
HeadIsEarliest ==
    heap # <<>> /\ raised # "pop" =>
        \A t \in Range(heap) : NextTime <= key[t][1]

(***************************************************************************)
(* Whether or not a push raises, its task is queued, once, and so are all  *)
(* the others: schedule_delayed that ends with a TypeError has scheduled   *)
(* the call nevertheless, although its caller gets no future.              *)
(***************************************************************************)
PushKeepsEntries ==
    [][scheduled' # scheduled =>
           /\ Range(heap') = Range(heap) \cup {scheduled'}
           /\ Len(heap') = Len(heap) + 1]_vars

(***************************************************************************)
(* The docstring of TaskQueue: the class orders "the tasks according to    *)
(* their scheduled absolute execution time and priority", with no word of  *)
(* a pair of tasks that it can not order.                                  *)
(***************************************************************************)
AnyTasksAreOrdered == raised = "nothing"
=============================================================================
