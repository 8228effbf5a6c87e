---------------------------- MODULE DelayedCalls ----------------------------
(***************************************************************************)
(* What SingleThreadExecutor promises the owners of its futures, without   *)
(* its queue, lock, condition and counter: a call is accepted or refused,  *)
(* the accepted calls that are due are taken up together, a turn, and      *)
(* executed one at a time in the order of (abs_time, priority), never      *)
(* before their time; a call cancelled in time is passed over.  Nothing    *)
(* ends the work in the middle of a turn but an action that kills the      *)
(* thread.                                                                 *)
(***************************************************************************)
EXTENDS Naturals

CONSTANTS Tasks, Delays, Priorities

VARIABLES
    clock,     \* the time
    absTime,   \* when an accepted call is due
    priority,  \* its priority
    future,    \* the state of its future
    turn,      \* the calls taken up and not yet begun
    open,      \* whether calls are accepted
    worker     \* "new", "working" or "over"

vars == <<clock, absTime, priority, future, turn, open, worker>>

Init ==
    /\ clock = 0
    /\ absTime = [t \in Tasks |-> 0]
    /\ priority = [t \in Tasks |-> 0]
    /\ future = [t \in Tasks |-> "unscheduled"]
    /\ turn = {}
    /\ open = FALSE
    /\ worker = "new"

Becomes(t, state) == future' = [future EXCEPT ![t] = state]

Accept(t, d, p) ==
    /\ open
    /\ future[t] = "unscheduled"
    /\ Becomes(t, "pending")
    /\ absTime' = [absTime EXCEPT ![t] = clock + d]
    /\ priority' = [priority EXCEPT ![t] = p]
    /\ UNCHANGED <<clock, turn, open, worker>>

Refuse(t) ==
    /\ ~ open
    /\ future[t] = "unscheduled"
    /\ Becomes(t, "rejected")
    /\ UNCHANGED <<clock, absTime, priority, turn, open, worker>>

Cancel(t) ==
    /\ future[t] = "pending"
    /\ Becomes(t, "cancelled")
    /\ UNCHANGED <<clock, absTime, priority, turn, open, worker>>

(* The calls that are accepted and not yet begun. *)
Waiting == {t \in Tasks : future[t] \in {"pending", "cancelled"}}

Idle == turn = {} /\ \A t \in Tasks : future[t] # "running"

TakeTurn ==
    /\ worker = "working"
    /\ Idle
    /\ turn' = {t \in Waiting : absTime[t] <= clock}
    /\ UNCHANGED <<clock, absTime, priority, future, open, worker>>

(* t is the next of the turn. *)
IsNext(t) ==
    /\ worker = "working"
    /\ \A u \in Tasks : future[u] # "running"
    /\ t \in turn
    /\ \A u \in turn :
           \/ absTime[t] < absTime[u]
           \/ absTime[t] = absTime[u] /\ priority[t] <= priority[u]

Begin(t) ==
    /\ IsNext(t)
    /\ \/ future[t] = "pending" /\ Becomes(t, "running")
       \/ future[t] = "cancelled" /\ Becomes(t, "notified")
    /\ turn' = turn \ {t}
    /\ UNCHANGED <<clock, absTime, priority, open, worker>>

Finish(t) ==
    /\ worker = "working"
    /\ future[t] = "running"
    /\ \E outcome \in {"result", "error"} : Becomes(t, outcome)
    /\ UNCHANGED <<clock, absTime, priority, turn, open, worker>>

(* The action of t kills the thread; the rest of the turn is lost. *)
Die(t) ==
    /\ worker = "working"
    /\ future[t] = "running"
    /\ worker' = "over"
    /\ turn' = {}
    /\ UNCHANGED <<clock, absTime, priority, future, open>>

Open ==
    /\ worker = "new"
    /\ worker' = "working"
    /\ open' = TRUE
    /\ UNCHANGED <<clock, absTime, priority, future, turn>>

Close ==
    /\ open' = FALSE
    /\ UNCHANGED <<clock, absTime, priority, future, turn, worker>>

End ==
    /\ worker = "working"
    /\ ~ open
    /\ Idle
    /\ worker' = "over"
    /\ UNCHANGED <<clock, absTime, priority, future, turn, open>>

Tick ==
    /\ clock' = clock + 1
    /\ UNCHANGED <<absTime, priority, future, turn, open, worker>>

Next ==
    \/ \E t \in Tasks, d \in Delays, p \in Priorities : Accept(t, d, p)
    \/ \E t \in Tasks : Refuse(t) \/ Cancel(t) \/ Begin(t) \/ Finish(t) \/ Die(t)
    \/ TakeTurn \/ Open \/ Close \/ End \/ Tick

Spec == Init /\ [][Next]_vars
=============================================================================
