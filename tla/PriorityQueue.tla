--------------------------- MODULE PriorityQueue ---------------------------
(***************************************************************************)
(* What TaskQueue promises its user: it is a set of tasks, each with the   *)
(* key (abs_time, priority) it was scheduled with, and popping till a      *)
(* timestamp removes exactly the tasks that are due and hands them over    *)
(* sorted by that key.  Where two tasks with one key have no order, a pop  *)
(* may raise instead; the tasks it had removed by then are gone.           *)
(***************************************************************************)
EXTENDS Naturals, Sequences, Functions

CONSTANTS Keys, Timestamps, Comparable

VARIABLES entries, key, scheduled, till, popped

vars == <<entries, key, scheduled, till, popped>>

KeyLess(k, l) == k[1] < l[1] \/ (k[1] = l[1] /\ k[2] < l[2])

Init ==
    /\ entries = {}
    /\ key = <<>>
    /\ scheduled = 0
    /\ till = 0
    /\ popped = <<>>

Schedule(k) ==
    /\ scheduled' = scheduled + 1
    /\ key' = Append(key, k)
    /\ entries' = entries \cup {scheduled + 1}
    /\ till' = 0
    /\ popped' = <<>>

DueAt(timestamp) == {t \in entries : key[t][1] <= timestamp}

(* s lists the elements of S, each once, and none before a smaller one. *)
IsSorting(s, S) ==
    /\ Range(s) = S
    /\ IsInjective(s)
    /\ \A i, j \in DOMAIN s : i < j => ~ KeyLess(key[s[j]], key[s[i]])

PopTill(timestamp) ==
    /\ till' = timestamp
    /\ IsSorting(popped', DueAt(timestamp))
    /\ entries' = entries \ DueAt(timestamp)
    /\ UNCHANGED <<key, scheduled>>

Tie ==
    \E t, u \in entries :
        t # u /\ key[t] = key[u] /\ ~ {t, u} \subseteq Comparable

PopRaises(timestamp) ==
    /\ Tie
    /\ till' = timestamp
    /\ entries' \subseteq entries
    /\ entries \ entries' \subseteq DueAt(timestamp)
    /\ popped' = <<>>
    /\ UNCHANGED <<key, scheduled>>

Next ==
    \/ \E k \in Keys : Schedule(k)
    \/ \E timestamp \in Timestamps : PopTill(timestamp) \/ PopRaises(timestamp)

Spec == Init /\ [][Next]_vars
=============================================================================
