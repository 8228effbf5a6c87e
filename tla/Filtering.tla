----------------------------- MODULE Filtering -----------------------------
(***************************************************************************)
(* Selection from a sequence.  Filter(s, S) is SelectSeq(s, LAMBDA e : e   *)
(* \in S); with a set in place of the operator, and as a recursive         *)
(* function, it is a definition that can be reasoned about.                *)
(***************************************************************************)
EXTENDS Integers, Sequences

(* The elements in S among the first n of s, for every n. *)
Filtered(s, S) ==
    LET F[n \in 0 .. Len(s)] ==
            IF n = 0 THEN <<>>
            ELSE IF s[n] \in S THEN Append(F[n - 1], s[n]) ELSE F[n - 1]
    IN  F

(* The elements of s that are in S, in their order. *)
Filter(s, S) == Filtered(s, S)[Len(s)]
=============================================================================
