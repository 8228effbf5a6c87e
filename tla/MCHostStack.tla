---------------------------- MODULE MCHostStack ----------------------------
(* A small stack for TLC. *)
EXTENDS HostStack, TLC

(* The sockets, and the clients, are interchangeable. *)
StackSymmetry == Permutations(Sockets) \cup Permutations(Clients)
=============================================================================
