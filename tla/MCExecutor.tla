----------------------------- MODULE MCExecutor -----------------------------
(* Small instances of SingleThreadExecutor for TLC. *)
EXTENDS SingleThreadExecutor
=============================================================================
