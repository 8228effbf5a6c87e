----------------------------- MODULE MCSysMbox -----------------------------
(* A small mailbox for TLC. *)
EXTENDS SysMbox
=============================================================================
