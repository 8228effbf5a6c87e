----------------------------- MODULE MCPingPong -----------------------------
(* The network of examples/examples.py: two hosts with an interface each. *)
EXTENDS PingPong, TLC

CONSTANTS h1, h2, p1, p2

PairHosts  == <<h1, h2>>
PairPorts  == <<p1, p2>>
PairHostOf == (p1 :> h1) @@ (p2 :> h2)
=============================================================================
