----------------------------- MODULE MCNetwork -----------------------------
(* Small networks for TLC. *)
EXTENDS EthernetNetwork, TLC

CONSTANTS h1, h2, h3, p1, p2, p3

(* The network of tests/test_create_network.py: one host, one interface. *)
TestHosts  == <<h1>>
TestPorts  == <<p1>>
TestHostOf == (p1 :> h1)

(* Two hosts with an interface each, as in examples/examples.py. *)
PairHosts  == <<h1, h2>>
PairPorts  == <<p1, p2>>
PairHostOf == (p1 :> h1) @@ (p2 :> h2)

(* Three hosts with an interface each. *)
TripleHosts  == <<h1, h2, h3>>
TriplePorts  == <<p1, p2, p3>>
TripleHostOf == (p1 :> h1) @@ (p2 :> h2) @@ (p3 :> h3)
=============================================================================
