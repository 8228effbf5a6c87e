-------------------------- MODULE HostStack_proofs --------------------------
(***************************************************************************)
(* Theorems about sockets, buffers and ping clients of one host, for any   *)
(* number of them and any configuration of the library's pools.            *)
(***************************************************************************)
EXTENDS HostStack, TLAPS

(* TypeOK, by the groups of variables that the actions change. *)
UdpTypes ==
    /\ used \in 0 .. NumPcbs
    /\ port \in [Pcbs -> Ports \cup {0}]
    /\ recv \in [Pcbs -> Sockets \cup {NoOne}]
    /\ pcb \in [Sockets -> 0 .. used]
    /\ thunk \in [Sockets -> 0 .. used]
    /\ rxCallback \in [Sockets -> BOOLEAN]

MemTypes ==
    /\ heap \in 0 .. NumHeap
    /\ pool \in 0 .. NumPool
    /\ chain \in 0 .. NumPool
    /\ dest \in Ports \cup {0}

PingTypes ==
    /\ pings \in 0 .. MaxPings
    /\ pingCbk \in Clients \cup {NoOne}
    /\ callback \in [Clients -> 0 .. pings]
    /\ called \in [1 .. MaxPings -> Nat]

RunTypes ==
    /\ running \in Sockets \cup Clients \cup {NoOne}
    /\ part \in (0 .. NumPool) \X (0 .. NumPool)
    /\ live \subseteq Sockets \cup Clients
    /\ broken \in BOOLEAN

(* TypeOK in the groups in which the steps disturb it. *)
LEMMA TypesByVariables == TypeOK <=> UdpTypes /\ MemTypes /\ PingTypes /\ RunTypes
  BY DEF TypeOK, UdpTypes, MemTypes, PingTypes, RunTypes

(* The pool has given out the datagram that the library handles, no more. *)
PoolHoldsTheChain == pool = chain

(* A socket that has a thunk has one that its own pcb calls; a pcb that *)
(* calls a thunk belongs to a socket that has one.                      *)
ThunksHaveOwners ==
    /\ \A s \in Sockets : thunk[s] # 0 => recv[thunk[s]] = s
    /\ \A i \in Pcbs :
           recv[i] # NoOne => i <= used /\ port[i] \in Ports /\ thunk[recv[i]] # 0

(* A callback that waits has not been called, and waits in one place; nor *)
(* has that of the latest ping while the library points to a client.      *)
WaitingIsUncalled ==
    /\ \A c \in Clients : callback[c] # 0 => called[callback[c]] = 0
    /\ \A c, d \in Clients : callback[c] # 0 /\ callback[c] = callback[d] => c = d
    /\ \A n \in 1 .. MaxPings : n > pings => called[n] = 0
    /\ pingCbk # NoOne => pings # 0 /\ called[pings] = 0

IInv ==
    /\ TypeOK
    /\ PoolHoldsTheChain
    /\ ThunksHaveOwners
    /\ StrayHasCause
    /\ LatestPingIsArmed
    /\ WaitingIsUncalled

-----------------------------------------------------------------------------
(* A stack that has just been initialised. *)
LEMMA InitIInv == Init => IInv
<1> SUFFICES ASSUME Init PROVE IInv
  OBVIOUS
<1> USE StackAssumption DEF Init
<1>1. TypeOK
  <2>1. UdpTypes
    <3>1. rxCallback \in [Sockets -> BOOLEAN]
      BY Zenon
    <3>2. QED
      BY <3>1 DEF UdpTypes, Pcbs
  <2>2. MemTypes
    BY DEF MemTypes
  <2>3. PingTypes
    BY DEF PingTypes
  <2>4. RunTypes
    <3>1. broken \in BOOLEAN
      BY Zenon
    <3>2. 0 \in 0 .. NumPool
      OBVIOUS
    <3>3. live \subseteq Sockets \cup Clients
      BY Zenon
    <3>4. QED
      BY <3>1, <3>2, <3>3 DEF RunTypes
  <2>5. QED
    BY <2>1, <2>2, <2>3, <2>4, TypesByVariables
<1>2. PoolHoldsTheChain /\ ThunksHaveOwners /\ StrayHasCause
  BY DEF PoolHoldsTheChain, ThunksHaveOwners, StrayHasCause, Pcbs
<1>3. LatestPingIsArmed /\ WaitingIsUncalled
  BY DEF LatestPingIsArmed, WaitingIsUncalled
<1>4. QED
  BY <1>1, <1>2, <1>3 DEF IInv

(* A bind that raises takes a pcb that nothing points to. *)
LEMMA BindRaisesIInv ==
    ASSUME IInv, ~ broken, NEW s \in Sockets, BindRaises(s)
    PROVE  IInv'
<1> USE StackAssumption
        DEF IInv, BindRaises, NewPcb, AfterError, memVars, pingVars, runVars,
            lifeVars
<1>1. TypeOK'
  <2>1. UdpTypes'
    BY TypesByVariables DEF UdpTypes, Pcbs
  <2>2. MemTypes' /\ PingTypes' /\ RunTypes'
    BY TypesByVariables DEF MemTypes, PingTypes, RunTypes
  <2>3. QED
    BY <2>1, <2>2 DEF TypeOK, UdpTypes, MemTypes, PingTypes, RunTypes
<1>2. PoolHoldsTheChain' /\ LatestPingIsArmed' /\ WaitingIsUncalled'
  BY DEF PoolHoldsTheChain, LatestPingIsArmed, WaitingIsUncalled
<1>3. ThunksHaveOwners'
  BY DEF ThunksHaveOwners, TypeOK, Pcbs
<1>4. StrayHasCause'
  BY DEF StrayHasCause
<1>5. QED
  BY <1>1, <1>2, <1>3, <1>4

(* A bind that succeeds makes the new pcb's thunk that of the socket. *)
LEMMA BindSucceedsIInv ==
    ASSUME IInv, ~ broken, NEW s \in Sockets, NEW p \in Ports,
           BindSucceeds(s, p)
    PROVE  IInv'
<1> USE StackAssumption
        DEF IInv, BindSucceeds, NewPcb, KeepThunk, memVars, pingVars, runVars,
            lifeVars
<1>0. used + 1 \in Pcbs /\ used \in Nat /\ p # 0 /\ s # NoOne
  BY DEF TypeOK, Pcbs
<1>1. TypeOK'
  <2>1. UdpTypes'
    BY <1>0, TypesByVariables DEF UdpTypes, Pcbs
  <2>2. MemTypes' /\ PingTypes' /\ RunTypes'
    BY TypesByVariables DEF MemTypes, PingTypes, RunTypes
  <2>3. QED
    BY <2>1, <2>2 DEF TypeOK, UdpTypes, MemTypes, PingTypes, RunTypes
<1>2. PoolHoldsTheChain' /\ LatestPingIsArmed' /\ WaitingIsUncalled'
  BY DEF PoolHoldsTheChain, LatestPingIsArmed, WaitingIsUncalled
<1>3. ThunksHaveOwners'
  <2>1. ASSUME NEW t \in Sockets, thunk'[t] # 0 PROVE recv'[thunk'[t]] = t
    <3>1. CASE t = s
      BY <1>0, <3>1 DEF TypeOK
    <3>2. CASE t # s
      BY <1>0, <2>1, <3>2 DEF TypeOK, ThunksHaveOwners, Pcbs
    <3>3. QED
      BY <3>1, <3>2
  <2>2. ASSUME NEW i \in Pcbs, recv'[i] # NoOne
        PROVE  i <= used' /\ port'[i] \in Ports /\ thunk'[recv'[i]] # 0
    <3>1. CASE i = used + 1
      BY <1>0, <3>1 DEF TypeOK
    <3>2. CASE i # used + 1
      <4>1. recv[i] # NoOne /\ recv'[i] = recv[i] /\ port'[i] = port[i]
        BY <2>2, <3>2 DEF TypeOK
      <4>2. i <= used /\ port[i] \in Ports /\ thunk[recv[i]] # 0
        BY <4>1 DEF ThunksHaveOwners
      <4>3. recv[i] \in Sockets
        BY <4>1 DEF TypeOK
      <4>4. QED
        BY <1>0, <4>1, <4>2, <4>3 DEF TypeOK, Pcbs
    <3>3. QED
      BY <3>1, <3>2
  <2>3. QED
    BY <2>1, <2>2 DEF ThunksHaveOwners, Pcbs
<1>4. StrayHasCause'
  BY DEF StrayHasCause
<1>5. QED
  BY <1>1, <1>2, <1>3, <1>4

(* The other calls of a task or a callback, but for ping(). *)
LEMMA SocketCallIInv ==
    ASSUME IInv, ~ broken, NEW s \in Sockets,
           SendTo(s) \/ \E given \in BOOLEAN : SetRecvCallback(s, given)
    PROVE  IInv'
<1> USE StackAssumption
        DEF IInv, SendTo, TakeHeap, SetRecvCallback, udpVars, memVars, pingVars,
            runVars, lifeVars
<1>1. TypeOK'
  <2>1. UdpTypes'
    BY TypesByVariables DEF UdpTypes
  <2>2. MemTypes'
    BY TypesByVariables DEF MemTypes
  <2>3. PingTypes' /\ RunTypes'
    BY TypesByVariables DEF PingTypes, RunTypes
  <2>4. QED
    BY <2>1, <2>2, <2>3 DEF TypeOK, UdpTypes, MemTypes, PingTypes, RunTypes
<1>2. PoolHoldsTheChain' /\ LatestPingIsArmed' /\ WaitingIsUncalled'
  BY DEF PoolHoldsTheChain, LatestPingIsArmed, WaitingIsUncalled
<1>3. ThunksHaveOwners' /\ StrayHasCause'
  BY DEF ThunksHaveOwners, StrayHasCause
<1>4. QED
  BY <1>1, <1>2, <1>3

(* What the library does with a datagram. *)
LEMMA DatagramIInv ==
    ASSUME IInv, ~ broken,
           \/ \E n \in 1 .. NumPool, p \in Ports : InputDatagram(n, p)
           \/ Discard
           \/ \E i \in 1 .. used : RecvCallback(i)
           \/ Return
    PROVE  IInv'
<1> USE StackAssumption
        DEF IInv, InputDatagram, Discard, RecvCallback, FreePbuf, Done, Copied,
            Return, udpVars, memVars, pingVars, runVars,
            lifeVars
<1>1. TypeOK'
  <2>1. UdpTypes' /\ PingTypes'
    BY TypesByVariables DEF UdpTypes, PingTypes
  <2>2. MemTypes'
    BY TypesByVariables DEF MemTypes, PoolHoldsTheChain
  <2>3. RunTypes'
    BY TypesByVariables DEF RunTypes, UdpTypes, MemTypes, Pcbs
  <2>4. QED
    BY <2>1, <2>2, <2>3 DEF TypeOK, UdpTypes, MemTypes, PingTypes, RunTypes
<1>2. PoolHoldsTheChain'
  <2>1. chain \in Nat /\ NumPool \in Nat
    BY DEF TypeOK
  <2>2. QED
    BY <2>1 DEF PoolHoldsTheChain
<1>3. LatestPingIsArmed' /\ WaitingIsUncalled'
  BY DEF LatestPingIsArmed, WaitingIsUncalled
<1>4. ThunksHaveOwners' /\ StrayHasCause'
  BY DEF ThunksHaveOwners, StrayHasCause
<1>5. QED
  BY <1>1, <1>2, <1>3, <1>4

(* A thunk that was replaced has a socket with two bound pcbs. *)
LEMMA StrayCallbackIInv ==
    ASSUME IInv, ~ broken, NEW i \in 1 .. used, StrayCallback(i)
    PROVE  IInv'
<1> USE StackAssumption
        DEF IInv, StrayCallback, udpVars, memVars, pingVars, runVars
<1>1. TypeOK'
  BY DEF TypeOK
<1>2. PoolHoldsTheChain' /\ LatestPingIsArmed' /\ WaitingIsUncalled'
  BY DEF PoolHoldsTheChain, LatestPingIsArmed, WaitingIsUncalled
<1>3. ThunksHaveOwners'
  BY DEF ThunksHaveOwners
<1>4. StrayHasCause'
  <2>1. i \in Pcbs /\ recv[i] \in Sockets /\ recv[i] # NoOne
    BY DEF TypeOK, Pcbs
  <2>2. recv[i] \notin live \/ BoundTwice(i)
    <3>1. SUFFICES ASSUME recv[i] \in live PROVE BoundTwice(i)
      OBVIOUS
    <3>2. thunk[recv[i]] # 0 /\ thunk[recv[i]] \in 0 .. used
      BY <2>1 DEF TypeOK, ThunksHaveOwners
    <3>3. thunk[recv[i]] \in 1 .. used /\ thunk[recv[i]] # i
      BY <3>1, <3>2 DEF TypeOK, Reachable
    <3>4. recv[thunk[recv[i]]] = recv[i]
      BY <2>1, <3>2 DEF ThunksHaveOwners
    <3>5. QED
      BY <3>3, <3>4 DEF BoundTwice
  <2>3. QED
    BY <2>1, <2>2 DEF StrayHasCause, BoundTwice
<1>5. QED
  BY <1>1, <1>2, <1>3, <1>4

(* A result for a client that is gone came before any other. *)
LEMMA StrayResultIInv ==
    ASSUME IInv, ~ broken, StrayResult
    PROVE  IInv'
<1> USE StackAssumption
        DEF IInv, StrayResult, udpVars, memVars, pingVars, runVars
<1>1. TypeOK'
  BY DEF TypeOK
<1>2. PoolHoldsTheChain' /\ LatestPingIsArmed' /\ WaitingIsUncalled'
  BY DEF PoolHoldsTheChain, LatestPingIsArmed, WaitingIsUncalled
<1>3. ThunksHaveOwners'
  BY DEF ThunksHaveOwners
<1>4. StrayHasCause'
  BY DEF StrayHasCause, WaitingIsUncalled
<1>5. QED
  BY <1>1, <1>2, <1>3, <1>4

(* What is collected leaves all that the library has as it was. *)
LEMMA CollectIInv ==
    ASSUME IInv, ~ broken, NEW x \in live, Collect(x)
    PROVE  IInv'
<1> USE DEF IInv, Collect, udpVars, memVars, pingVars, runVars
<1>1. TypeOK'
  BY DEF TypeOK
<1>2. PoolHoldsTheChain' /\ LatestPingIsArmed' /\ WaitingIsUncalled'
  BY DEF PoolHoldsTheChain, LatestPingIsArmed, WaitingIsUncalled
<1>3. ThunksHaveOwners' /\ StrayHasCause'
  BY DEF ThunksHaveOwners, StrayHasCause
<1>4. QED
  BY <1>1, <1>2, <1>3

(* ping() from any client. *)
LEMMA PingIInv ==
    ASSUME IInv, ~ broken, NEW c \in Clients, NEW given \in BOOLEAN,
           Ping(c, given)
    PROVE  IInv'
<1> USE StackAssumption
        DEF IInv, Ping, Register, udpVars, memVars, runVars, lifeVars
<1>0. pings \in Nat /\ pings + 1 \in 1 .. MaxPings /\ c # NoOne
  BY DEF TypeOK
<1>1. TypeOK'
  <2>1. UdpTypes' /\ MemTypes' /\ RunTypes'
    BY TypesByVariables DEF UdpTypes, MemTypes, RunTypes
  <2>2. PingTypes'
    BY <1>0, TypesByVariables DEF PingTypes
  <2>3. QED
    BY <2>1, <2>2 DEF TypeOK, UdpTypes, MemTypes, PingTypes, RunTypes
<1>2. PoolHoldsTheChain' /\ ThunksHaveOwners' /\ StrayHasCause'
  BY DEF PoolHoldsTheChain, ThunksHaveOwners, StrayHasCause
<1>3. LatestPingIsArmed'
  BY <1>0 DEF LatestPingIsArmed, TypeOK
<1>4. WaitingIsUncalled'
  <2>1. ASSUME NEW d \in Clients, callback'[d] # 0
        PROVE  called'[callback'[d]] = 0
    BY <1>0, <2>1 DEF WaitingIsUncalled, TypeOK
  <2>2. ASSUME NEW d \in Clients, NEW e \in Clients,
               callback'[d] # 0, callback'[d] = callback'[e]
        PROVE  d = e
    BY <1>0, <2>2 DEF WaitingIsUncalled, TypeOK
  <2>3. \A n \in 1 .. MaxPings : n > pings' => called'[n] = 0
    BY <1>0 DEF WaitingIsUncalled
  <2>4. pings' # 0 /\ called'[pings'] = 0
    BY <1>0 DEF WaitingIsUncalled
  <2>5. QED
    BY <2>1, <2>2, <2>3, <2>4 DEF WaitingIsUncalled
<1>5. QED
  BY <1>1, <1>2, <1>3, <1>4

(* A result of a ping, the first one or one that nobody asked for. *)
LEMMA PingResultIInv ==
    ASSUME IInv, ~ broken, PingResult
    PROVE  IInv'
<1> USE StackAssumption
        DEF IInv, PingResult, Disarm, udpVars, memVars, lifeVars
<1>0. pings \in Nat /\ pingCbk \in Clients /\ callback[pingCbk] \in 0 .. pings
      /\ pings <= MaxPings
  BY DEF TypeOK
<1>1. TypeOK'
  <2>1. UdpTypes' /\ MemTypes' /\ RunTypes'
    BY TypesByVariables DEF UdpTypes, MemTypes, RunTypes, PingTypes
  <2>2. PingTypes'
    BY <1>0, TypesByVariables DEF PingTypes
  <2>3. QED
    BY <2>1, <2>2 DEF TypeOK, UdpTypes, MemTypes, PingTypes, RunTypes
<1>2. PoolHoldsTheChain' /\ ThunksHaveOwners' /\ StrayHasCause'
  BY DEF PoolHoldsTheChain, ThunksHaveOwners, StrayHasCause
<1>3. LatestPingIsArmed'
  BY <1>0 DEF LatestPingIsArmed, TypeOK
<1>4. WaitingIsUncalled'
  <2>1. ASSUME NEW d \in Clients, callback'[d] # 0
        PROVE  called'[callback'[d]] = 0
    <3>1. d # pingCbk /\ callback'[d] = callback[d]
      BY <1>0, <2>1 DEF TypeOK
    <3>2. callback[d] # callback[pingCbk] /\ called[callback[d]] = 0
      BY <1>0, <2>1, <3>1 DEF WaitingIsUncalled
    <3>3. QED
      BY <1>0, <3>1, <3>2 DEF TypeOK
  <2>2. ASSUME NEW d \in Clients, NEW e \in Clients,
               callback'[d] # 0, callback'[d] = callback'[e]
        PROVE  d = e
    BY <1>0, <2>2 DEF WaitingIsUncalled, TypeOK
  <2>3. \A n \in 1 .. MaxPings : n > pings' => called'[n] = 0
    BY <1>0 DEF WaitingIsUncalled, TypeOK
  <2>4. QED
    BY <2>1, <2>2, <2>3 DEF WaitingIsUncalled
<1>5. QED
  BY <1>1, <1>2, <1>3, <1>4

(* Every call, in whatever callback it is made, keeps the invariant. *)
LEMMA NextIInv == IInv /\ [Next]_vars => IInv'
<1> SUFFICES ASSUME IInv, [Next]_vars PROVE IInv'
  OBVIOUS
<1>1. CASE ~ broken /\ UserCall
  BY <1>1, BindRaisesIInv, BindSucceedsIInv, SocketCallIInv, PingIInv
     DEF UserCall, Bind
<1>2. CASE ~ broken /\ Library
  BY <1>2, DatagramIInv, StrayCallbackIInv, PingResultIInv, StrayResultIInv
     DEF Library
<1>3. CASE ~ broken /\ Return
  BY <1>3, DatagramIInv
<1>4. CASE ~ broken /\ \E x \in live : Collect(x)
  BY <1>4, CollectIInv
<1>5. CASE UNCHANGED vars
  <2> USE <1>5 DEF IInv, vars, udpVars, memVars, pingVars, runVars, lifeVars
  <2>1. TypeOK' /\ PoolHoldsTheChain' /\ ThunksHaveOwners'
    BY DEF TypeOK, PoolHoldsTheChain, ThunksHaveOwners
  <2>2. StrayHasCause' /\ LatestPingIsArmed' /\ WaitingIsUncalled'
    BY DEF StrayHasCause, BoundTwice, LatestPingIsArmed, WaitingIsUncalled
  <2>3. QED
    BY <2>1, <2>2
<1>6. QED
  BY <1>1, <1>2, <1>3, <1>4, <1>5 DEF Next

(* So it holds throughout. *)
LEMMA AlwaysIInv == Spec => []IInv
  BY InitIInv, NextIInv, PTL DEF Spec

-----------------------------------------------------------------------------
(* Every variable of sockets, buffers and clients keeps its type. *)
THEOREM TypeCorrectness == Spec => []TypeOK
<1>1. IInv => TypeOK
  BY DEF IInv
<1>2. QED
  BY <1>1, AlwaysIInv, PTL

(***************************************************************************)
(* _recv_callback frees the datagram before it calls user code, and the    *)
(* library frees what it does not deliver: user code never runs with a     *)
(* buffer of the pool in use, for any size of the pool.                    *)
(***************************************************************************)
THEOREM PoolIsAlwaysWhole == Spec => []PoolIsWhole
<1>1. IInv => PoolIsWhole
  BY DEF IInv, PoolHoldsTheChain, PoolIsWhole
<1>2. QED
  BY <1>1, AlwaysIInv, PTL

(***************************************************************************)
(* For any number of sockets, clients and pcbs, and whenever the collector *)
(* runs: a datagram reaches a dead thunk only at a socket that was freed   *)
(* or bound twice, a ping result only at a client that was freed before    *)
(* any result of the latest ping came.                                     *)
(***************************************************************************)
THEOREM StrayNeedsCause == Spec => []StrayHasCause
<1>1. IInv => StrayHasCause
  BY DEF IInv
<1>2. QED
  BY <1>1, AlwaysIInv, PTL

(***************************************************************************)
(* Any clients may ping in any order, from tasks and from callbacks: the   *)
(* callback of the latest ping is the one the library can reach.           *)
(***************************************************************************)
THEOREM LatestPingStaysArmed == Spec => []LatestPingIsArmed
<1>1. IInv => LatestPingIsArmed
  BY DEF IInv
<1>2. QED
  BY <1>1, AlwaysIInv, PTL

-----------------------------------------------------------------------------
(* The ports served depend on what only bind() and the collector change. *)
LEMMA ServedUnchanged ==
    ASSUME UNCHANGED <<used, port, recv, thunk, live>>
    PROVE  Served' = Served
  BY DEF Served, Reachable

(* A bind() that raises loses its pcb, and no port its service. *)
LEMMA BindRaisesServes ==
    ASSUME IInv, NEW s \in Sockets, BindRaises(s)
    PROVE  Served \subseteq Served'
<1>1. used \in Nat /\ used' = used + 1 /\ port' = port /\ recv' = recv
      /\ thunk' = thunk /\ live' = live
  BY DEF IInv, TypeOK, BindRaises, NewPcb, AfterError, lifeVars
<1>2. 1 .. used \subseteq 1 .. used'
  BY <1>1
<1>3. QED
  BY <1>1, <1>2 DEF Served, Reachable

(* What the collector frees serves no more, everything else as before. *)
LEMMA CollectServes ==
    ASSUME IInv, NEW x \in live, Collect(x), NEW e \in Served \ Served'
    PROVE  e[2] \notin live'
<1>1. PICK i \in 1 .. used : Reachable(i) /\ e = <<port[i], recv[i]>>
  BY DEF Served
<1>2. /\ used' = used /\ port' = port /\ recv' = recv /\ thunk' = thunk
      /\ live' = live \ {x}
  BY DEF Collect, udpVars
<1>3. SUFFICES ASSUME recv[i] \in live' PROVE FALSE
  BY <1>1
<1>4. Reachable(i)'
  BY <1>1, <1>2, <1>3 DEF Reachable
<1>5. e \in Served'
  BY <1>1, <1>2, <1>4 DEF Served
<1>6. QED
  BY <1>5

(* After bind() the socket is served, and every other is as before. *)
LEMMA BindSucceedsServes ==
    ASSUME IInv, NEW s \in Sockets \cap live, NEW p \in Ports,
           BindSucceeds(s, p), NEW e \in Served \ Served'
    PROVE  <<p, e[2]>> \in Served'
<1> USE StackAssumption DEF IInv, BindSucceeds, NewPcb, KeepThunk, lifeVars
<1>1. /\ used \in Nat /\ used + 1 \in Pcbs /\ used' = used + 1
      /\ port'[used + 1] = p /\ recv'[used + 1] = s /\ thunk'[s] = used + 1
      /\ live' = live
  BY DEF TypeOK, Pcbs
<1>2. <<p, s>> \in Served'
  BY <1>1 DEF Served, Reachable
<1>3. PICK i \in 1 .. used : /\ recv[i] \in live /\ thunk[recv[i]] = i
                             /\ e = <<port[i], recv[i]>>
  BY DEF Served, Reachable
<1>4. i \in Pcbs /\ i # used + 1 /\ i \in 1 .. used'
  BY <1>1, <1>3 DEF TypeOK, Pcbs
<1>5. recv'[i] = recv[i] /\ port'[i] = port[i] /\ recv[i] \in Sockets
  BY <1>3, <1>4 DEF TypeOK
<1>6. recv[i] = s
  <2> SUFFICES ASSUME recv[i] # s PROVE FALSE
    OBVIOUS
  <2>1. recv'[i] \in live' /\ thunk'[recv'[i]] = i
    BY <1>1, <1>3, <1>5 DEF TypeOK
  <2>2. e \in Served'
    BY <1>3, <1>4, <1>5, <2>1 DEF Served, Reachable
  <2>3. QED
    BY <2>2
<1>7. QED
  BY <1>2, <1>3, <1>6

(***************************************************************************)
(* A port loses its service only with its socket, or to a successful       *)
(* bind() of the same socket, which is then served at the new port.        *)
(***************************************************************************)
THEOREM BindKeepsService == Spec => ServiceIsKept
<1> DEFINE Kept == \A e \in Served \ Served' :
                       e[2] \in live' => \E p \in Ports : <<p, e[2]>> \in Served'
<1>1. ASSUME IInv, [Next]_vars PROVE Kept
  <2>1. CASE \E s \in Sockets \cap live : Bind(s)
    BY <1>1, <2>1, BindRaisesServes, BindSucceedsServes DEF Bind
  <2>2. CASE \E x \in live : Collect(x)
    BY <1>1, <2>2, CollectServes
  <2>3. CASE UNCHANGED <<used, port, recv, thunk, live>>
    BY <2>3, ServedUnchanged
  <2>4. QED
    BY <1>1, <2>1, <2>2, <2>3
       DEF Next, UserCall, Library, SendTo, SetRecvCallback, Ping, InputDatagram,
           Discard, RecvCallback, StrayCallback, PingResult, StrayResult, Return,
           vars, udpVars, lifeVars
<1>2. IInv /\ [Next]_vars => [Kept]_vars
  BY <1>1
<1>3. QED
  BY <1>2, AlwaysIInv, PTL DEF Spec, ServiceIsKept

(***************************************************************************)
(* However often ping_result is called, it calls the callback of the       *)
(* latest ping only, and only once.                                        *)
(***************************************************************************)
THEOREM ResultsGoToLatestPing == Spec => ResultGoesToLatestPing
<1> DEFINE Once == \A n \in 1 .. MaxPings :
                       called'[n] # called[n] => n = pings /\ called[n] = 0
<1>1. ASSUME IInv, [Next]_vars PROVE Once
  <2>1. CASE PingResult
    <3>1. pingCbk \in Clients /\ callback[pingCbk] \in {0, pings}
      BY <1>1, <2>1, StackAssumption
         DEF IInv, TypeOK, LatestPingIsArmed, PingResult
    <3>2. callback[pingCbk] # 0 => called[callback[pingCbk]] = 0
      BY <1>1, <3>1 DEF IInv, WaitingIsUncalled
    <3>3. QED
      BY <1>1, <2>1, <3>1, <3>2 DEF IInv, TypeOK, PingResult
  <2>2. CASE UNCHANGED called
    BY <2>2
  <2>3. QED
    BY <1>1, <2>1, <2>2
       DEF Next, UserCall, Bind, BindRaises, BindSucceeds, Library, SendTo,
           SetRecvCallback, Ping, InputDatagram, Discard, RecvCallback,
           StrayCallback, StrayResult, Return, Collect, vars, pingVars
<1>2. IInv /\ [Next]_vars => [Once]_vars
  BY <1>1
<1>3. QED
  BY <1>2, AlwaysIInv, PTL DEF Spec, ResultGoesToLatestPing
=============================================================================
