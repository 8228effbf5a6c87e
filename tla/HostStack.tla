----------------------------- MODULE HostStack -----------------------------
(***************************************************************************)
(* lwip_py/stack: what the tasks of one host do with its instance of the   *)
(* library: UdpSocket, Allocator, PingClient and NetIf.input_data, and     *)
(* lwip_lib/src/ping_result.c.                                             *)
(*                                                                         *)
(* All of it runs in the thread of the host, so a call is one step; but    *)
(* the library calls back into user code while it handles an input, and    *)
(* that code may make any of these calls before it returns.                *)
(*                                                                         *)
(* A ctypes callback is a thunk that lives as long as Python refers to it, *)
(* while the library keeps the bare pointer.  A socket refers to one       *)
(* thunk, that of its last successful bind(), which is named by the pcb it *)
(* was made for.  The library never gets a pcb back.  Socket and thunk, or *)
(* client and thunk, refer to each other and nothing of the stack refers   *)
(* to them: when user code lets go of one, Python may free both, whatever  *)
(* the library still points to.                                            *)
(*                                                                         *)
(* lwIP and the ping application it comes with are not part of the         *)
(* repository.  udp_new_ip_type returns NULL when the pcbs are used up,    *)
(* udp_bind fails for a port in use, pbuf_alloc returns NULL without       *)
(* memory, and ping_result may be called any time after the first ping,    *)
(* since the application goes on pinging periodically.                     *)
(*                                                                         *)
(* A definition named X_Something is X with a plausible mistake; nothing   *)
(* uses it, it shows that the properties would notice that mistake.        *)
(***************************************************************************)
EXTENDS Integers

CONSTANTS
    Sockets,    \* the UdpSockets of the stack
    Clients,    \* its PingClients
    Ports,      \* the ports the sockets are bound to
    NoOne,      \* no socket, no client
    NumPcbs,    \* MEMP_NUM_UDP_PCB
    NumHeap,    \* the buffers that fit in MEM_SIZE, the heap
    NumPool,    \* PBUF_POOL_SIZE
    MaxPings    \* bound: the number of calls of ping()

ASSUME StackAssumption ==
    /\ Sockets \cap Clients = {}
    /\ NoOne \notin Sockets \cup Clients
    /\ Ports \subseteq Nat \ {0}
    /\ NumPcbs \in Nat /\ NumHeap \in Nat /\ NumPool \in Nat /\ MaxPings \in Nat

VARIABLES
    used,        \* the pcbs 1 .. used are allocated
    port,        \* the port a pcb is bound to, 0 if to none
    recv,        \* the socket whose thunk the pcb calls
    pcb,         \* socket._pcb, 0 for None
    thunk,       \* socket._internal_callback, 0 before the first bind()
    rxCallback,  \* whether socket._rx_callback is set
    heap,        \* the buffers of the heap in use
    pool,        \* the buffers of the pool in use
    pings,       \* the number of calls of ping()
    pingCbk,     \* ping_cbk of ping_result.c: the client whose thunk it is
    callback,    \* client._ping_callback: the ping it was passed to, or 0
    called,      \* how often the callback passed to a ping was called
    chain,       \* the buffers of the datagram the library handles, or 0
    dest,        \* the port that datagram is for, 0 if there is none
    running,     \* whose user callback runs, inside the library
    part,        \* the buffers it got of the datagram, and those there were
    live,        \* the sockets and clients that Python has not freed
    broken       \* the library called a thunk that no longer lives

udpVars  == <<used, port, recv, pcb, thunk, rxCallback>>
memVars  == <<heap, pool, chain, dest>>
pingVars == <<pings, pingCbk, callback, called>>
runVars  == <<running, part>>
lifeVars == <<live, broken>>
vars == <<udpVars, memVars, pingVars, runVars, lifeVars>>

Pcbs == 1 .. NumPcbs

TypeOK ==
    /\ used \in 0 .. NumPcbs
    /\ port \in [Pcbs -> Ports \cup {0}]
    /\ recv \in [Pcbs -> Sockets \cup {NoOne}]
    /\ pcb \in [Sockets -> 0 .. used]
    /\ thunk \in [Sockets -> 0 .. used]
    /\ rxCallback \in [Sockets -> BOOLEAN]
    /\ heap \in 0 .. NumHeap
    /\ pool \in 0 .. NumPool
    /\ chain \in 0 .. NumPool
    /\ dest \in Ports \cup {0}
    /\ pings \in 0 .. MaxPings
    /\ pingCbk \in Clients \cup {NoOne}
    /\ callback \in [Clients -> 0 .. pings]
    /\ called \in [1 .. MaxPings -> Nat]
    /\ running \in Sockets \cup Clients \cup {NoOne}
    /\ part \in (0 .. NumPool) \X (0 .. NumPool)
    /\ live \subseteq Sockets \cup Clients
    /\ broken \in BOOLEAN

Init ==
    /\ used = 0
    /\ port = [i \in Pcbs |-> 0]
    /\ recv = [i \in Pcbs |-> NoOne]
    /\ pcb = [s \in Sockets |-> 0]
    /\ thunk = [s \in Sockets |-> 0]
    /\ rxCallback = [s \in Sockets |-> FALSE]
    /\ heap = 0
    /\ pool = 0
    /\ chain = 0
    /\ dest = 0
    /\ pings = 0
    /\ pingCbk = NoOne
    /\ callback = [c \in Clients |-> 0]
    /\ called = [n \in 1 .. MaxPings |-> 0]
    /\ running = NoOne
    /\ part = <<0, 0>>
    /\ live = Sockets \cup Clients
    /\ broken = FALSE

-----------------------------------------------------------------------------
(* UdpSocket                                                               *)

(* udp_new_ip_type; at used = NumPcbs it returns NULL and .contents raises. *)
NewPcb(s) ==
    /\ used < NumPcbs
    /\ used' = used + 1
    /\ pcb' = [pcb EXCEPT ![s] = used + 1]

(* StackException, or whatever a malformed address raises. *)
AfterError_ThunkMade(s) == thunk' = [thunk EXCEPT ![s] = used + 1]
AfterError(s) == UNCHANGED thunk

BindRaises(s) ==
    /\ NewPcb(s)
    /\ AfterError(s)
    /\ UNCHANGED <<port, recv, rxCallback, memVars, pingVars, runVars,
                   lifeVars>>

InUse(p) == \E i \in 1 .. used : port[i] = p

KeepThunk_Temporary(s, i) == UNCHANGED thunk
KeepThunk(s, i) == thunk' = [thunk EXCEPT ![s] = i]

BindSucceeds(s, p) ==
    /\ ~ InUse(p)
    /\ NewPcb(s)
    /\ port' = [port EXCEPT ![used + 1] = p]
    /\ recv' = [recv EXCEPT ![used + 1] = s]
    /\ KeepThunk(s, used + 1)
    /\ UNCHANGED <<rxCallback, memVars, pingVars, runVars, lifeVars>>

Bind(s) == BindRaises(s) \/ \E p \in Ports : BindSucceeds(s, p)

(* allocate_transport_pbuf_from_data; without memory .contents raises. *)
TakeHeap == heap < NumHeap /\ heap' = heap + 1

(* The buffer is never given back, whatever udp_sendto returns. *)
SendTo(s) ==
    /\ TakeHeap
    /\ UNCHANGED <<udpVars, pool, chain, dest, pingVars, runVars, lifeVars>>

SetRecvCallback(s, given) ==
    /\ rxCallback' = [rxCallback EXCEPT ![s] = given]
    /\ UNCHANGED <<used, port, recv, pcb, thunk, memVars, pingVars, runVars,
                   lifeVars>>

-----------------------------------------------------------------------------
(* NetIf.input_data with a datagram, and what comes of it.                 *)

(* allocate_raw_pbuf_from_data; without n buffers .contents raises. *)
InputDatagram(n, p) ==
    /\ running = NoOne
    /\ chain = 0
    /\ pool + n <= NumPool
    /\ pool' = pool + n
    /\ chain' = n
    /\ dest' = p
    /\ UNCHANGED <<udpVars, heap, pingVars, runVars, lifeVars>>

FreePbuf_Twice == pool' = pool - 2 * chain
FreePbuf_FirstOnly == pool' = pool - 1
FreePbuf == pool' = pool - chain

Done == chain' = 0 /\ dest' = 0

(* No pcb, or one without a callback: the library frees the datagram. *)
Discard ==
    /\ chain # 0
    /\ \A i \in 1 .. used : port[i] = dest => recv[i] = NoOne
    /\ pool' = pool - chain
    /\ Done
    /\ UNCHANGED <<udpVars, heap, pingVars, runVars, lifeVars>>

(* Of a chain of n buffers, those whose length pbuf.contents.len covers. *)
Copied(n) == 1

(* The pcb calls a thunk that its socket still has. *)
Reachable(i) == recv[i] \in live /\ thunk[recv[i]] = i

(* _recv_callback copies the data, frees the buffers and calls the user. *)
RecvCallback(i) ==
    /\ chain # 0
    /\ port[i] = dest
    /\ Reachable(i)
    /\ FreePbuf
    /\ Done
    /\ IF rxCallback[recv[i]]
       THEN running' = recv[i] /\ part' = <<Copied(chain), chain>>
       ELSE UNCHANGED runVars
    /\ UNCHANGED <<udpVars, heap, pingVars, lifeVars>>

(* The thunk was replaced by a later bind(), or freed with its socket. *)
StrayCallback(i) ==
    /\ chain # 0
    /\ port[i] = dest
    /\ recv[i] # NoOne
    /\ ~ Reachable(i)
    /\ broken' = TRUE
    /\ UNCHANGED <<udpVars, memVars, pingVars, runVars, live>>

(* The user callback returns, or raises, which ctypes reports and ignores. *)
Return ==
    /\ running # NoOne
    /\ running' = NoOne
    /\ part' = <<0, 0>>
    /\ UNCHANGED <<udpVars, memVars, pingVars, lifeVars>>

-----------------------------------------------------------------------------
(* PingClient                                                              *)

(* set_ping_callback with the client's new thunk. *)
Register_IfNone(c) == pingCbk' = IF pingCbk = NoOne THEN c ELSE pingCbk
Register(c) == pingCbk' = c

Ping(c, given) ==
    /\ pings < MaxPings
    /\ pings' = pings + 1
    /\ callback' = [callback EXCEPT ![c] = IF given THEN pings + 1 ELSE 0]
    /\ Register(c)
    /\ UNCHANGED <<udpVars, memVars, called, runVars, lifeVars>>

(* set_ping_callback with a null function, and self._ping_callback = None. *)
Disarm_Nothing(c) == UNCHANGED <<pingCbk, callback>>
Disarm(c) ==
    /\ pingCbk' = NoOne
    /\ callback' = [callback EXCEPT ![c] = 0]

(* ping_result and _ping_callback_internal; the user's callback comes last. *)
PingResult ==
    /\ running = NoOne
    /\ chain = 0
    /\ pingCbk \in live
    /\ LET n == callback[pingCbk]
       IN  /\ called' = IF n = 0 THEN called ELSE [called EXCEPT ![n] = @ + 1]
           /\ running' = IF n = 0 THEN NoOne ELSE pingCbk
    /\ Disarm(pingCbk)
    /\ UNCHANGED <<udpVars, memVars, pings, part, lifeVars>>

(* The client was freed while its ping was under way. *)
StrayResult ==
    /\ running = NoOne
    /\ chain = 0
    /\ pingCbk # NoOne
    /\ pingCbk \notin live
    /\ broken' = TRUE
    /\ UNCHANGED <<udpVars, memVars, pingVars, runVars, live>>

-----------------------------------------------------------------------------
(***************************************************************************)
(* User code has let go of x and the collector, which runs in whichever    *)
(* thread allocates, frees x and its thunk.  A method of x that runs still *)
(* refers to x.  Nothing tells the library: there is no udp_remove.        *)
(***************************************************************************)
Collect(x) ==
    /\ running # x
    /\ live' = live \ {x}
    /\ UNCHANGED <<udpVars, memVars, pingVars, runVars, broken>>

-----------------------------------------------------------------------------
(* User code, a task or a callback, runs when the library does not. *)
UserCall ==
    /\ chain = 0
    /\ \/ \E s \in Sockets \cap live : Bind(s) \/ SendTo(s)
       \/ \E s \in Sockets \cap live, given \in BOOLEAN :
              SetRecvCallback(s, given)
       \/ \E c \in Clients \cap live, given \in BOOLEAN : Ping(c, given)

Library ==
    \/ \E n \in 1 .. NumPool, p \in Ports : InputDatagram(n, p)
    \/ Discard
    \/ \E i \in 1 .. used : RecvCallback(i) \/ StrayCallback(i)
    \/ PingResult \/ StrayResult

Next ==
    /\ ~ broken
    /\ \/ UserCall
       \/ Library
       \/ Return
       \/ \E x \in live : Collect(x)

Spec == Init /\ [][Next]_vars

-----------------------------------------------------------------------------
(* Properties.                                                             *)

(***************************************************************************)
(* Whenever user code can run, in a task or inside a callback, all the     *)
(* buffers of the pool are back, so that nothing it does, raising          *)
(* included, can lose them and no number of datagrams uses up the pool.    *)
(***************************************************************************)
PoolIsWhole == chain = 0 => pool = 0

(* The ports that are served: their datagrams reach a live thunk. *)
Served == {<<port[i], recv[i]>> : i \in {j \in 1 .. used : Reachable(j)}}

(***************************************************************************)
(* A bind() that raises, of whichever socket and for whichever reason,     *)
(* costs no port its service, and neither does the end of another socket;  *)
(* a port loses it with its socket, or to a successful second bind() of    *)
(* the same socket, which is then served at the new port.                  *)
(***************************************************************************)
ServiceIsKept ==
    [][\A e \in Served \ Served' :
           e[2] \in live' => \E p \in Ports : <<p, e[2]>> \in Served']_vars

(* Pcb i calls for a socket that was bound successfully a second time. *)
BoundTwice(i) == \E j \in 1 .. used : j # i /\ recv[j] = recv[i]

(***************************************************************************)
(* What the library calls is alive as long as user code keeps the sockets  *)
(* it binds, binds each one once, and keeps a client until its result has  *)
(* come.  The dead thunk that a datagram reaches is that of a socket that  *)
(* was freed, or bound a second time while its first pcb stays bound; the  *)
(* one that a result reaches is that of a client freed before any result   *)
(* of the latest ping was handed on.                                       *)
(***************************************************************************)
StrayHasCause ==
    broken =>
        IF chain # 0
        THEN \E i \in 1 .. used :
                 /\ port[i] = dest /\ recv[i] # NoOne
                 /\ recv[i] \notin live \/ BoundTwice(i)
        ELSE pingCbk \notin live /\ called[pings] = 0

(***************************************************************************)
(* The callback of the latest ping is within reach while it waits: the     *)
(* library points to its client, whichever clients pinged before and       *)
(* whether the ping was sent from a task or from another ping's callback.  *)
(* (A client that is freed meanwhile takes its callback with it.)          *)
(***************************************************************************)
LatestPingIsArmed ==
    /\ \A c \in Clients : pings # 0 /\ callback[c] = pings => pingCbk = c
    /\ pingCbk # NoOne => callback[pingCbk] \in {0, pings}

(***************************************************************************)
(* However many results the periodic pings produce and however pings of    *)
(* several clients overlap, a callback is called for the latest ping only, *)
(* and only once.                                                          *)
(***************************************************************************)
ResultGoesToLatestPing ==
    [][\A n \in 1 .. MaxPings :
           called'[n] # called[n] => n = pings /\ called[n] = 0]_vars

(***************************************************************************)
(* The docstring of UdpSocket: it allows to "receive data", which is       *)
(* "forwarded via client specified callback".  The callback gets all of a  *)
(* datagram, however many buffers of the pool it arrived in.               *)
(***************************************************************************)
DatagramArrivesWhole == running \in Sockets => part[1] = part[2]
=============================================================================
