------------------------------ MODULE PingPong ------------------------------
(***************************************************************************)
(* lwip_py/examples/examples.py on the network of EthernetNetwork: two     *)
(* peers exchange datagrams that carry a counter, or the first pings the   *)
(* second, and the main thread stops the network when the peers have set   *)
(* their completion events.  No filter is installed.                       *)
(*                                                                         *)
(* Four threads take part: the main thread schedules the application's     *)
(* calls, peers answer in the thread of their host, the bus forwards.      *)
(* HostStack says what sockets and ping clients do inside a host; here a   *)
(* bound socket hands a datagram to _receive_data, and send_to takes a     *)
(* buffer of the heap that it never frees.                                 *)
(*                                                                         *)
(* lwIP resolves addresses, answers an ICMP echo and calls ping_result     *)
(* for the answer; the frames of the address resolution are left out.      *)
(*                                                                         *)
(* A definition named X_Something is X with a plausible mistake; nothing   *)
(* uses it, it shows that the properties would notice that mistake.        *)
(***************************************************************************)
EXTENDS EthernetNetwork

CONSTANTS
    MaxCounter,  \* the counter of the last datagram
    HeapSizes    \* how many datagrams the heap of the library may hold

One == Hosts[1]
Two == Hosts[2]

ASSUME PeersAssumption ==
    /\ Len(Hosts) = 2
    /\ \A h \in Host : Len(PortsOf(h)) = 1
    /\ Verdicts = {TRUE}
    /\ MaxCounter \in Nat \ {0}
    /\ HeapSizes \subseteq Nat \ {0}

VARIABLES
    scenario,    \* "udp-ping-pong" or "icmp-ping"
    memSize,     \* the datagrams that the heap of a library holds
    heap,        \* the datagrams on the heap, per host
    bound,       \* the hosts whose application has a bound socket
    completion,  \* the hosts whose completion event is set
    step,        \* where _run_example is between set_up_interfaces and stop
    lost         \* history: a frame was sent before the bus was running

appVars == <<scenario, memSize, heap, bound, completion, step, lost>>
allVars == <<vars, appVars>>

Datagram(n) == <<"udp", n>>
Echo == <<"echo", 0>>
EchoReply == <<"reply", 0>>

(* The only interface of a peer. *)
PortOf(h) == PortsOf(h)[1]

(* The tasks of host.execute. *)
StartTask == [kind |-> "start", by |-> MainThread]
PingTask == [kind |-> "ping", by |-> MainThread]
SendTask(n) == [kind |-> "send", by |-> NoOne, counter |-> n]

AppInit ==
    /\ Init
    /\ scenario \in {"udp-ping-pong", "icmp-ping"}
    /\ memSize \in HeapSizes
    /\ heap = [h \in Host |-> 0]
    /\ bound = {}
    /\ completion = {}
    /\ step = "first"
    /\ lost = FALSE

(* The network takes a step in which the application has no part. *)
Quiet(A) == A /\ UNCHANGED appVars

-----------------------------------------------------------------------------
(* The peers, in the threads of their hosts.                               *)

(* The interface of the peer sends. *)
Transmit(h, data) ==
    /\ Send(PortOf(h), data)
    /\ lost' = (lost \/ status[Bus] # "Running")

(* _send_ping; without memory send_to raises, in a task nobody waits for. *)
TakeHeap_Twice(h) == heap' = [heap EXCEPT ![h] = @ + 2]
TakeHeap_Freed(h) == UNCHANGED heap
TakeHeap(h) == heap' = [heap EXCEPT ![h] = @ + 1]
SendPing(h, n) ==
    \/ heap[h] < memSize /\ TakeHeap(h) /\ Transmit(h, Datagram(n))
    \/ heap[h] >= memSize /\ UNCHANGED <<heap, queue, lost>>

(* What a task of the application leaves alone. *)
AppTask(h, kind) ==
    /\ Begin(h, kind)
    /\ thread' = [thread EXCEPT ![h] = "busy"]
    /\ UNCHANGED <<status, toFinish, batch, todo, answered, mainVars, envVars,
                   histVars, scenario, memSize, completion, step>>

(* start of the first peer, start_and_send_ping of the second. *)
AppStart(h) ==
    /\ AppTask(h, "start")
    /\ bound' = bound \cup {h}
    /\ IF h = Two THEN SendPing(h, 1) ELSE UNCHANGED <<heap, queue, lost>>

AppSend(h) ==
    /\ AppTask(h, "send")
    /\ SendPing(h, Head(batch[h]).counter)
    /\ UNCHANGED bound

(* _PingApp.ping *)
AppPing(h) ==
    /\ AppTask(h, "ping")
    /\ Transmit(h, Echo)
    /\ UNCHANGED <<heap, bound>>

(***************************************************************************)
(* _receive_data: the answer is a task of its own.  The event is set for   *)
(* the last datagram and for the one before it.  Without a bound socket    *)
(* lwIP drops the datagram.                                                *)
(***************************************************************************)
Answer_Same(h, n) == Schedule(h, SendTask(n))
Answer(h, n) == Schedule(h, SendTask(n + 1))
Completes_OnlyLast(n) == n >= MaxCounter
Completes(n) == n + 1 >= MaxCounter
ReceiveData(h, n) ==
    /\ IF h \in bound /\ n < MaxCounter THEN Answer(h, n) ELSE UNCHANGED queue
    /\ completion' = IF h \in bound /\ Completes(n) THEN completion \cup {h}
                                                     ELSE completion
    /\ UNCHANGED lost

(* lwIP handles a frame, with a call of the application if there is one. *)
AppInput(h) ==
    /\ InputData(h)
    /\ LET data == Head(batch[h]).frame.data
       IN  \/ data[1] = "udp" /\ ReceiveData(h, data[2])
           \/ data = Echo /\ Transmit(h, EchoReply) /\ UNCHANGED completion
           \/ /\ data = EchoReply
              /\ completion' = completion \cup {h}
              /\ UNCHANGED <<queue, lost>>
           \/ data = Announcement /\ UNCHANGED <<queue, completion, lost>>
    /\ UNCHANGED <<replies, scenario, memSize, heap, bound, step>>

-----------------------------------------------------------------------------
(* _run_example                                                            *)

(* host.execute(...) up to .result() *)
Call(h, task, place) ==
    /\ main = "program"
    /\ Schedule(h, task)
    /\ main' = IF status[h] = "Running" THEN main ELSE "raised"
    /\ step' = place
    /\ UNCHANGED <<status, toFinish, batch, thread, todo, answered, turn,
                   envVars, histVars, scenario, memSize, heap, bound, completion,
                   lost>>

CallFirst ==
    /\ step = "first"
    /\ Call(One, IF scenario = "icmp-ping" THEN PingTask ELSE StartTask,
            "first result")

CallSecond == step = "second" /\ Call(Two, StartTask, "second result")

(* .result() returns. *)
CallReturns ==
    /\ main = "program"
    /\ step \in {"first result", "second result"}
    /\ HasResult(MainThread)
    /\ answered' = answered \ {MainThread}
    /\ step' = IF step = "first result" /\ scenario = "udp-ping-pong"
               THEN "second" ELSE "wait"
    /\ UNCHANGED <<status, toFinish, queue, batch, thread, todo, mainVars,
                   envVars, histVars, scenario, memSize, heap, bound, completion,
                   lost>>

(* The events are waited for one after the other; then comes stop(). *)
Awaited_OnlyFirst == {One}
Awaited == IF scenario = "icmp-ping" THEN {One} ELSE {One, Two}
WaitForCompletion ==
    /\ step = "wait"
    /\ Awaited \subseteq completion
    /\ Quiet(CallStop)

-----------------------------------------------------------------------------
AppMain ==
    \/ Quiet(Start \/ SetUp \/ Result \/ StopExecutor \/ Join)
    \/ CallFirst \/ CallSecond \/ CallReturns \/ WaitForCompletion

AppHost(h) ==
    \/ Quiet(Loop(h) \/ StartSetUp(h) \/ SetUpInterface(h))
    \/ AppStart(h) \/ AppSend(h) \/ AppPing(h) \/ AppInput(h)

AppNext == AppMain \/ Quiet(BusThread) \/ \E h \in Host : AppHost(h)

AppSpec == AppInit /\ [][AppNext]_allVars

(* Every thread goes on while it can. *)
AppFairSpec ==
    /\ AppSpec
    /\ WF_allVars(AppMain)
    /\ WF_allVars(Quiet(BusThread))
    /\ \A h \in Host : WF_allVars(AppHost(h))

-----------------------------------------------------------------------------
(* Properties.                                                             *)

AppTypeOK ==
    /\ scenario \in {"udp-ping-pong", "icmp-ping"}
    /\ memSize \in HeapSizes
    /\ heap \in [Host -> 0 .. memSize]
    /\ bound \subseteq Host
    /\ completion \subseteq Host
    /\ step \in {"first", "first result", "second", "second result", "wait"}
    /\ lost \in BOOLEAN

(* The payloads under way: on the bus, in a host or about to be sent. *)
UnderWay ==
    {t.frame.data : t \in {u \in UNION {Range(Waiting(x)) : x \in Executor} :
                               "frame" \in DOMAIN u}}
    \cup {Datagram(t.counter) : t \in {u \in UNION {Range(Waiting(h)) : h \in Host} :
                                           "counter" \in DOMAIN u}}
    \cup (IF todo[Bus] # <<>> THEN {Head(batch[Bus]).frame.data} ELSE {})

(* The datagrams that a peer has received. *)
DatagramFrames == [from : Port, nr : Nat, data : {"udp"} \X Nat]
Taken(h) == Filter(received[PortOf(h)], DatagramFrames)

(***************************************************************************)
(* The datagrams take turns: however the four threads interleave, at most  *)
(* one is under way, and a peer that has taken one has taken all of the    *)
(* other's before it, in order and once.                                   *)
(***************************************************************************)
DatagramsTakeTurns ==
    /\ Cardinality({d \in UnderWay : d[1] = "udp"}) <= 1
    /\ \A k \in 1 .. Len(Taken(One)) : Taken(One)[k].data = Datagram(2 * k - 1)
    /\ \A k \in 1 .. Len(Taken(Two)) : Taken(Two)[k].data = Datagram(2 * k)

(***************************************************************************)
(* network.stop() comes after the exchange: when the main thread calls it  *)
(* no datagram, echo or answer is under way that stop() could drop, and    *)
(* the last one has arrived.                                               *)
(***************************************************************************)
StopFollowsExchange ==
    main \in {"stop", "join", "done"} =>
        /\ UnderWay \subseteq {Announcement}
        /\ \E i \in Port : \E f \in Range(received[i]) :
               f.data = IF scenario = "icmp-ping" THEN EchoReply
                                                  ELSE Datagram(MaxCounter)

(* A heap has to hold all that its peer sends, half of the datagrams. *)
HeapSuffices == scenario = "icmp-ping" \/ 2 * memSize >= MaxCounter

(***************************************************************************)
(* The example ends, in both scenarios: the events are set and stop()      *)
(* joins every thread, unless the bus had not begun to run when a peer     *)
(* sent.  The heap must suffice, since send_to never frees a buffer.       *)
(***************************************************************************)
ExchangeEnds ==
    (main = "start" /\ HeapSuffices) ~> (main \in {"done", "raised"} \/ lost)

(***************************************************************************)
(* And without that memory it never ends: the send_to that finds none      *)
(* raises in a task nobody waits for, and the main thread waits for ever.  *)
(***************************************************************************)
LeakStopsExchange ==
    main = "stop" => HeapSuffices
=============================================================================
