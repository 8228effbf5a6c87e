-------------------------- MODULE EthernetNetwork --------------------------
(***************************************************************************)
(* lwip_py/emulation: a bus thread and a thread per host, each the worker  *)
(* of a SingleThreadExecutor, and the main thread, which starts them all,  *)
(* sets up the interfaces and stops them all, as EthernetNetwork does.     *)
(*                                                                         *)
(* A frame that an interface sends is a task of the bus; the bus makes it  *)
(* a task of the host of every other interface; the host feeds it to lwIP, *)
(* which may send a frame in turn.  Every task here has delay IMMEDIATE    *)
(* and priority TOP_PRIO, so an executor's queue is a sequence and all of  *)
(* it is due whenever the worker looks.                                    *)
(*                                                                         *)
(* The executor is SingleThreadExecutor with a coarser grain: stop(), and  *)
(* the "finally" of a task, are one step each.  What the finer grain of    *)
(* the two can do to _tasks_to_finish is the subject of that module.       *)
(*                                                                         *)
(* A host runs user code in the tasks of host.execute.  It may send, and   *)
(* it may set up interfaces of any host and wait for the result, which     *)
(* blocks the thread of its own host.                                      *)
(*                                                                         *)
(* lwIP itself is not part of the repository: it announces an interface    *)
(* when it is set up for the first time and may answer what it receives.   *)
(*                                                                         *)
(* A definition named X_Something is X with a plausible mistake; nothing   *)
(* uses it, it shows that the properties would notice that mistake.        *)
(***************************************************************************)
EXTENDS Integers, Sequences, FiniteSets, Functions, Filtering

CONSTANTS
    Bus,        \* the executor of the EthernetBus
    Hosts,      \* the hosts, in the order of add_host
    Ports,      \* the interfaces on the bus, in the order of add_interface
    HostOf,     \* the host that owns an interface
    Verdicts,   \* what the filters of the bus may decide about a frame
    NoOne,      \* the caller of a task whose future nobody waits for
    MainThread, \* the caller of a task whose future the main thread awaits
    MaxReplies  \* bound: the answers of lwIP and the calls of host.execute

Host == Range(Hosts)
Port == Range(Ports)
Executor == {Bus} \cup Host
Caller == Host \cup {MainThread}

ASSUME NetworkAssumption ==
    /\ Bus \notin Host
    /\ Hosts \in Seq(Host) /\ Hosts # <<>> /\ Ports \in Seq(Port)
    /\ IsInjective(Hosts) /\ IsInjective(Ports)
    /\ HostOf \in [Port -> Host]
    /\ Verdicts \subseteq BOOLEAN
    /\ MainThread \notin Executor /\ NoOne \notin Caller
    /\ MaxReplies \in Nat

VARIABLES
    status,    \* _status of every executor
    toFinish,  \* its _tasks_to_finish
    queue,     \* its _tasks
    batch,     \* its expired_tasks, the one in progress first
    thread,    \* where its worker thread is
    todo,      \* the interfaces that the task in progress still has to visit
    answered,  \* the callers whose awaited future has its result
    main,      \* where the main thread is: what it does ...
    turn,      \* ... and to which element of the order it does it
    replies,   \* the number of answers and calls that MaxReplies bounds
    calls,     \* calls of the status and link callbacks, per interface
    log,       \* what the observers of the bus were called with
    received,  \* the frames that lwIP got, per interface
    skipped,   \* history: who missed a frame while its host was running
    aborted,   \* history: the frames whose _broadcast raised Stopped
    early      \* history: the executors whose stop() preceded their run()

execVars == <<status, toFinish, queue, batch, thread, todo, answered>>
mainVars == <<main, turn>>
envVars  == <<replies, calls, log, received>>
histVars == <<skipped, aborted, early>>
vars == <<execVars, mainVars, envVars, histVars>>

PortsOf(h) == Filter(Ports, {i \in Port : HostOf[i] = h})

(* network.start() and network.stop() begin with the bus. *)
Order == <<Bus>> \o Hosts

(* Frames are told apart by their sender and its frames before it. *)
Payloads == {"arp", "udp", "echo", "reply"} \X Nat
Announcement == <<"arp", 0>>
FramesFrom(ports) == [from : ports, nr : Nat, data : Payloads]
Frames == FramesFrom(Port)

(* A task of an executor, and who waits for its future. *)
BroadcastTask(f) == [kind |-> "broadcast", by |-> NoOne, frame |-> f]
InputTask(i, f)  == [kind |-> "input", by |-> NoOne, on |-> i, frame |-> f]
SetUpTask(c)     == [kind |-> "set_up", by |-> c]
UserTask         == [kind |-> "user", by |-> NoOne]

BroadcastTasks(ports) ==
    [kind : {"broadcast"}, by : {NoOne}, frame : FramesFrom(ports)]
InputTasks(ports) == [kind : {"input"}, by : {NoOne}, on : ports, frame : Frames]

(* What the observers of the bus are told of the frames of some interfaces. *)
Entries(ports, decisions) == [frame : FramesFrom(ports), forward : decisions]

Init ==
    /\ status = [x \in Executor |-> "Stopped"]
    /\ toFinish = [x \in Executor |-> 0]
    /\ queue = [x \in Executor |-> <<>>]
    /\ batch = [x \in Executor |-> <<>>]
    /\ thread = [x \in Executor |-> "new"]
    /\ todo = [x \in Executor |-> <<>>]
    /\ answered = {}
    /\ main = "start"
    /\ turn = 1
    /\ replies = 0
    /\ calls = [i \in Port |-> 0]
    /\ log = <<>>
    /\ received = [i \in Port |-> <<>>]
    /\ skipped = {}
    /\ aborted = {}
    /\ early = {}

-----------------------------------------------------------------------------
(* The worker loop of executor x.                                          *)

Run(x) ==
    /\ thread[x] = "starting"
    /\ toFinish' = [toFinish EXCEPT ![x] = 0]
    /\ status' = [status EXCEPT ![x] = "Running"]
    /\ thread' = [thread EXCEPT ![x] = "loop"]
    /\ UNCHANGED <<queue, batch, todo, answered, mainVars, envVars, histVars>>

ShouldStop(x) ==
    \/ status[x] = "Stopped"
    \/ status[x] = "StoppedSync" /\ (queue[x] = <<>> \/ toFinish[x] = 0)

LeaveLoop(x) ==
    /\ thread[x] = "loop"
    /\ ShouldStop(x)
    /\ status' = [status EXCEPT ![x] = "Stopped"]
    /\ thread' = [thread EXCEPT ![x] = "ended"]
    /\ UNCHANGED <<toFinish, queue, batch, todo, answered, mainVars, envVars,
                   histVars>>

(* All of the queue has expired, since nothing is delayed. *)
Expired_OnlyFirst(x) == <<Head(queue[x])>>
Expired(x) == queue[x]

PopExpired(x) ==
    /\ thread[x] = "loop"
    /\ ~ ShouldStop(x)
    /\ queue[x] # <<>>
    /\ batch' = [batch EXCEPT ![x] = Expired(x)]
    /\ queue' = [queue EXCEPT ![x] = <<>>]
    /\ thread' = [thread EXCEPT ![x] = "next"]
    /\ UNCHANGED <<status, toFinish, todo, answered, mainVars, envVars,
                   histVars>>

EndBatch(x) ==
    /\ thread[x] = "next"
    /\ batch[x] = <<>>
    /\ thread' = [thread EXCEPT ![x] = "loop"]
    /\ UNCHANGED <<status, toFinish, queue, batch, todo, answered, mainVars,
                   envVars, histVars>>

(* The task's future gets its result or exception. *)
EndTask(x) ==
    /\ thread[x] = "busy"
    /\ todo[x] = <<>>
    /\ thread' = [thread EXCEPT ![x] = "finally"]
    /\ answered' = answered \cup ({Head(batch[x]).by} \ {NoOne})
    /\ UNCHANGED <<status, toFinish, queue, batch, todo, mainVars, envVars,
                   histVars>>

Finally(x) ==
    /\ thread[x] = "finally"
    /\ toFinish' = IF status[x] = "StoppedSync"
                   THEN [toFinish EXCEPT ![x] = @ - 1] ELSE toFinish
    /\ batch' = [batch EXCEPT ![x] = Tail(@)]
    /\ thread' = [thread EXCEPT ![x] = "next"]
    /\ UNCHANGED <<status, queue, todo, answered, mainVars, envVars, histVars>>

-----------------------------------------------------------------------------
(* The next task of executor x is of this kind. *)
Begin(x, kind) ==
    /\ thread[x] = "next"
    /\ batch[x] # <<>>
    /\ Head(batch[x]).kind = kind

(* schedule_delayed of executor x; when it raises Stopped, queue is left.  *)
Schedule_AtTheFront(x, task) ==
    queue' = IF status[x] = "Running" THEN [queue EXCEPT ![x] = <<task>> \o @]
                                      ELSE queue

Schedule(x, task) ==
    queue' = IF status[x] = "Running" THEN [queue EXCEPT ![x] = Append(@, task)]
                                      ELSE queue

(* The tasks that executor x has accepted, and those not yet in progress. *)
Accepted(x) == batch[x] \o queue[x]
Waiting(x) == IF thread[x] \in {"busy", "blocked", "finally"}
              THEN Tail(Accepted(x)) ELSE Accepted(x)

(* The frames of interface i that the bus has accepted so far. *)
FrameCount(i) ==
    Len(Filter(log, Entries({i}, BOOLEAN))) +
    Len(Filter(Waiting(Bus), BroadcastTasks({i})))

(***************************************************************************)
(* Interface i hands a frame to its link output, in its host's thread: the *)
(* bus schedules the broadcast.  If the bus raises Stopped the exception   *)
(* ends in the ctypes callback and the frame is lost.                      *)
(***************************************************************************)
Send(i, data) ==
    Schedule(Bus, BroadcastTask([from |-> i, nr |-> FrameCount(i) + 1,
                                 data |-> data]))

(* lwIP may answer what it receives. *)
MaySend(ports) ==
    \/ UNCHANGED <<queue, replies>>
    \/ /\ replies < MaxReplies
       /\ replies' = replies + 1
       /\ \E i \in ports : Send(i, Announcement)

-----------------------------------------------------------------------------
(* The tasks of a host.                                                    *)

StartSetUp(h) ==
    /\ Begin(h, "set_up")
    /\ thread' = [thread EXCEPT ![h] = "busy"]
    /\ todo' = [todo EXCEPT ![h] = PortsOf(h)]
    /\ UNCHANGED <<status, toFinish, queue, batch, answered, mainVars, envVars,
                   histVars>>

(* set_link_up calls the link callback, set_up the status callback. *)
CallBack(i) == calls' = [calls EXCEPT ![i] = @ + 2]

(***************************************************************************)
(* With both up lwIP announces the address of the interface; an interface  *)
(* that is up already is left alone.                                       *)
(***************************************************************************)
SetUpInterface(h) ==
    /\ thread[h] = "busy"
    /\ todo[h] # <<>>
    /\ LET i == Head(todo[h])
       IN  \/ calls[i] = 0 /\ CallBack(i) /\ Send(i, Announcement)
           \/ calls[i] # 0 /\ UNCHANGED <<calls, queue>>
    /\ todo' = [todo EXCEPT ![h] = Tail(@)]
    /\ UNCHANGED <<status, toFinish, batch, thread, answered, mainVars, replies,
                   log, received, histVars>>

(* interface.input_data: lwIP gets the frame. *)
InputData(h) ==
    /\ Begin(h, "input")
    /\ received' = [received EXCEPT ![Head(batch[h]).on] =
                        Append(@, Head(batch[h]).frame)]
    /\ thread' = [thread EXCEPT ![h] = "busy"]
    /\ UNCHANGED <<status, toFinish, batch, todo, answered, mainVars, calls,
                   log, histVars>>

Input(h) == InputData(h) /\ MaySend(Range(PortsOf(h)))

(* host.set_up_interfaces of host k, called by c, up to task.result(). *)
CallSetUp(k, c) == Schedule(k, SetUpTask(c))
HasResult_NotAwaited(c) == TRUE
HasResult(c) == c \in answered

(***************************************************************************)
(* A task of host.execute: it sends, does something else or sets up the    *)
(* interfaces of a host.  If that raises Stopped, so does the task.        *)
(***************************************************************************)
UserAction(h) ==
    /\ Begin(h, "user")
    /\ \/ /\ \/ UNCHANGED queue
             \/ \E i \in Range(PortsOf(h)) : Send(i, Announcement)
          /\ thread' = [thread EXCEPT ![h] = "busy"]
       \/ \E k \in Host :
             /\ CallSetUp(k, NoOne)
             /\ thread' = [thread EXCEPT ![h] = "busy"]
       \/ \E k \in Host :
             /\ CallSetUp(k, h)
             /\ thread' = [thread EXCEPT ![h] = IF status[k] = "Running"
                                                THEN "blocked" ELSE "busy"]
    /\ UNCHANGED <<status, toFinish, batch, todo, answered, mainVars, envVars,
                   histVars>>

(* task.result() returns in the thread of host h. *)
Resume(h) ==
    /\ thread[h] = "blocked"
    /\ HasResult(h)
    /\ answered' = answered \ {h}
    /\ thread' = [thread EXCEPT ![h] = "busy"]
    /\ UNCHANGED <<status, toFinish, queue, batch, todo, mainVars, envVars,
                   histVars>>

(* host.execute from some thread, counted by MaxReplies like an answer; if *)
(* it raises Stopped nothing changes.                                      *)
Execute(h) ==
    /\ replies < MaxReplies
    /\ status[h] = "Running"
    /\ replies' = replies + 1
    /\ Schedule(h, UserTask)
    /\ UNCHANGED <<status, toFinish, batch, thread, todo, answered, mainVars,
                   calls, log, received, histVars>>

-----------------------------------------------------------------------------
(* The task of the bus, _broadcast.                                        *)

Receivers_Echo(f) == Ports
Receivers(f) == Filter(Ports, Port \ {f.from})

(* The observers are told of every frame, whatever the decision. *)
Observe(f, forward) == log' = Append(log, [frame |-> f, forward |-> forward])

StartBroadcast ==
    /\ Begin(Bus, "broadcast")
    /\ LET f == Head(batch[Bus]).frame
       IN  \E forward \in Verdicts :
               /\ Observe(f, forward)
               /\ todo' = [todo EXCEPT ![Bus] =
                               IF forward THEN Receivers(f) ELSE <<>>]
    /\ thread' = [thread EXCEPT ![Bus] = "busy"]
    /\ UNCHANGED <<status, toFinish, queue, batch, answered, mainVars, replies,
                   calls, received, histVars>>

(***************************************************************************)
(* The callback of one interface, host.on_incoming_data.  When it raises   *)
(* Stopped, the exception ends _broadcast for the interfaces after it too. *)
(***************************************************************************)
Forward ==
    /\ thread[Bus] = "busy"
    /\ todo[Bus] # <<>>
    /\ LET f == Head(batch[Bus]).frame
           i == Head(todo[Bus])
           others == Tail(todo[Bus])
       IN  /\ Schedule(HostOf[i], InputTask(i, f))
           /\ \/ /\ status[HostOf[i]] = "Running"
                 /\ todo' = [todo EXCEPT ![Bus] = others]
                 /\ UNCHANGED <<skipped, aborted>>
              \/ /\ status[HostOf[i]] # "Running"
                 /\ todo' = [todo EXCEPT ![Bus] = <<>>]
                 /\ aborted' = aborted \cup {f}
                 /\ skipped' = skipped \cup
                        {<<f, j>> : j \in {k \in Range(others) :
                                               status[HostOf[k]] = "Running"}}
    /\ UNCHANGED <<status, toFinish, batch, thread, answered, mainVars, envVars,
                   early>>

-----------------------------------------------------------------------------
(* The main thread: start(), set_up_interfaces(), stop().                  *)

(* The loop over sequence s goes on, or the next call follows it. *)
NextTurn_OffByOne(s, again, after) ==
    IF turn <= Len(s) THEN main' = again /\ turn' = turn + 1
                      ELSE main' = after /\ turn' = 1

NextTurn(s, again, after) ==
    IF turn < Len(s) THEN main' = again /\ turn' = turn + 1
                     ELSE main' = after /\ turn' = 1

Start ==
    /\ main = "start"
    /\ thread' = [thread EXCEPT ![Order[turn]] = "starting"]
    /\ NextTurn(Order, "start", "set_up")
    /\ UNCHANGED <<status, toFinish, queue, batch, todo, answered, envVars,
                   histVars>>

(* Stopped ends the main thread; the other threads are left running. *)
SetUp ==
    /\ main = "set_up"
    /\ CallSetUp(Hosts[turn], MainThread)
    /\ main' = IF status[Hosts[turn]] = "Running" THEN "result" ELSE "raised"
    /\ UNCHANGED <<status, toFinish, batch, thread, todo, answered, turn,
                   envVars, histVars>>

Result ==
    /\ main = "result"
    /\ HasResult(MainThread)
    /\ answered' = answered \ {MainThread}
    /\ NextTurn(Hosts, "set_up", "program")
    /\ UNCHANGED <<status, toFinish, queue, batch, thread, todo, envVars,
                   histVars>>

(* The program that uses the network is done with it. *)
CallStop ==
    /\ main = "program"
    /\ main' = "stop"
    /\ UNCHANGED <<execVars, turn, envVars, histVars>>

(* executor.stop(sync=True) *)
StopStatus_NotWhenIdle(x) ==
    IF queue[x] = <<>> THEN status[x] ELSE "StoppedSync"
StopStatus(x) == IF queue[x] = <<>> THEN "Stopped" ELSE "StoppedSync"

StopExecutor ==
    /\ main = "stop"
    /\ LET x == Order[turn]
       IN  /\ toFinish' = [toFinish EXCEPT ![x] = Len(queue[x])]
           /\ status' = [status EXCEPT ![x] = StopStatus(x)]
           /\ early' = IF thread[x] = "starting" THEN early \cup {x} ELSE early
    /\ main' = "join"
    /\ UNCHANGED <<queue, batch, thread, todo, answered, turn, envVars, skipped,
                   aborted>>

Join ==
    /\ main = "join"
    /\ thread[Order[turn]] = "ended"
    /\ NextTurn(Order, "stop", "done")
    /\ UNCHANGED <<execVars, envVars, histVars>>

-----------------------------------------------------------------------------
Main == Start \/ SetUp \/ Result \/ CallStop \/ StopExecutor \/ Join

Loop(x) == Run(x) \/ LeaveLoop(x) \/ PopExpired(x) \/ EndBatch(x)
           \/ EndTask(x) \/ Finally(x)

HostThread(h) == Loop(h) \/ StartSetUp(h) \/ SetUpInterface(h) \/ Input(h)
                 \/ UserAction(h) \/ Resume(h)

BusThread == Loop(Bus) \/ StartBroadcast \/ Forward

Next == Main \/ BusThread \/ \E h \in Host : HostThread(h) \/ Execute(h)

Spec == Init /\ [][Next]_vars

(***************************************************************************)
(* Every thread goes on while it can.  Nobody has to call host.execute,    *)
(* and lwIP does not have to answer a frame.                               *)
(***************************************************************************)
FairSpec ==
    /\ Spec
    /\ WF_vars(Main)
    /\ WF_vars(BusThread)
    /\ \A h \in Host : WF_vars(HostThread(h))

-----------------------------------------------------------------------------
(* Properties.                                                             *)

(* The tasks of host.execute: UserTask, and the calls that the applications *)
(* of PingPong make.                                                        *)
UserTasks == {UserTask} \cup [kind : {"start", "ping"}, by : {MainThread}]
             \cup [kind : {"send"}, by : {NoOne}, counter : Nat]

(* The tasks of a host, with inputs for its own interfaces, and of the bus. *)
HostTasks(h) == InputTasks({i \in Port : HostOf[i] = h})
                \cup [kind : {"set_up"}, by : Caller \cup {NoOne}]
                \cup UserTasks
TasksOf(x) == IF x = Bus THEN BroadcastTasks(Port) ELSE HostTasks(x)

TypeOK ==
    /\ status \in [Executor -> {"Running", "Stopped", "StoppedSync"}]
    /\ toFinish \in [Executor -> Int]
    /\ \A x \in Executor :
           queue[x] \in Seq(TasksOf(x)) /\ batch[x] \in Seq(TasksOf(x))
    /\ DOMAIN queue = Executor /\ DOMAIN batch = Executor
    /\ thread \in [Executor -> {"new", "starting", "loop", "next", "busy",
                                "blocked", "finally", "ended"}]
    /\ todo \in [Executor -> Seq(Port)]
    /\ answered \subseteq Caller
    /\ main \in {"start", "set_up", "result", "program", "stop", "join", "done",
                 "raised"}
    /\ turn \in 1 .. Len(Order)
    /\ replies \in 0 .. MaxReplies
    /\ calls \in [Port -> {0, 2}]
    /\ log \in Seq(Entries(Port, BOOLEAN))
    /\ received \in [Port -> Seq(Frames)]
    /\ skipped \subseteq Frames \X Port
    /\ aborted \subseteq Frames
    /\ early \subseteq Executor

(* What the bus has forwarded, or tried to, to interface i. *)
ForwardedTo(i) ==
    LET entries == Filter(log, Entries(Port \ {i}, {TRUE}))
    IN  [n \in 1 .. Len(entries) |-> entries[n].frame]

(* What waits for interface i in its host, without the input in progress. *)
WaitingFor(i) ==
    LET inputs == Filter(Waiting(HostOf[i]), InputTasks({i}))
    IN  [n \in 1 .. Len(inputs) |-> inputs[n].frame]

(* What the broadcast in progress still has for interface i. *)
Underway(i) ==
    IF i \in Range(todo[Bus]) THEN <<Head(batch[Bus]).frame>> ELSE <<>>

(***************************************************************************)
(* The bus keeps the order: what an interface receives is, frame by frame  *)
(* and in this order, what the observers saw forwarded, never twice and    *)
(* never its own frame, although bus and hosts run at their own pace.      *)
(***************************************************************************)
ReceiversFollowTheBus ==
    \A i \in Port :
        LET got == received[i] \o WaitingFor(i)
            sent == ForwardedTo(i)
        IN  /\ \A n \in DOMAIN got : \E m \in DOMAIN sent : sent[m] = got[n]
            /\ \A n, m \in DOMAIN got, k, l \in DOMAIN sent :
                   n < m /\ sent[k] = got[n] /\ sent[l] = got[m] => k < l

(***************************************************************************)
(* Nothing is lost on the way: as long as no callback raised Stopped, what *)
(* an interface received, what waits in its host and what the bus is about *)
(* to hand over is all that was forwarded.                                 *)
(***************************************************************************)
NothingIsMissing ==
    aborted = {} =>
        \A i \in Port :
            received[i] \o WaitingFor(i) \o Underway(i) = ForwardedTo(i)

(***************************************************************************)
(* set_up_interfaces is synchronous: when it has returned, both callbacks  *)
(* of every interface have been called, in the threads of the hosts.       *)
(***************************************************************************)
SetUpIsSynchronous ==
    main \in {"program", "stop", "join", "done"} => \A i \in Port : calls[i] = 2

(* Hosts that wait for each other, or for a task of a worker that is gone. *)
Stuck ==
    \E S \in SUBSET Host \ {{}} :
        \A h \in S :
            /\ thread[h] = "blocked"
            /\ \E k \in S \cup {x \in Host : thread[x] = "ended"} :
                   SetUpTask(h) \in Range(Accepted(k))

(***************************************************************************)
(* The program ends: set_up_interfaces gets its results and stop() joins   *)
(* every thread.  It fails only when Stopped was raised in the main thread, *)
(* a stop() came before the executor's run(), which forgets it, or the     *)
(* synchronous set_up_interfaces was called in the threads of hosts so     *)
(* that they wait for themselves, for each other or for a task that the    *)
(* stop() of another host dropped.                                         *)
(***************************************************************************)
ProgramEnds == <>(main \in {"done", "raised"} \/ early # {} \/ Stuck)

(***************************************************************************)
(* tests/test_create_network.py: once start(), set_up_interfaces() and     *)
(* stop() are over, the observer of the bus was called once per interface. *)
(***************************************************************************)
ObserverSeesEveryInterface == main = "done" => Len(log) >= Len(Ports)

(***************************************************************************)
(* The docstring of broadcast: "Forward data to all interfaces connected   *)
(* to the bus."  No interface of a running host misses a forwarded frame.  *)
(***************************************************************************)
AllRunningHostsAreReached == skipped = {}
=============================================================================
