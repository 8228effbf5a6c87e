---------------------- MODULE EthernetNetwork_proofs ----------------------
(***************************************************************************)
(* Theorems about the network, for any number of hosts and interfaces, any *)
(* assignment of interfaces to hosts, any filters of the bus and any       *)
(* number of answers and calls.                                            *)
(***************************************************************************)
EXTENDS EthernetNetwork, Filtering_proofs

(* Where a worker is while a task of its batch is in progress. *)
Active == {"busy", "blocked", "finally"}

(* TypeOK, by the parts that the actions change together. *)
QueueTypes ==
    /\ DOMAIN queue = Executor /\ DOMAIN batch = Executor
    /\ \A x \in Executor :
           queue[x] \in Seq(TasksOf(x)) /\ batch[x] \in Seq(TasksOf(x))

WorkerTypes ==
    /\ status \in [Executor -> {"Running", "Stopped", "StoppedSync"}]
    /\ toFinish \in [Executor -> Int]
    /\ thread \in [Executor -> {"new", "starting", "loop", "next", "busy",
                                "blocked", "finally", "ended"}]
    /\ todo \in [Executor -> Seq(Port)]
    /\ answered \subseteq Caller

MainTypes ==
    /\ main \in {"start", "set_up", "result", "program", "stop", "join", "done",
                 "raised"}
    /\ turn \in 1 .. Len(Order)

EnvTypes ==
    /\ replies \in 0 .. MaxReplies
    /\ calls \in [Port -> {0, 2}]
    /\ log \in Seq(Entries(Port, BOOLEAN))
    /\ received \in [Port -> Seq(Frames)]
    /\ skipped \subseteq Frames \X Port
    /\ aborted \subseteq Frames
    /\ early \subseteq Executor

(* The worker of x has tasks, and interfaces to visit, only where it may. *)
WorkerInv(x) ==
    /\ thread[x] \in Active => batch[x] # <<>>
    /\ thread[x] \in {"new", "starting", "loop", "ended"} => batch[x] = <<>>
    /\ thread[x] # "busy" => todo[x] = <<>>

(* The loops of the main thread stay within their sequences. *)
MainInv ==
    /\ main \in {"set_up", "result"} => turn <= Len(Hosts)
    /\ main = "start" => \A k \in turn .. Len(Order) : thread[Order[k]] = "new"

ControlInv ==
    /\ QueueTypes /\ WorkerTypes /\ MainTypes /\ EnvTypes
    /\ \A x \in Executor : WorkerInv(x)
    /\ MainInv

-----------------------------------------------------------------------------
(* Facts about the constants and the records.                              *)

(* The hosts and the bus, as start() and stop() go through them. *)
LEMMA OrderFacts ==
    /\ Order \in Seq(Executor) /\ Len(Order) = Len(Hosts) + 1
    /\ Len(Hosts) \in Nat \ {0}
    /\ \A j, k \in 1 .. Len(Order) : Order[j] = Order[k] => j = k
    /\ \A k \in 1 .. Len(Order) : Order[k] \in Executor
    /\ \A k \in 1 .. Len(Hosts) : Hosts[k] \in Host /\ Hosts[k] \in Executor
    /\ Bus \in Executor /\ \A h \in Host : h \in Executor /\ h # Bus
<1> USE NetworkAssumption
<1>1. Hosts \in Seq(Host) /\ Len(Hosts) \in Nat \ {0}
  OBVIOUS
<1>2. \A k \in 1 .. Len(Hosts) : Hosts[k] \in Host
  BY <1>1
<1>3. /\ Order \in Seq(Executor) /\ Len(Order) = Len(Hosts) + 1 /\ Order[1] = Bus
      /\ \A k \in 2 .. Len(Order) : Order[k] = Hosts[k - 1]
  BY <1>1, <1>2 DEF Order, Executor
<1>4. \A j, k \in 1 .. Len(Hosts) : Hosts[j] = Hosts[k] => j = k
  BY <1>1 DEF IsInjective
<1>5. ASSUME NEW j \in 1 .. Len(Order), NEW k \in 1 .. Len(Order), Order[j] = Order[k]
      PROVE  j = k
  <2>0. \A m \in 2 .. Len(Order) : m - 1 \in 1 .. Len(Hosts)
    BY <1>1, <1>3
  <2>1. \A m \in 2 .. Len(Order) : m - 1 \in 1 .. Len(Hosts) /\ Order[m] \in Host
    BY <1>2, <1>3, <2>0
  <2>2. CASE j = 1 \/ k = 1
    BY <1>3, <1>5, <2>1, <2>2
  <2>3. CASE j # 1 /\ k # 1
    <3>1. j \in 2 .. Len(Order) /\ k \in 2 .. Len(Order)
      BY <1>1, <1>3, <2>3
    <3>2. j - 1 = k - 1
      BY <1>3, <1>4, <1>5, <2>1, <3>1
    <3>3. QED
      BY <3>1, <3>2
  <2>4. QED
    BY <2>2, <2>3
<1>6. QED
  BY <1>1, <1>2, <1>3, <1>5 DEF Executor

(* TypeOK in the groups in which the steps disturb it. *)
LEMMA TypesByParts == TypeOK <=> QueueTypes /\ WorkerTypes /\ MainTypes /\ EnvTypes
  BY DEF TypeOK, QueueTypes, WorkerTypes, MainTypes, EnvTypes

(* The interfaces of a host, as _set_up_interfaces visits them. *)
LEMMA PortsOfFacts ==
    ASSUME NEW h
    PROVE  PortsOf(h) \in Seq(Port) /\ Range(PortsOf(h)) = {i \in Port : HostOf[i] = h}
<1>1. Ports \in Seq(Port) /\ Range(Ports) = Port
  BY NetworkAssumption DEF Port
<1>2. /\ PortsOf(h) \in Seq(Port)
      /\ Range(PortsOf(h)) = Range(Ports) \cap {i \in Port : HostOf[i] = h}
  BY <1>1, FilterType DEF PortsOf
<1>3. QED
  BY <1>1, <1>2

(* The interfaces that _broadcast calls: all but the sender's, each once. *)
LEMMA ReceiversFacts ==
    ASSUME NEW f
    PROVE  /\ Receivers(f) \in Seq(Port) /\ Range(Receivers(f)) = Port \ {f.from}
           /\ IsInjective(Receivers(f))
<1>1. Ports \in Seq(Port) /\ Range(Ports) = Port /\ IsInjective(Ports)
  BY NetworkAssumption DEF Port
<1>2. /\ Receivers(f) \in Seq(Port) /\ IsInjective(Receivers(f))
      /\ Range(Receivers(f)) = Range(Ports) \cap (Port \ {f.from})
  BY <1>1, FilterType, FilterInjective DEF Receivers
<1>3. QED
  BY <1>1, <1>2

(* The tasks that are made have the type of the executor they are for. *)
LEMMA TaskTypes ==
    /\ \A f \in Frames : BroadcastTask(f) \in TasksOf(Bus)
    /\ \A i \in Port, f \in Frames : InputTask(i, f) \in TasksOf(HostOf[i])
    /\ \A h \in Host, c \in Caller \cup {NoOne} : SetUpTask(c) \in TasksOf(h)
    /\ \A h \in Host : UserTask \in TasksOf(h)
  BY NetworkAssumption
     DEF TasksOf, HostTasks, UserTasks, BroadcastTasks, InputTasks, BroadcastTask, InputTask,
         SetUpTask, UserTask, Frames

(* And the tasks of hosts and bus have the fields that are read of them. *)
LEMMA TaskFields ==
    /\ \A t \in TasksOf(Bus) : t.frame \in Frames /\ t.by = NoOne
                               /\ t.kind = "broadcast"
    /\ \A h \in Host : \A t \in TasksOf(h) :
           /\ t.by \in Caller \cup {NoOne}
           /\ t.kind \in {"input", "set_up", "user", "start", "ping", "send"}
           /\ t.kind = "input" => t.on \in Port /\ HostOf[t.on] = h /\ t.frame \in Frames
<1>1. \A t \in BroadcastTasks(Port) : t.frame \in Frames /\ t.by = NoOne
                                      /\ t.kind = "broadcast"
  BY DEF BroadcastTasks, Frames
<1>2. \A t \in UserTasks : t.by \in {MainThread, NoOne}
                           /\ t.kind \in {"user", "start", "ping", "send"}
  BY DEF UserTasks, UserTask
<1>3. \A t \in [kind : {"set_up"}, by : Caller \cup {NoOne}] \cup UserTasks :
          /\ t.by \in Caller \cup {NoOne}
          /\ t.kind \in {"set_up", "user", "start", "ping", "send"}
  BY <1>2 DEF Caller
<1>4. ASSUME NEW h \in Host, NEW t \in TasksOf(h)
      PROVE  /\ t.by \in Caller \cup {NoOne}
             /\ t.kind \in {"input", "set_up", "user", "start", "ping", "send"}
             /\ t.kind = "input" => t.on \in Port /\ HostOf[t.on] = h /\ t.frame \in Frames
  <2>1. \/ t \in InputTasks({i \in Port : HostOf[i] = h})
        \/ t \in [kind : {"set_up"}, by : Caller \cup {NoOne}] \cup UserTasks
    BY NetworkAssumption DEF TasksOf, HostTasks
  <2>2. CASE t \in InputTasks({i \in Port : HostOf[i] = h})
    BY <2>2 DEF InputTasks
  <2>3. CASE t \in [kind : {"set_up"}, by : Caller \cup {NoOne}] \cup UserTasks
    BY <1>3, <2>3
  <2>4. QED
    BY <2>1, <2>2, <2>3
<1>5. QED
  BY <1>1, <1>4 DEF TasksOf

-----------------------------------------------------------------------------
(* Steps of the main thread and of the workers keep the control invariant. *)

(* schedule_delayed adds a task at the end of one queue, or raises. *)
LEMMA ScheduleQueue ==
    ASSUME QueueTypes, NEW x \in Executor, NEW t \in TasksOf(x), Schedule(x, t)
    PROVE  /\ DOMAIN queue' = Executor
           /\ \A y \in Executor : queue'[y] \in Seq(TasksOf(y))
  BY DEF QueueTypes, Schedule

(* What the main thread relies on, when it does not move itself. *)
LEMMA MainUndisturbed ==
    ASSUME ControlInv, UNCHANGED mainVars,
           \A y \in Executor : thread[y] = "new" => thread'[y] = "new"
    PROVE  MainTypes' /\ MainInv'
  BY OrderFacts DEF ControlInv, mainVars, MainTypes, MainInv

(* A step that leaves the interfaces and the log alone keeps their types. *)
LEMMA EnvUndisturbed ==
    ASSUME ControlInv, UNCHANGED <<envVars, histVars>>
    PROVE  EnvTypes'
  BY DEF ControlInv, envVars, histVars, EnvTypes

(* The loop of _run and the tail of _process_task, of bus and hosts. *)
LEMMA LoopControl ==
    ASSUME ControlInv, NEW x \in Executor, Loop(x)
    PROVE  ControlInv'
<1> USE DEF ControlInv
<1>1. EnvTypes' /\ UNCHANGED mainVars
  BY EnvUndisturbed
     DEF Loop, Run, LeaveLoop, PopExpired, EndBatch, EndTask, Finally
<1>2. CASE Run(x)
  <2> USE <1>2 DEF Run
  <2>1. QueueTypes'
    BY DEF QueueTypes
  <2>2. WorkerTypes' /\ \A y \in Executor : thread[y] = "new" => thread'[y] = "new"
    BY DEF WorkerTypes
  <2>3. \A y \in Executor : WorkerInv(y)'
    BY DEF WorkerInv, WorkerTypes, Active
  <2>4. QED
    BY <1>1, <2>1, <2>2, <2>3, MainUndisturbed
<1>3. CASE LeaveLoop(x)
  <2> USE <1>3 DEF LeaveLoop
  <2>1. QueueTypes'
    BY DEF QueueTypes
  <2>2. WorkerTypes' /\ \A y \in Executor : thread[y] = "new" => thread'[y] = "new"
    BY DEF WorkerTypes
  <2>3. \A y \in Executor : WorkerInv(y)'
    BY DEF WorkerInv, WorkerTypes, Active
  <2>4. QED
    BY <1>1, <2>1, <2>2, <2>3, MainUndisturbed
<1>4. CASE PopExpired(x)
  <2> USE <1>4 DEF PopExpired, Expired
  <2>1. QueueTypes'
    BY DEF QueueTypes
  <2>2. WorkerTypes' /\ \A y \in Executor : thread[y] = "new" => thread'[y] = "new"
    BY DEF WorkerTypes
  <2>3. \A y \in Executor : WorkerInv(y)'
    BY DEF WorkerInv, WorkerTypes, QueueTypes, Active
  <2>4. QED
    BY <1>1, <2>1, <2>2, <2>3, MainUndisturbed
<1>5. CASE EndBatch(x)
  <2> USE <1>5 DEF EndBatch
  <2>1. QueueTypes'
    BY DEF QueueTypes
  <2>2. WorkerTypes' /\ \A y \in Executor : thread[y] = "new" => thread'[y] = "new"
    BY DEF WorkerTypes
  <2>3. \A y \in Executor : WorkerInv(y)'
    BY DEF WorkerInv, WorkerTypes, Active
  <2>4. QED
    BY <1>1, <2>1, <2>2, <2>3, MainUndisturbed
<1>6. CASE EndTask(x)
  <2> USE <1>6 DEF EndTask
  <2>1. QueueTypes'
    BY DEF QueueTypes
  <2>2. Head(batch[x]) \in TasksOf(x)
    BY DEF QueueTypes, WorkerInv, Active
  <2>3. Head(batch[x]).by \in Caller \cup {NoOne}
    BY <2>2, TaskFields DEF Executor
  <2>4. WorkerTypes' /\ \A y \in Executor : thread[y] = "new" => thread'[y] = "new"
    BY <2>3 DEF WorkerTypes
  <2>5. \A y \in Executor : WorkerInv(y)'
    BY DEF WorkerInv, WorkerTypes, Active
  <2>6. QED
    BY <1>1, <2>1, <2>4, <2>5, MainUndisturbed
<1>7. CASE Finally(x)
  <2> USE <1>7 DEF Finally
  <2>1. batch[x] # <<>>
    BY DEF WorkerInv, Active
  <2>2. QueueTypes'
    BY <2>1 DEF QueueTypes
  <2>3. WorkerTypes' /\ \A y \in Executor : thread[y] = "new" => thread'[y] = "new"
    BY DEF WorkerTypes
  <2>4. \A y \in Executor : WorkerInv(y)'
    BY DEF WorkerInv, WorkerTypes, QueueTypes, Active
  <2>5. QED
    BY <1>1, <2>2, <2>3, <2>4, MainUndisturbed
<1>8. QED
  BY <1>2, <1>3, <1>4, <1>5, <1>6, <1>7 DEF Loop

(* What waits for an executor are tasks of its own. *)
LEMMA WaitingType ==
    ASSUME ControlInv, NEW x \in Executor
    PROVE  Waiting(x) \in Seq(TasksOf(x))
<1>1. batch[x] \in Seq(TasksOf(x)) /\ queue[x] \in Seq(TasksOf(x))
  BY DEF ControlInv, QueueTypes
<1>2. thread[x] \in Active => batch[x] # <<>>
  BY DEF ControlInv, WorkerInv
<1>3. Accepted(x) \in Seq(TasksOf(x)) /\ (batch[x] # <<>> => Accepted(x) # <<>>)
  BY <1>1 DEF Accepted
<1>4. QED
  BY <1>2, <1>3 DEF Waiting, Active

(* The frames that an interface has sent are counted by a number. *)
LEMMA FrameCountType ==
    ASSUME ControlInv, NEW i
    PROVE  FrameCount(i) \in Nat
<1>1. Waiting(Bus) \in Seq(TasksOf(Bus)) /\ log \in Seq(Entries(Port, BOOLEAN))
  BY WaitingType, OrderFacts DEF ControlInv, EnvTypes
<1>2. /\ Filter(Waiting(Bus), BroadcastTasks({i})) \in Seq(TasksOf(Bus))
      /\ Filter(log, Entries({i}, BOOLEAN)) \in Seq(Entries(Port, BOOLEAN))
  BY <1>1, FilterType
<1>3. QED
  BY <1>2 DEF FrameCount

(* A frame that is sent is a task for the bus. *)
LEMMA SendSchedules ==
    ASSUME ControlInv, NEW i \in Port, NEW data \in Payloads, Send(i, data)
    PROVE  \E t \in TasksOf(Bus) : Schedule(Bus, t)
<1> DEFINE f == [from |-> i, nr |-> FrameCount(i) + 1, data |-> data]
<1>1. f \in Frames
  BY FrameCountType DEF Frames, FramesFrom
<1>2. BroadcastTask(f) \in TasksOf(Bus)
  BY <1>1, TaskTypes
<1>3. QED
  BY <1>2 DEF Send

(* Sending an announcement keeps the types of the queues. *)
LEMMA SendQueue ==
    ASSUME ControlInv, NEW i \in Port, Send(i, Announcement)
    PROVE  DOMAIN queue' = Executor /\ \A y \in Executor : queue'[y] \in Seq(TasksOf(y))
<1>1. Announcement \in Payloads
  BY DEF Announcement, Payloads
<1>2. PICK t \in TasksOf(Bus) : Schedule(Bus, t)
  BY <1>1, SendSchedules
<1>3. QED
  BY <1>2, OrderFacts, ScheduleQueue DEF ControlInv

(* The tasks of a host, and what lwIP and user code do in them. *)
LEMMA HostControl ==
    ASSUME ControlInv, NEW h \in Host,
           StartSetUp(h) \/ SetUpInterface(h) \/ Input(h) \/ UserAction(h) \/ Resume(h)
               \/ Execute(h)
    PROVE  ControlInv'
<1> USE DEF ControlInv
<1>0. h \in Executor
  BY OrderFacts
<1>1. CASE StartSetUp(h)
  <2> USE <1>1 DEF StartSetUp, Begin
  <2>1. QueueTypes' /\ EnvTypes'
    BY EnvUndisturbed DEF QueueTypes
  <2>2. WorkerTypes' /\ \A y \in Executor : thread[y] = "new" => thread'[y] = "new"
    BY PortsOfFacts DEF WorkerTypes
  <2>3. \A y \in Executor : WorkerInv(y)'
    BY DEF WorkerInv, WorkerTypes, Active
  <2>4. QED
    BY <2>1, <2>2, <2>3, MainUndisturbed
<1>2. CASE SetUpInterface(h)
  <2> USE <1>2 DEF SetUpInterface
  <2>1. Head(todo[h]) \in Port /\ Tail(todo[h]) \in Seq(Port)
    BY <1>0 DEF WorkerTypes
  <2>2. QueueTypes'
    BY <2>1, SendQueue DEF QueueTypes
  <2>3. EnvTypes'
    <3>1. calls' \in [Port -> {0, 2}]
      <4>1. CASE calls[Head(todo[h])] = 0 /\ CallBack(Head(todo[h]))
        BY <2>1, <4>1 DEF EnvTypes, CallBack
      <4>2. CASE UNCHANGED calls
        BY <4>2 DEF EnvTypes
      <4>3. QED
        BY <4>1, <4>2
    <3>2. QED
      BY <3>1 DEF EnvTypes, histVars
  <2>4. WorkerTypes' /\ \A y \in Executor : thread[y] = "new" => thread'[y] = "new"
    BY <2>1 DEF WorkerTypes
  <2>5. \A y \in Executor : WorkerInv(y)'
    BY DEF WorkerInv, WorkerTypes, Active
  <2>6. QED
    BY <2>2, <2>3, <2>4, <2>5, MainUndisturbed
<1>3. CASE Input(h)
  <2> USE <1>3 DEF Input, InputData, Begin
  <2>1. Head(batch[h]) \in TasksOf(h)
    BY <1>0 DEF QueueTypes
  <2>2. Head(batch[h]).on \in Port /\ Head(batch[h]).frame \in Frames
    BY <2>1, TaskFields
  <2>3. QueueTypes'
    BY SendQueue, PortsOfFacts DEF QueueTypes, MaySend
  <2>4. EnvTypes'
    <3>1. replies' \in 0 .. MaxReplies
      BY NetworkAssumption DEF EnvTypes, MaySend
    <3>2. received' \in [Port -> Seq(Frames)]
      BY <2>2 DEF EnvTypes
    <3>3. QED
      BY <3>1, <3>2 DEF EnvTypes, histVars
  <2>5. WorkerTypes' /\ \A y \in Executor : thread[y] = "new" => thread'[y] = "new"
    BY DEF WorkerTypes
  <2>6. \A y \in Executor : WorkerInv(y)'
    BY DEF WorkerInv, WorkerTypes, Active
  <2>7. QED
    BY <2>3, <2>4, <2>5, <2>6, MainUndisturbed
<1>4. CASE UserAction(h)
  <2> USE <1>4 DEF UserAction, Begin
  <2>1. QueueTypes'
    <3>1. ASSUME NEW k \in Host, NEW c \in Caller \cup {NoOne}, CallSetUp(k, c)
          PROVE  QueueTypes'
      BY <3>1, TaskTypes, OrderFacts, ScheduleQueue DEF CallSetUp, QueueTypes
    <3>2. ASSUME NEW i \in Range(PortsOf(h)), Send(i, Announcement)
          PROVE  QueueTypes'
      BY <3>2, SendQueue, PortsOfFacts DEF QueueTypes
    <3>3. h \in Caller
      BY DEF Caller
    <3>4. QED
      BY <3>1, <3>2, <3>3 DEF QueueTypes
  <2>2. EnvTypes'
    BY EnvUndisturbed
  <2>3. WorkerTypes' /\ \A y \in Executor : thread[y] = "new" => thread'[y] = "new"
    BY DEF WorkerTypes
  <2>4. \A y \in Executor : WorkerInv(y)'
    BY DEF WorkerInv, WorkerTypes, Active
  <2>5. QED
    BY <2>1, <2>2, <2>3, <2>4, MainUndisturbed
<1>5. CASE Resume(h)
  <2> USE <1>5 DEF Resume
  <2>1. QueueTypes' /\ EnvTypes'
    BY EnvUndisturbed DEF QueueTypes
  <2>2. WorkerTypes' /\ \A y \in Executor : thread[y] = "new" => thread'[y] = "new"
    BY DEF WorkerTypes
  <2>3. \A y \in Executor : WorkerInv(y)'
    BY DEF WorkerInv, WorkerTypes, Active
  <2>4. QED
    BY <2>1, <2>2, <2>3, MainUndisturbed
<1>6. CASE Execute(h)
  <2> USE <1>6 DEF Execute
  <2>1. QueueTypes'
    BY <1>0, TaskTypes, ScheduleQueue DEF QueueTypes
  <2>2. EnvTypes'
    BY NetworkAssumption DEF EnvTypes, histVars
  <2>3. WorkerTypes' /\ \A y \in Executor : WorkerInv(y)'
    BY DEF WorkerTypes, WorkerInv
  <2>4. QED
    BY <2>1, <2>2, <2>3, MainUndisturbed
<1>7. QED
  BY <1>1, <1>2, <1>3, <1>4, <1>5, <1>6

(* The broadcast of the bus. *)
LEMMA BusControl ==
    ASSUME ControlInv, StartBroadcast \/ Forward
    PROVE  ControlInv'
<1> USE DEF ControlInv
<1>0. Bus \in Executor
  BY OrderFacts
<1>1. CASE StartBroadcast
  <2> USE <1>1 DEF StartBroadcast, Begin
  <2> DEFINE f == Head(batch[Bus]).frame
  <2>1. f \in Frames
    BY <1>0, TaskFields DEF QueueTypes
  <2>2. PICK forward \in Verdicts :
            /\ log' = Append(log, [frame |-> f, forward |-> forward])
            /\ todo' = [todo EXCEPT ![Bus] = IF forward THEN Receivers(f) ELSE <<>>]
    BY DEF Observe
  <2> HIDE DEF f
  <2>3. EnvTypes'
    <3>1. [frame |-> f, forward |-> forward] \in Entries(Port, BOOLEAN)
      BY <2>1, NetworkAssumption DEF Entries, Frames
    <3>2. log' \in Seq(Entries(Port, BOOLEAN))
      BY <2>2, <3>1 DEF EnvTypes
    <3>3. QED
      BY <3>2 DEF EnvTypes, histVars
  <2>4. QueueTypes'
    BY DEF QueueTypes
  <2>5. WorkerTypes' /\ \A y \in Executor : thread[y] = "new" => thread'[y] = "new"
    <3>1. Receivers(f) \in Seq(Port) /\ <<>> \in Seq(Port)
      BY ReceiversFacts
    <3>2. todo' \in [Executor -> Seq(Port)]
      BY <2>2, <3>1 DEF WorkerTypes
    <3>3. QED
      BY <3>2 DEF WorkerTypes
  <2>6. \A y \in Executor : WorkerInv(y)'
    BY <2>2 DEF WorkerInv, WorkerTypes, Active
  <2>7. QED
    BY <2>3, <2>4, <2>5, <2>6, MainUndisturbed
<1>2. CASE Forward
  <2> USE <1>2 DEF Forward
  <2> DEFINE f == Head(batch[Bus]).frame
             i == Head(todo[Bus])
  <2>1. batch[Bus] # <<>>
    BY <1>0 DEF WorkerInv, Active
  <2>2. f \in Frames
    BY <1>0, <2>1, TaskFields DEF QueueTypes
  <2>3. i \in Port /\ Tail(todo[Bus]) \in Seq(Port) /\ Range(Tail(todo[Bus])) \subseteq Port
    BY <1>0 DEF WorkerTypes, Range
  <2>4. HostOf[i] \in Host /\ HostOf[i] \in Executor
    BY <2>3, NetworkAssumption, OrderFacts
  <2>5. QueueTypes'
    BY <2>2, <2>3, <2>4, TaskTypes, ScheduleQueue DEF QueueTypes
  <2>6. EnvTypes'
    <3>1. aborted' \subseteq Frames
      BY <2>2 DEF EnvTypes
    <3>2. skipped' \subseteq Frames \X Port
      BY <2>2, <2>3 DEF EnvTypes
    <3>3. QED
      BY <3>1, <3>2 DEF EnvTypes, envVars
  <2>7. WorkerTypes' /\ \A y \in Executor : thread[y] = "new" => thread'[y] = "new"
    <3>1. \/ todo' = [todo EXCEPT ![Bus] = Tail(todo[Bus])]
          \/ todo' = [todo EXCEPT ![Bus] = <<>>]
      OBVIOUS
    <3>2. todo' \in [Executor -> Seq(Port)]
      <4> HIDE <1>2 DEF Forward
      <4>1. <<>> \in Seq(Port)
        OBVIOUS
      <4>2. QED
        BY <2>3, <3>1, <4>1 DEF WorkerTypes
    <3>3. QED
      BY <3>2 DEF WorkerTypes
  <2>8. \A y \in Executor : WorkerInv(y)'
    BY DEF WorkerInv, WorkerTypes, Active
  <2>9. QED
    BY <2>5, <2>6, <2>7, <2>8, MainUndisturbed
<1>3. QED
  BY <1>1, <1>2

(* The main thread. *)
LEMMA MainControl ==
    ASSUME ControlInv, Main
    PROVE  ControlInv'
<1> USE DEF ControlInv
<1>1. CASE Start
  <2> USE <1>1 DEF Start
  <2>1. Order[turn] \in Executor /\ thread[Order[turn]] = "new"
    BY OrderFacts DEF MainTypes, MainInv
  <2>2. QueueTypes' /\ EnvTypes'
    BY EnvUndisturbed DEF QueueTypes
  <2>3. WorkerTypes'
    BY <2>1 DEF WorkerTypes
  <2>4. \A y \in Executor : WorkerInv(y)'
    BY <2>1 DEF WorkerInv, WorkerTypes, Active
  <2>5. MainTypes'
    BY OrderFacts DEF MainTypes, NextTurn
  <2>6. MainInv'
    <3>1. CASE turn < Len(Order)
      <4>1. main' = "start" /\ turn' = turn + 1
        BY <3>1 DEF NextTurn
      <4>2. \A k \in turn' .. Len(Order) : Order[k] # Order[turn] /\ Order[k] \in Executor
        BY <4>1, OrderFacts DEF MainTypes
      <4>3. \A k \in turn' .. Len(Order) : thread'[Order[k]] = "new"
        BY <4>1, <4>2, OrderFacts DEF MainTypes, MainInv, WorkerTypes
      <4>4. QED
        BY <4>1, <4>3 DEF MainInv
    <3>2. CASE ~ (turn < Len(Order))
      BY <3>2, OrderFacts DEF MainInv, NextTurn
    <3>3. QED
      BY <3>1, <3>2
  <2>7. QED
    BY <2>2, <2>3, <2>4, <2>5, <2>6
<1>2. CASE SetUp
  <2> USE <1>2 DEF SetUp
  <2>1. turn \in 1 .. Len(Hosts) /\ Hosts[turn] \in Host /\ Hosts[turn] \in Executor
    BY OrderFacts DEF MainTypes, MainInv
  <2>2. SetUpTask(MainThread) \in TasksOf(Hosts[turn])
    BY <2>1, TaskTypes DEF Caller
  <2>3. QueueTypes'
    BY <2>1, <2>2, ScheduleQueue DEF QueueTypes, CallSetUp
  <2>4. EnvTypes' /\ WorkerTypes'
    BY EnvUndisturbed DEF WorkerTypes
  <2>5. \A y \in Executor : WorkerInv(y)'
    BY DEF WorkerInv
  <2>6. MainTypes' /\ MainInv'
    BY <2>1 DEF MainTypes, MainInv
  <2>7. QED
    BY <2>3, <2>4, <2>5, <2>6
<1>3. CASE Result
  <2> USE <1>3 DEF Result
  <2>1. QueueTypes' /\ EnvTypes'
    BY EnvUndisturbed DEF QueueTypes
  <2>2. WorkerTypes' /\ \A y \in Executor : WorkerInv(y)'
    BY DEF WorkerTypes, WorkerInv
  <2>3. MainTypes' /\ MainInv'
    BY OrderFacts DEF MainTypes, MainInv, NextTurn
  <2>4. QED
    BY <2>1, <2>2, <2>3
<1>4. CASE CallStop
  <2> USE <1>4 DEF CallStop, execVars
  <2>1. QueueTypes' /\ EnvTypes'
    BY EnvUndisturbed DEF QueueTypes
  <2>2. WorkerTypes' /\ \A y \in Executor : WorkerInv(y)'
    BY DEF WorkerTypes, WorkerInv
  <2>3. MainTypes' /\ MainInv'
    BY DEF MainTypes, MainInv
  <2>4. QED
    BY <2>1, <2>2, <2>3
<1>5. CASE StopExecutor
  <2> USE <1>5 DEF StopExecutor, StopStatus
  <2>1. Order[turn] \in Executor
    BY OrderFacts DEF MainTypes
  <2>2. QueueTypes'
    BY DEF QueueTypes
  <2>3. EnvTypes'
    BY <2>1 DEF EnvTypes, envVars
  <2>4. WorkerTypes'
    BY <2>1 DEF WorkerTypes, QueueTypes
  <2>5. \A y \in Executor : WorkerInv(y)'
    BY DEF WorkerInv
  <2>6. MainTypes' /\ MainInv'
    BY DEF MainTypes, MainInv
  <2>7. QED
    BY <2>2, <2>3, <2>4, <2>5, <2>6
<1>6. CASE Join
  <2> USE <1>6 DEF Join, execVars
  <2>1. QueueTypes' /\ EnvTypes'
    BY EnvUndisturbed DEF QueueTypes
  <2>2. WorkerTypes' /\ \A y \in Executor : WorkerInv(y)'
    BY DEF WorkerTypes, WorkerInv
  <2>3. MainTypes' /\ MainInv'
    BY OrderFacts DEF MainTypes, MainInv, NextTurn
  <2>4. QED
    BY <2>1, <2>2, <2>3
<1>7. QED
  BY <1>1, <1>2, <1>3, <1>4, <1>5, <1>6 DEF Main

(* The invariant holds before start(). *)
LEMMA InitControl == Init => ControlInv
<1> SUFFICES ASSUME Init PROVE ControlInv
  OBVIOUS
<1> USE NetworkAssumption DEF Init
<1>1. QueueTypes
  BY DEF QueueTypes
<1>2. WorkerTypes
  BY DEF WorkerTypes
<1>3. MainTypes /\ MainInv
  BY OrderFacts DEF MainTypes, MainInv
<1>4. EnvTypes
  BY DEF EnvTypes
<1>5. \A x \in Executor : WorkerInv(x)
  BY DEF WorkerInv, Active
<1>6. QED
  BY <1>1, <1>2, <1>3, <1>4, <1>5 DEF ControlInv

(* A step that changes nothing keeps the invariant. *)
LEMMA StutterControl ==
    ASSUME ControlInv, UNCHANGED vars
    PROVE  ControlInv'
<1> USE DEF vars, execVars, mainVars, envVars, histVars, ControlInv
<1>1. QueueTypes' /\ WorkerTypes'
  BY DEF QueueTypes, WorkerTypes
<1>2. MainTypes' /\ MainInv'
  BY DEF MainTypes, MainInv
<1>3. EnvTypes'
  BY DEF EnvTypes
<1>4. \A x \in Executor : WorkerInv(x)'
  BY DEF WorkerInv
<1>5. QED
  BY <1>1, <1>2, <1>3, <1>4

(* Every step of the main thread, the bus and the hosts keeps the invariant. *)
LEMMA NextControl == ControlInv /\ [Next]_vars => ControlInv'
<1> SUFFICES ASSUME ControlInv, [Next]_vars PROVE ControlInv'
  OBVIOUS
<1>1. CASE Main
  BY <1>1, MainControl
<1>2. CASE BusThread
  BY <1>2, LoopControl, BusControl, OrderFacts DEF BusThread
<1>3. ASSUME NEW h \in Host, HostThread(h) \/ Execute(h) PROVE ControlInv'
  BY <1>3, LoopControl, HostControl, OrderFacts DEF HostThread
<1>4. CASE UNCHANGED vars
  BY <1>4, StutterControl
<1>5. QED
  BY <1>1, <1>2, <1>3, <1>4 DEF Next

(* So it holds throughout. *)
LEMMA AlwaysControl == Spec => []ControlInv
  BY InitControl, NextControl, PTL DEF Spec

(***************************************************************************)
(* Type correctness of the network: every queue holds tasks of its own     *)
(* executor only, frames name interfaces on the bus, and the loops of      *)
(* start(), set_up_interfaces() and stop() stay within their lists.        *)
(***************************************************************************)
THEOREM TypeCorrectness == Spec => []TypeOK
<1>1. ControlInv => TypeOK
  BY TypesByParts DEF ControlInv
<1>2. QED
  BY <1>1, AlwaysControl, PTL

-----------------------------------------------------------------------------
(* What the steps do to the tasks of an executor.                          *)

(* The accepted tasks whose futures have no result yet. *)
Unfinished(x) == IF thread[x] = "finally" THEN Tail(Accepted(x)) ELSE Accepted(x)

(* Sequence r is s with t added at its end. *)
Adds(s, t, r) == r = Append(s, t)

(* The tasks b and then q, all of them or without the first. *)
Whole(b, q) == b \o q
Later(b, q) == Tail(b \o q)

(* The tasks that wait, and those that are unfinished, in terms of the worker's place. *)
LEMMA WaitingCases ==
    ASSUME NEW x
    PROVE  /\ Waiting(x) = IF thread[x] \in Active THEN Later(batch[x], queue[x])
                                                   ELSE Whole(batch[x], queue[x])
           /\ Unfinished(x) = IF thread[x] = "finally" THEN Later(batch[x], queue[x])
                                                       ELSE Whole(batch[x], queue[x])
  BY DEF Waiting, Unfinished, Accepted, Whole, Later, Active

(* A new task comes last, all of the queue becomes the batch, and a task *)
(* that is done is gone from the batch.                                  *)
LEMMA LaterAppend ==
    ASSUME NEW T, NEW b \in Seq(T), NEW q \in Seq(T), NEW t \in T,
           NEW r, Adds(q, t, r)
    PROVE  /\ Adds(Whole(b, q), t, Whole(b, r))
           /\ b # <<>> => Adds(Later(b, q), t, Later(b, r))
<1>1. b \o Append(q, t) = Append(b \o q, t) /\ b \o q \in Seq(T)
  OBVIOUS
<1>2. b # <<>> => b \o q # <<>>
  OBVIOUS
<1>3. \A s \in Seq(T) : s # <<>> => Tail(Append(s, t)) = Append(Tail(s), t)
  OBVIOUS
<1>4. QED
  BY <1>1, <1>2, <1>3 DEF Whole, Later, Adds

(* The worker takes the whole queue as its batch. *)
LEMMA WholePop ==
    ASSUME NEW T, NEW q \in Seq(T)
    PROVE  Whole(q, <<>>) = Whole(<<>>, q)
  BY DEF Whole

(* What follows the first task of a batch, and the first task itself. *)
LEMMA LaterTail ==
    ASSUME NEW T, NEW b \in Seq(T), NEW q \in Seq(T), b # <<>>
    PROVE  /\ Whole(Tail(b), q) = Later(b, q)
           /\ Later(b, q) = Tail(Whole(b, q))
           /\ Whole(b, q) # <<>> /\ Head(Whole(b, q)) = Head(b)
<1>1. Tail(b) \o q = Tail(b \o q)
  OBVIOUS
<1>2. b \o q # <<>> /\ Head(b \o q) = Head(b)
  OBVIOUS
<1>3. QED
  BY <1>1, <1>2 DEF Whole, Later

(* A step of the loop leaves what waits; the end of a task settles it. *)
LEMMA LoopEffect ==
    ASSUME ControlInv, NEW x \in Executor, Loop(x), NEW y \in Executor
    PROVE  /\ Waiting(y)' = Waiting(y)
           /\ IF EndTask(x) /\ x = y
              THEN /\ Unfinished(y) # <<>>
                   /\ Unfinished(y)' = Tail(Unfinished(y))
                   /\ Head(Unfinished(y)) = Head(batch[y])
              ELSE Unfinished(y)' = Unfinished(y)
<1> DEFINE b == batch[y]
           q == queue[y]
           T == TasksOf(y)
<1>1. b \in Seq(T) /\ q \in Seq(T) /\ <<>> \in Seq(T)
  BY DEF ControlInv, QueueTypes
<1>2. DOMAIN queue = Executor /\ DOMAIN batch = Executor /\ DOMAIN thread = Executor
  BY DEF ControlInv, QueueTypes, WorkerTypes
<1>3. WorkerInv(x) /\ WorkerInv(y)
  BY DEF ControlInv
<1>4. /\ Waiting(y)' = IF thread'[y] \in Active THEN Later(batch'[y], queue'[y])
                                                 ELSE Whole(batch'[y], queue'[y])
      /\ Unfinished(y)' = IF thread'[y] = "finally" THEN Later(batch'[y], queue'[y])
                                                     ELSE Whole(batch'[y], queue'[y])
  BY DEF Waiting, Unfinished, Accepted, Whole, Later, Active
<1>5. CASE x # y
  <2>1. batch'[y] = b /\ queue'[y] = q /\ thread'[y] = thread[y]
    BY <1>2, <1>5 DEF Loop, Run, LeaveLoop, PopExpired, EndBatch, EndTask, Finally
  <2>2. QED
    BY <1>4, <1>5, <2>1, WaitingCases
<1>6. CASE x = y /\ (Run(x) \/ LeaveLoop(x) \/ EndBatch(x))
  <2>1. batch'[y] = b /\ queue'[y] = q /\ thread[y] \notin Active /\ thread'[y] \notin Active
        /\ ~ EndTask(x)
    BY <1>2, <1>6 DEF Run, LeaveLoop, EndBatch, EndTask, Active
  <2>2. thread[y] # "finally" /\ thread'[y] # "finally"
    BY <2>1 DEF Active
  <2>3. QED
    BY <1>4, <2>1, <2>2, WaitingCases
<1>7. CASE x = y /\ PopExpired(x)
  <2>1. /\ batch'[y] = q /\ queue'[y] = <<>> /\ thread'[y] = "next" /\ thread[y] = "loop"
        /\ ~ EndTask(x)
    BY <1>2, <1>7 DEF PopExpired, Expired, EndTask
  <2>2. b = <<>>
    BY <1>3, <2>1 DEF WorkerInv
  <2>3. Whole(q, <<>>) = Whole(b, q)
    BY <1>1, <2>2, WholePop
  <2>4. QED
    BY <1>4, <2>1, <2>3, WaitingCases DEF Active
<1>8. CASE x = y /\ EndTask(x)
  <2>1. /\ batch'[y] = b /\ queue'[y] = q /\ thread'[y] = "finally"
        /\ thread[y] = "busy"
    BY <1>2, <1>8 DEF EndTask
  <2>2. b # <<>>
    BY <1>3, <2>1 DEF WorkerInv, Active
  <2>3. /\ Later(b, q) = Tail(Whole(b, q)) /\ Whole(b, q) # <<>>
        /\ Head(Whole(b, q)) = Head(b)
    BY <1>1, <2>2, LaterTail
  <2>4. QED
    BY <1>4, <1>8, <2>1, <2>3, WaitingCases DEF Active
<1>9. CASE x = y /\ Finally(x)
  <2>1. /\ batch'[y] = Tail(b) /\ queue'[y] = q /\ thread'[y] = "next"
        /\ thread[y] = "finally" /\ ~ EndTask(x)
    BY <1>2, <1>9 DEF Finally, EndTask
  <2>2. b # <<>>
    BY <1>3, <2>1 DEF WorkerInv, Active
  <2>3. Whole(Tail(b), q) = Later(b, q)
    BY <1>1, <2>2, LaterTail
  <2>4. QED
    BY <1>4, <2>1, <2>3, WaitingCases DEF Active
<1>10. QED
  BY <1>5, <1>6, <1>7, <1>8, <1>9 DEF Loop

(* A task of y begins. *)
Begins(y) == thread[y] = "next" /\ batch[y] # <<>> /\ thread'[y] \in {"busy", "blocked"}

(* A worker begins a task, or no more or less than before is in progress. *)
Calm(y) ==
    \/ Begins(y)
    \/ (thread[y] \in Active) = (thread'[y] \in Active)
       /\ (thread[y] = "finally") = (thread'[y] = "finally")

(* A queue stays as it is or gets a task t, and at most one task begins. *)
LEMMA QueueEffect ==
    ASSUME ControlInv, NEW y \in Executor, UNCHANGED batch, Calm(y), NEW t,
           \/ queue'[y] = queue[y]
           \/ t \in TasksOf(y) /\ Adds(queue[y], t, queue'[y])
    PROVE  /\ IF queue'[y] = queue[y]
              THEN Unfinished(y)' = Unfinished(y)
              ELSE Adds(Unfinished(y), t, Unfinished(y)')
           /\ Begins(y) => Waiting(y) # <<>> /\ Head(Waiting(y)) = Head(batch[y])
           /\ LET w == IF Begins(y) THEN Tail(Waiting(y)) ELSE Waiting(y)
              IN  IF queue'[y] = queue[y] THEN Waiting(y)' = w
                                          ELSE Adds(w, t, Waiting(y)')
<1> DEFINE b == batch[y]
           q == queue[y]
           T == TasksOf(y)
<1>1. b \in Seq(T) /\ q \in Seq(T) /\ WorkerInv(y)
  BY DEF ControlInv, QueueTypes
<1>2. /\ Waiting(y)' = IF thread'[y] \in Active THEN Later(b, queue'[y])
                                                 ELSE Whole(b, queue'[y])
      /\ Unfinished(y)' = IF thread'[y] = "finally" THEN Later(b, queue'[y])
                                                     ELSE Whole(b, queue'[y])
  BY DEF Waiting, Unfinished, Accepted, Whole, Later, Active
<1>3. /\ (thread'[y] = "finally") = (thread[y] = "finally")
      /\ thread'[y] \in Active \/ thread'[y] = "finally" => b # <<>>
  BY <1>1 DEF Calm, Begins, WorkerInv, Active
<1>4. CASE queue'[y] # q
  <2>1. t \in T /\ Adds(q, t, queue'[y])
    BY <1>4
  <2>2. /\ Adds(Whole(b, q), t, Whole(b, queue'[y]))
        /\ b # <<>> => Adds(Later(b, q), t, Later(b, queue'[y]))
    BY <1>1, <2>1, LaterAppend
  <2>3. Adds(Unfinished(y), t, Unfinished(y)')
    BY <1>2, <1>3, <2>2, WaitingCases
  <2>4. CASE Begins(y)
    <3>1. Waiting(y) = Whole(b, q) /\ thread'[y] \in Active /\ b # <<>>
      BY <2>4, WaitingCases DEF Begins, Active
    <3>2. /\ Later(b, q) = Tail(Waiting(y)) /\ Waiting(y) # <<>>
          /\ Head(Waiting(y)) = Head(b)
      BY <1>1, <3>1, LaterTail
    <3>3. Adds(Tail(Waiting(y)), t, Waiting(y)')
      BY <1>2, <2>2, <3>1, <3>2
    <3>4. QED
      BY <1>4, <2>3, <2>4, <3>2, <3>3
  <2>5. CASE ~ Begins(y)
    BY <1>2, <1>3, <1>4, <2>2, <2>3, <2>5, WaitingCases DEF Calm
  <2>6. QED
    BY <2>4, <2>5
<1>5. CASE queue'[y] = q
  <2>1. Unfinished(y)' = Unfinished(y)
    BY <1>2, <1>3, <1>5, WaitingCases
  <2>2. CASE Begins(y)
    <3>1. Waiting(y) = Whole(b, q) /\ thread'[y] \in Active /\ b # <<>>
      BY <2>2, WaitingCases DEF Begins, Active
    <3>2. QED
      BY <1>1, <1>2, <1>5, <2>1, <2>2, <3>1, LaterTail
  <2>3. CASE ~ Begins(y)
    BY <1>2, <1>5, <2>1, <2>3, WaitingCases DEF Calm
  <2>4. QED
    BY <2>2, <2>3
<1>6. QED
  BY <1>4, <1>5

(* The tasks that an executor has not finished are its own. *)
LEMMA UnfinishedType ==
    ASSUME ControlInv, NEW x \in Executor
    PROVE  Unfinished(x) \in Seq(TasksOf(x))
<1>1. batch[x] \in Seq(TasksOf(x)) /\ queue[x] \in Seq(TasksOf(x))
  BY DEF ControlInv, QueueTypes
<1>2. thread[x] \in Active => batch[x] # <<>>
  BY DEF ControlInv, WorkerInv
<1>3. Accepted(x) \in Seq(TasksOf(x)) /\ (batch[x] # <<>> => Accepted(x) # <<>>)
  BY <1>1 DEF Accepted
<1>4. QED
  BY <1>2, <1>3 DEF Unfinished, Active

(* schedule_delayed: a running executor gets the task, all others nothing. *)
LEMMA ScheduleCases ==
    ASSUME ControlInv, NEW z \in Executor, NEW t, Schedule(z, t), NEW y \in Executor
    PROVE  IF y = z /\ status[z] = "Running" THEN Adds(queue[y], t, queue'[y])
                                             ELSE queue'[y] = queue[y]
  BY DEF ControlInv, QueueTypes, Schedule, Adds

(* A step that is not one of a loop. *)
Visible(h) == StartSetUp(h) \/ SetUpInterface(h) \/ Input(h) \/ UserAction(h)
              \/ Resume(h) \/ Execute(h)

(* Only the steps of the loop change a batch. *)
LEMMA VisibleIsCalm ==
    ASSUME ControlInv,
           Main \/ StartBroadcast \/ Forward \/ \E h \in Host : Visible(h),
           NEW y \in Executor
    PROVE  UNCHANGED batch /\ Calm(y)
<1> USE DEF ControlInv
<1>1. CASE Main
  <2>1. CASE Start
    <3>1. Order[turn] \in Executor /\ thread[Order[turn]] = "new"
      BY <2>1, OrderFacts DEF MainTypes, MainInv, Start
    <3>2. QED
      BY <2>1, <3>1 DEF Start, Calm, Active, WorkerTypes
  <2>2. CASE ~ Start
    BY <1>1, <2>2 DEF Main, SetUp, Result, CallStop, StopExecutor, Join, execVars, Calm
  <2>3. QED
    BY <2>1, <2>2
<1>2. CASE StartBroadcast
  BY <1>2 DEF StartBroadcast, Begin, Calm, Begins, WorkerTypes
<1>3. CASE Forward
  BY <1>3 DEF Forward, Calm
<1>4. ASSUME NEW h \in Host, Visible(h) PROVE UNCHANGED batch /\ Calm(y)
  <2>1. CASE StartSetUp(h)
    BY <2>1 DEF StartSetUp, Begin, Calm, Begins, WorkerTypes
  <2>2. CASE SetUpInterface(h)
    BY <2>2 DEF SetUpInterface, Calm
  <2>3. CASE Input(h)
    BY <2>3 DEF Input, InputData, Begin, Calm, Begins, WorkerTypes
  <2>4. CASE UserAction(h)
    BY <2>4 DEF UserAction, Begin, Calm, Begins, WorkerTypes
  <2>5. CASE Resume(h)
    BY <2>5 DEF Resume, Calm, Active, WorkerTypes
  <2>6. CASE Execute(h)
    BY <2>6 DEF Execute, Calm
  <2>7. QED
    BY <1>4, <2>1, <2>2, <2>3, <2>4, <2>5, <2>6 DEF Visible
<1>5. QED
  BY <1>1, <1>2, <1>3, <1>4

-----------------------------------------------------------------------------
(* set_up_interfaces of the main thread.                                   *)

NoneByMain(s) == \A n \in DOMAIN s : s[n].by # MainThread
OneByMain(s) ==
    \A m, n \in DOMAIN s : s[m].by = MainThread /\ s[n].by = MainThread => m = n

(* Nothing but a set-up is waited for by the main thread. *)
AwaitsSetUps(s) == \A n \in DOMAIN s : s[n].by = MainThread => s[n].kind = "set_up"

(* All interfaces of a host are up. *)
IsUp(h) == \A i \in Port : HostOf[i] = h => calls[i] = 2

(* The set-up in progress in host h has not forgotten an interface. *)
SetUpProceeds(h) ==
    /\ thread[h] = "busy" /\ Head(batch[h]).kind = "set_up" =>
           \A i \in Port : HostOf[i] = h => calls[i] = 2 \/ i \in Range(todo[h])
    /\ thread[h] = "blocked" => Head(batch[h]).kind # "set_up"

(* The task that the main thread waits for is in one place, and unsettled, *)
(* or it is done and the interfaces of that host are up.                   *)
MainWaits ==
    /\ \A h \in Host : OneByMain(Unfinished(h)) /\ AwaitsSetUps(Unfinished(h))
    /\ \A h \in Host : \/ main = "result" /\ h = Hosts[turn] /\ MainThread \notin answered
                       \/ NoneByMain(Unfinished(h))
    /\ MainThread \in answered => main = "result" /\ IsUp(Hosts[turn])

SetUpSoFar ==
    main \in {"set_up", "result"} => \A k \in 1 .. turn - 1 : IsUp(Hosts[k])

SetUpInv ==
    /\ \A h \in Host : SetUpProceeds(h)
    /\ MainWaits
    /\ SetUpSoFar
    /\ SetUpIsSynchronous

(* How many tasks await the main thread when one is added. *)
LEMMA ByMainAdds ==
    ASSUME NEW T, NEW s \in Seq(T), NEW t \in T, NEW r, Adds(s, t, r)
    PROVE  /\ t.by # MainThread /\ NoneByMain(s) => NoneByMain(r)
           /\ t.by # MainThread /\ OneByMain(s) => OneByMain(r)
           /\ NoneByMain(s) => OneByMain(r)
           /\ (t.by = MainThread => t.kind = "set_up") /\ AwaitsSetUps(s) => AwaitsSetUps(r)
<1>0. /\ DOMAIN s = 1 .. Len(s) /\ DOMAIN Append(s, t) = 1 .. Len(s) + 1
      /\ Append(s, t)[Len(s) + 1] = t /\ Len(s) \in Nat
      /\ \A n \in 1 .. Len(s) : Append(s, t)[n] = s[n]
  OBVIOUS
<1>1. /\ DOMAIN s = 1 .. Len(s) /\ DOMAIN r = 1 .. Len(s) + 1 /\ Len(s) \in Nat
      /\ r[Len(s) + 1] = t /\ \A n \in 1 .. Len(s) : r[n] = s[n]
  BY <1>0, Zenon DEF Adds
<1>2. \A n \in DOMAIN r : \/ n \in DOMAIN s /\ r[n] = s[n]
                          \/ n = Len(s) + 1 /\ r[n] = t
  BY <1>1
<1>3. t.by # MainThread /\ NoneByMain(s) => NoneByMain(r)
  BY <1>2 DEF NoneByMain
<1>4. ASSUME t.by # MainThread, OneByMain(s) PROVE OneByMain(r)
  <2>1. \A n \in DOMAIN r : r[n].by = MainThread => n \in DOMAIN s /\ r[n] = s[n]
    BY <1>2, <1>4
  <2>2. QED
    BY <1>4, <2>1 DEF OneByMain
<1>5. ASSUME NoneByMain(s) PROVE OneByMain(r)
  <2>1. \A n \in DOMAIN r : r[n].by = MainThread => n = Len(s) + 1
    BY <1>2, <1>5 DEF NoneByMain
  <2>2. QED
    BY <2>1 DEF OneByMain
<1>6. (t.by = MainThread => t.kind = "set_up") /\ AwaitsSetUps(s) => AwaitsSetUps(r)
  BY <1>2 DEF AwaitsSetUps
<1>7. QED
  BY <1>3, <1>4, <1>5, <1>6

(* How many tasks await the main thread when the first one is done. *)
LEMMA ByMainTail ==
    ASSUME NEW T, NEW s \in Seq(T), s # <<>>
    PROVE  /\ NoneByMain(s) => NoneByMain(Tail(s)) /\ Head(s).by # MainThread
           /\ OneByMain(s) => OneByMain(Tail(s))
           /\ OneByMain(s) /\ Head(s).by = MainThread => NoneByMain(Tail(s))
           /\ AwaitsSetUps(s) => /\ AwaitsSetUps(Tail(s))
                                 /\ Head(s).by = MainThread => Head(s).kind = "set_up"
<1> DEFINE r == Tail(s)
<1>1. /\ DOMAIN s = 1 .. Len(s) /\ DOMAIN r = 1 .. Len(s) - 1 /\ Len(s) \in Nat \ {0}
      /\ \A n \in 1 .. Len(s) - 1 : r[n] = s[n + 1]
      /\ Head(s) = s[1]
  OBVIOUS
<1> HIDE DEF r
<1>2. 1 \in DOMAIN s /\ \A n \in DOMAIN r : n + 1 \in DOMAIN s /\ n + 1 # 1 /\ r[n] = s[n + 1]
                                            /\ n \in Nat
  BY <1>1
<1>3. NoneByMain(s) => NoneByMain(r) /\ Head(s).by # MainThread
  BY <1>1, <1>2 DEF NoneByMain
<1>4. OneByMain(s) => OneByMain(r)
  BY <1>1, <1>2 DEF OneByMain
<1>5. OneByMain(s) /\ Head(s).by = MainThread => NoneByMain(r)
  BY <1>1, <1>2 DEF OneByMain, NoneByMain
<1>6. AwaitsSetUps(s) => /\ AwaitsSetUps(r)
                         /\ Head(s).by = MainThread => Head(s).kind = "set_up"
  BY <1>1, <1>2 DEF AwaitsSetUps
<1>7. QED
  BY <1>3, <1>4, <1>5, <1>6 DEF r

(* A step of another thread adds no task of the main thread to the queue. *)
LEMMA OthersSchedule ==
    ASSUME ControlInv, NEW h \in Host,
           \/ Main /\ ~ SetUp
           \/ StartBroadcast \/ Forward
           \/ \E g \in Host : Visible(g)
    PROVE  \E t : /\ t.by # MainThread
                  /\ \/ queue'[h] = queue[h]
                     \/ t \in TasksOf(h) /\ Adds(queue[h], t, queue'[h])
<1>0. h \in Executor /\ Bus \in Executor /\ h # Bus /\ UserTask \in TasksOf(h)
  BY OrderFacts, TaskTypes
<1>1. UserTask.by # MainThread /\ NoOne # MainThread
  BY NetworkAssumption DEF UserTask, Caller
<1>2. ASSUME UNCHANGED queue PROVE queue'[h] = queue[h]
  BY <1>2
<1>3. ASSUME NEW i, NEW data, Send(i, data) PROVE queue'[h] = queue[h]
  BY <1>0, <1>3, ScheduleCases DEF Send
<1>4. ASSUME NEW k \in Host, NEW c \in Host \cup {NoOne}, CallSetUp(k, c)
      PROVE  \/ queue'[h] = queue[h]
             \/ /\ SetUpTask(c) \in TasksOf(h) /\ SetUpTask(c).by # MainThread
                /\ Adds(queue[h], SetUpTask(c), queue'[h])
  <2>1. k \in Executor /\ c # MainThread
    BY <1>1, OrderFacts, NetworkAssumption
  <2>2. SetUpTask(c) \in TasksOf(h)
    BY TaskTypes DEF Caller
  <2>3. SetUpTask(c).by # MainThread
    BY <2>1 DEF SetUpTask
  <2>4. QED
    BY <1>0, <1>4, <2>1, <2>2, <2>3, ScheduleCases DEF CallSetUp
<1>5. CASE Main /\ ~ SetUp
  BY <1>1, <1>2, <1>5 DEF Main, Start, Result, CallStop, StopExecutor, Join, execVars
<1>6. CASE StartBroadcast
  BY <1>1, <1>2, <1>6 DEF StartBroadcast
<1>7. CASE Forward
  <2> DEFINE f == Head(batch[Bus]).frame
             i == Head(todo[Bus])
  <2>1. batch[Bus] # <<>> /\ batch[Bus] \in Seq(TasksOf(Bus))
    BY <1>0, <1>7 DEF Forward, ControlInv, WorkerInv, Active, QueueTypes
  <2>2. f \in Frames
    BY <2>1, TaskFields
  <2>3. i \in Port
    BY <1>0, <1>7 DEF Forward, ControlInv, WorkerTypes
  <2>4. HostOf[i] \in Executor
    BY <2>3, NetworkAssumption, OrderFacts
  <2>5. /\ InputTask(i, f) \in TasksOf(HostOf[i])
        /\ InputTask(i, f).by # MainThread /\ UserTask.by # MainThread
    BY <1>1, <2>2, <2>3, TaskTypes DEF InputTask
  <2>6. Schedule(HostOf[i], InputTask(i, f))
    BY <1>7 DEF Forward
  <2> HIDE DEF f, i
  <2>7. QED
    BY <1>0, <2>4, <2>5, <2>6, ScheduleCases
<1>8. ASSUME NEW g \in Host, Visible(g)
      PROVE  \E t : /\ t.by # MainThread
                    /\ \/ queue'[h] = queue[h]
                       \/ t \in TasksOf(h) /\ Adds(queue[h], t, queue'[h])
  <2>1. CASE StartSetUp(g) \/ Resume(g)
    BY <1>1, <1>2, <2>1 DEF StartSetUp, Resume
  <2>2. CASE SetUpInterface(g)
    BY <1>1, <1>2, <1>3, <2>2 DEF SetUpInterface
  <2>3. CASE Input(g)
    BY <1>1, <1>2, <1>3, <2>3 DEF Input, MaySend
  <2>4. CASE UserAction(g)
    BY <1>1, <1>2, <1>3, <1>4, <2>4 DEF UserAction
  <2>5. CASE Execute(g)
    BY <1>0, <1>1, <2>5, ScheduleCases, OrderFacts DEF Execute
  <2>6. QED
    BY <1>8, <2>1, <2>2, <2>3, <2>4, <2>5 DEF Visible
<1>9. QED
  BY <1>5, <1>6, <1>7, <1>8

(* What host h has to do for the main thread does not change. *)
Kept(h) ==
    \/ Unfinished(h)' = Unfinished(h)
    \/ \E t \in TasksOf(h) : t.by # MainThread /\ Adds(Unfinished(h), t, Unfinished(h)')

(* Steps outside the loops add at most a task that is not the main thread's. *)
LEMMA KeptByOthers ==
    ASSUME ControlInv, NEW h \in Host,
           \/ Main /\ ~ SetUp
           \/ StartBroadcast \/ Forward
           \/ \E g \in Host : Visible(g)
    PROVE  Kept(h)
<1>0. h \in Executor
  BY OrderFacts
<1>1. UNCHANGED batch /\ Calm(h)
  BY <1>0, VisibleIsCalm
<1>2. PICK t : /\ t.by # MainThread
               /\ \/ queue'[h] = queue[h]
                  \/ t \in TasksOf(h) /\ Adds(queue[h], t, queue'[h])
  BY OthersSchedule
<1>3. IF queue'[h] = queue[h] THEN Unfinished(h)' = Unfinished(h)
                              ELSE Adds(Unfinished(h), t, Unfinished(h)')
  BY <1>0, <1>1, <1>2, QueueEffect
<1>4. QED
  BY <1>2, <1>3 DEF Kept

(* Only the set-up of an interface calls its callbacks. *)
LEMMA CallsOfOthers ==
    ASSUME [Next]_vars, \A h \in Host : ~ SetUpInterface(h)
    PROVE  UNCHANGED calls
<1>1. CASE Main
  BY <1>1 DEF Main, Start, SetUp, Result, CallStop, StopExecutor, Join, envVars
<1>2. ASSUME NEW x, Loop(x) PROVE UNCHANGED calls
  BY <1>2 DEF Loop, Run, LeaveLoop, PopExpired, EndBatch, EndTask, Finally, envVars
<1>3. CASE StartBroadcast \/ Forward
  BY <1>3 DEF StartBroadcast, Forward, envVars
<1>4. ASSUME NEW h, StartSetUp(h) \/ Input(h) \/ UserAction(h) \/ Resume(h) \/ Execute(h)
      PROVE  UNCHANGED calls
  BY <1>4 DEF StartSetUp, Input, InputData, UserAction, Resume, Execute, envVars
<1>5. CASE UNCHANGED vars
  BY <1>5 DEF vars, envVars
<1>6. QED
  BY <1>1, <1>2, <1>3, <1>4, <1>5 DEF Next, BusThread, HostThread

(* The callbacks that were made of an interface stay made. *)
LEMMA CallsGrow ==
    ASSUME ControlInv, [Next]_vars, NEW i \in Port, calls[i] = 2
    PROVE  calls'[i] = 2
<1>1. ASSUME NEW h \in Host, SetUpInterface(h) PROVE calls'[i] = 2
  BY <1>1 DEF SetUpInterface, CallBack, ControlInv, EnvTypes
<1>2. QED
  BY <1>1, CallsOfOthers

(* A set-up visits every interface of its host. *)
LEMMA SetUpGoesOn ==
    ASSUME ControlInv, [Next]_vars, NEW h \in Host, SetUpProceeds(h)
    PROVE  SetUpProceeds(h)'
<1> USE DEF ControlInv
<1>0. /\ h \in Executor /\ Bus \in Executor /\ h # Bus
      /\ \A i \in Port : calls[i] = 2 => calls'[i] = 2
  BY OrderFacts, CallsGrow
<1>1. ASSUME batch'[h] = batch[h], thread'[h] = thread[h], todo'[h] = todo[h]
      PROVE  SetUpProceeds(h)'
  BY <1>0, <1>1 DEF SetUpProceeds
<1>2. ASSUME thread'[h] \notin {"busy", "blocked"} PROVE SetUpProceeds(h)'
  BY <1>2 DEF SetUpProceeds
<1>3. ASSUME thread'[h] = "busy" \/ thread'[h] = "blocked", Head(batch'[h]).kind # "set_up"
      PROVE  SetUpProceeds(h)'
  BY <1>3 DEF SetUpProceeds
<1>4. CASE Main
  <2>1. CASE Start
    <3>1. Order[turn] \in Executor
      BY OrderFacts DEF MainTypes
    <3>2. thread'[h] = "starting" \/ thread'[h] = thread[h]
      BY <1>0, <2>1, <3>1 DEF Start, WorkerTypes
    <3>3. QED
      BY <1>1, <1>2, <2>1, <3>2 DEF Start
  <2>2. CASE ~ Start
    BY <1>1, <1>4, <2>2 DEF Main, SetUp, Result, CallStop, StopExecutor, Join, execVars
  <2>3. QED
    BY <2>1, <2>2
<1>5. ASSUME NEW x \in Executor, Loop(x) PROVE SetUpProceeds(h)'
  <2>1. CASE x = h
    BY <1>0, <1>2, <1>5, <2>1
       DEF Loop, Run, LeaveLoop, PopExpired, EndBatch, EndTask, Finally, WorkerTypes
  <2>2. CASE x # h
    BY <1>0, <1>1, <1>5, <2>2
       DEF Loop, Run, LeaveLoop, PopExpired, EndBatch, EndTask, Finally, WorkerTypes,
           QueueTypes
  <2>3. QED
    BY <2>1, <2>2
<1>6. CASE StartBroadcast \/ Forward
  BY <1>0, <1>1, <1>6 DEF StartBroadcast, Forward, WorkerTypes
<1>7. ASSUME NEW g \in Host, Visible(g), g # h PROVE SetUpProceeds(h)'
  BY <1>0, <1>1, <1>7
     DEF Visible, StartSetUp, SetUpInterface, Input, InputData, UserAction, Resume, Execute,
         WorkerTypes
<1>8. CASE Visible(h)
  <2>1. CASE StartSetUp(h)
    <3>1. thread'[h] = "busy" /\ todo'[h] = PortsOf(h)
      BY <1>0, <2>1 DEF StartSetUp, WorkerTypes
    <3>2. \A i \in Port : HostOf[i] = h => i \in Range(todo'[h])
      BY <3>1, PortsOfFacts
    <3>3. QED
      BY <3>1, <3>2 DEF SetUpProceeds
  <2>2. CASE SetUpInterface(h)
    <3> DEFINE i == Head(todo[h])
    <3>1. /\ thread[h] = "busy" /\ thread'[h] = "busy" /\ batch'[h] = batch[h]
          /\ todo'[h] = Tail(todo[h]) /\ todo[h] # <<>> /\ todo[h] \in Seq(Port)
      BY <1>0, <2>2 DEF SetUpInterface, WorkerTypes
    <3>2. calls'[i] = 2
      <4>1. i \in Port
        BY <3>1
      <4>2. calls[i] = 0 \/ calls[i] = 2
        BY <4>1 DEF EnvTypes
      <4>3. calls[i] = 0 => CallBack(i)
        BY <2>2 DEF SetUpInterface
      <4>4. calls[i] = 0 => calls'[i] = 2
        BY <4>1, <4>3 DEF CallBack, EnvTypes
      <4>5. QED
        BY <1>0, <4>1, <4>2, <4>4
    <3>3. \A j \in Range(todo[h]) : j = i \/ j \in Range(todo'[h])
      <4>1. \A s \in Seq(Port) : s # <<>> =>
                \A j \in Range(s) : j = Head(s) \/ j \in Range(Tail(s))
        <5> SUFFICES ASSUME NEW s \in Seq(Port), s # <<>>, NEW j \in Range(s)
                     PROVE  j = Head(s) \/ j \in Range(Tail(s))
          OBVIOUS
        <5>1. PICK n \in 1 .. Len(s) : j = s[n]
          BY DEF Range
        <5>2. n # 1 => n - 1 \in DOMAIN Tail(s) /\ Tail(s)[n - 1] = s[n]
          OBVIOUS
        <5>3. n = 1 => j = Head(s)
          BY <5>1
        <5>4. n # 1 => j \in Range(Tail(s))
          BY <5>1, <5>2, Zenon DEF Range
        <5>5. QED
          BY <5>3, <5>4
      <4>2. QED
        BY <3>1, <4>1
    <3>4. Head(batch[h]).kind = "set_up" => 
              \A j \in Port : HostOf[j] = h => calls[j] = 2 \/ j \in Range(todo[h])
      BY <3>1 DEF SetUpProceeds
    <3> HIDE DEF i
    <3>5. Head(batch[h]).kind = "set_up" => 
              \A j \in Port : HostOf[j] = h => calls'[j] = 2 \/ j \in Range(todo'[h])
      BY <1>0, <3>2, <3>3, <3>4
    <3>6. QED
      BY <3>1, <3>5 DEF SetUpProceeds
  <2>3. CASE Input(h)
    BY <1>0, <1>3, <2>3 DEF Input, InputData, Begin, WorkerTypes
  <2>4. CASE UserAction(h)
    BY <1>0, <1>3, <2>4 DEF UserAction, Begin, WorkerTypes
  <2>5. CASE Resume(h)
    BY <1>0, <1>3, <2>5 DEF Resume, WorkerTypes, SetUpProceeds
  <2>6. CASE Execute(h)
    BY <1>1, <2>6 DEF Execute
  <2>7. QED
    BY <1>8, <2>1, <2>2, <2>3, <2>4, <2>5, <2>6 DEF Visible
<1>9. CASE UNCHANGED vars
  BY <1>1, <1>9 DEF vars, execVars
<1>10. CASE Next
  <2>1. ASSUME NEW g \in Host, HostThread(g) \/ Execute(g)
        PROVE  (\E x \in Executor : Loop(x)) \/ Visible(g)
    BY <2>1, OrderFacts DEF HostThread, Visible
  <2>2. BusThread => (\E x \in Executor : Loop(x)) \/ StartBroadcast \/ Forward
    BY <1>0 DEF BusThread
  <2>3. QED
    BY <1>4, <1>5, <1>6, <1>7, <1>8, <1>10, <2>1, <2>2 DEF Next
<1>11. QED
  BY <1>9, <1>10

(* A step of that kind changes nothing for the main thread. *)
LEMMA KeptByMain ==
    ASSUME ControlInv, NEW h \in Host, Kept(h)
    PROVE  /\ NoneByMain(Unfinished(h)) => NoneByMain(Unfinished(h)')
           /\ OneByMain(Unfinished(h)) => OneByMain(Unfinished(h)')
           /\ AwaitsSetUps(Unfinished(h)) => AwaitsSetUps(Unfinished(h)')
<1>1. Unfinished(h) \in Seq(TasksOf(h))
  BY UnfinishedType, OrderFacts
<1>2. CASE Unfinished(h)' = Unfinished(h)
  BY <1>2
<1>3. CASE \E t \in TasksOf(h) : t.by # MainThread /\ Adds(Unfinished(h), t, Unfinished(h)')
  <2>1. PICK t \in TasksOf(h) : t.by # MainThread /\ Adds(Unfinished(h), t, Unfinished(h)')
    BY <1>3
  <2>2. QED
    BY <1>1, <2>1, ByMainAdds
<1>4. QED
  BY <1>2, <1>3 DEF Kept

(* A host that is up stays up. *)
LEMMA UpStays ==
    ASSUME ControlInv, [Next]_vars, NEW h, IsUp(h)
    PROVE  IsUp(h)'
  BY CallsGrow DEF IsUp

(* Steps that are not the main thread's and settle none of its tasks. *)
LEMMA WaitsUndisturbed ==
    ASSUME ControlInv, SetUpInv, [Next]_vars, UNCHANGED mainVars,
           MainThread \in answered <=> MainThread \in answered',
           \A h \in Host : Kept(h)
    PROVE  MainWaits' /\ SetUpSoFar' /\ SetUpIsSynchronous'
<1> USE DEF SetUpInv
<1>1. main' = main /\ turn' = turn
  BY DEF mainVars
<1>2. \A h \in Host : OneByMain(Unfinished(h)') /\ AwaitsSetUps(Unfinished(h)')
  BY KeptByMain DEF MainWaits
<1>3. \A h \in Host :
          \/ main' = "result" /\ h = Hosts[turn'] /\ MainThread \notin answered'
          \/ NoneByMain(Unfinished(h)')
  BY <1>1, KeptByMain DEF MainWaits
<1>4. MainThread \in answered' => main' = "result" /\ IsUp(Hosts[turn])'
  BY <1>1, UpStays DEF MainWaits
<1>5. MainWaits'
  BY <1>1, <1>2, <1>3, <1>4 DEF MainWaits
<1>6. main' \in {"set_up", "result"} => \A k \in 1 .. turn' - 1 : IsUp(Hosts[k])'
  BY <1>1, UpStays DEF SetUpSoFar
<1>7. SetUpSoFar'
  BY <1>6 DEF SetUpSoFar
<1>8. SetUpIsSynchronous'
  BY <1>1, CallsGrow DEF SetUpIsSynchronous
<1>9. QED
  BY <1>5, <1>7, <1>8

(* The end of a task of host h. *)
LEMMA WaitsAtEndTask ==
    ASSUME ControlInv, SetUpInv, [Next]_vars, NEW h \in Host, EndTask(h)
    PROVE  MainWaits' /\ SetUpSoFar' /\ SetUpIsSynchronous'
<1> USE DEF SetUpInv
<1>0. h \in Executor /\ Loop(h) /\ UNCHANGED mainVars /\ UNCHANGED calls
  BY OrderFacts DEF Loop, EndTask, envVars
<1>1. main' = main /\ turn' = turn
  BY <1>0 DEF mainVars
<1>2. /\ Unfinished(h) # <<>> /\ Unfinished(h)' = Tail(Unfinished(h))
      /\ Head(Unfinished(h)) = Head(batch[h])
  BY <1>0, LoopEffect
<1>3. ASSUME NEW g \in Host, g # h PROVE Unfinished(g)' = Unfinished(g)
  BY <1>0, <1>3, LoopEffect, OrderFacts
<1>4. Unfinished(h) \in Seq(TasksOf(h)) /\ Head(batch[h]) \in TasksOf(h)
  BY <1>0, <1>2, UnfinishedType
<1>5. /\ NoneByMain(Unfinished(h)) => /\ NoneByMain(Unfinished(h)')
                                      /\ Head(batch[h]).by # MainThread
      /\ OneByMain(Unfinished(h)') /\ AwaitsSetUps(Unfinished(h)')
      /\ Head(batch[h]).by = MainThread => /\ NoneByMain(Unfinished(h)')
                                           /\ Head(batch[h]).kind = "set_up"
  BY <1>2, <1>4, ByMainTail DEF MainWaits
<1>6. answered' = answered \cup ({Head(batch[h]).by} \ {NoOne})
  BY DEF EndTask
<1>7. Head(batch[h]).by = MainThread => /\ main = "result" /\ h = Hosts[turn]
                                         /\ MainThread \notin answered
  BY <1>5 DEF MainWaits
<1>8. Head(batch[h]).by = MainThread => IsUp(h)
  <2>1. Head(batch[h]).by = MainThread => Head(batch[h]).kind = "set_up"
    BY <1>5
  <2>2. thread[h] = "busy" /\ Range(todo[h]) = {}
    BY DEF EndTask, Range
  <2>3. QED
    BY <2>1, <2>2 DEF SetUpProceeds, IsUp
<1>9. \A g : IsUp(g)' <=> IsUp(g)
  BY <1>0 DEF IsUp
<1>10. MainWaits'
  <2>1. \A g \in Host : OneByMain(Unfinished(g)') /\ AwaitsSetUps(Unfinished(g)')
    BY <1>3, <1>5 DEF MainWaits
  <2>2. CASE Head(batch[h]).by = MainThread
    <3>1. \A g \in Host : NoneByMain(Unfinished(g)')
      BY <1>3, <1>5, <1>7, <2>2 DEF MainWaits
    <3>2. QED
      BY <1>1, <1>7, <1>8, <1>9, <2>1, <2>2, <3>1 DEF MainWaits
  <2>3. CASE Head(batch[h]).by # MainThread
    <3>1. MainThread \in answered' <=> MainThread \in answered
      BY <1>6, <2>3
    <3>2. \A g \in Host : NoneByMain(Unfinished(g)) => NoneByMain(Unfinished(g)')
      BY <1>3, <1>5
    <3>3. \A g \in Host :
              \/ main = "result" /\ g = Hosts[turn] /\ MainThread \notin answered
              \/ NoneByMain(Unfinished(g)')
      BY <3>2 DEF MainWaits
    <3>4. QED
      BY <1>1, <1>9, <2>1, <3>1, <3>3 DEF MainWaits
  <2>4. QED
    BY <2>2, <2>3
<1>11. SetUpSoFar'
  BY <1>1, <1>9 DEF SetUpSoFar
<1>12. QED
  BY <1>0, <1>1, <1>10, <1>11 DEF SetUpIsSynchronous

(* The main thread itself. *)
LEMMA WaitsOfMain ==
    ASSUME ControlInv, SetUpInv, Main
    PROVE  MainWaits' /\ SetUpSoFar' /\ SetUpIsSynchronous'
<1> USE DEF SetUpInv
<1>0. UNCHANGED calls
  BY DEF Main, Start, SetUp, Result, CallStop, StopExecutor, Join, envVars
<1>1. \A g : IsUp(g)' <=> IsUp(g)
  BY <1>0 DEF IsUp
<1>2. ASSUME ~ SetUp, \A h \in Host : NoneByMain(Unfinished(h)), MainThread \notin answered'
      PROVE  MainWaits'
  <2>1. \A h \in Host : NoneByMain(Unfinished(h)')
    BY <1>2, KeptByOthers, KeptByMain
  <2>2. \A h \in Host : OneByMain(Unfinished(h)') /\ AwaitsSetUps(Unfinished(h)')
    BY <2>1 DEF NoneByMain, OneByMain, AwaitsSetUps
  <2>3. QED
    BY <1>2, <2>1, <2>2 DEF MainWaits
<1>3. main # "result" => /\ \A h \in Host : NoneByMain(Unfinished(h))
                        /\ MainThread \notin answered
  BY DEF MainWaits
<1>4. MainTypes /\ MainInv /\ Len(Hosts) \in Nat
  BY OrderFacts DEF ControlInv
<1>5. CASE Start
  <2>1. MainWaits'
    BY <1>2, <1>3, <1>5 DEF Start, SetUp
  <2>2. SetUpSoFar' /\ SetUpIsSynchronous'
    BY <1>5 DEF Start, NextTurn, SetUpSoFar, SetUpIsSynchronous
  <2>3. QED
    BY <2>1, <2>2
<1>6. CASE SetUp
  <2>0. PICK k \in Host : k = Hosts[turn]
    BY <1>4, <1>6, OrderFacts DEF SetUp, MainInv, MainTypes
  <2>1. k \in Executor /\ SetUpTask(MainThread) \in TasksOf(k)
    BY OrderFacts, TaskTypes DEF Caller
  <2>2. /\ main = "set_up" /\ turn' = turn /\ answered' = answered /\ UNCHANGED batch
        /\ \A h \in Host : Calm(h)
    BY <1>6, VisibleIsCalm, OrderFacts DEF SetUp
  <2>3. MainThread \notin answered' /\ \A h \in Host : NoneByMain(Unfinished(h))
    BY <1>3, <2>2
  <2>4. /\ main' = IF status[k] = "Running" THEN "result" ELSE "raised"
        /\ Schedule(k, SetUpTask(MainThread))
    BY <1>6, <2>0 DEF SetUp, CallSetUp
  <2>5. ASSUME NEW h \in Host, ~ (h = k /\ status[k] = "Running")
        PROVE  Unfinished(h)' = Unfinished(h)
    <3>1. h \in Executor /\ queue'[h] = queue[h]
      BY <2>1, <2>4, <2>5, ScheduleCases, OrderFacts
    <3>2. QED
      BY <2>2, <3>1, QueueEffect
  <2>6. status[k] = "Running" => /\ OneByMain(Unfinished(k)')
                                 /\ AwaitsSetUps(Unfinished(k)')
    <3>1. SUFFICES ASSUME status[k] = "Running"
                   PROVE  OneByMain(Unfinished(k)') /\ AwaitsSetUps(Unfinished(k)')
      OBVIOUS
    <3>2. Adds(queue[k], SetUpTask(MainThread), queue'[k])
      BY <2>1, <2>4, <3>1, ScheduleCases
    <3>3. IF queue'[k] = queue[k]
          THEN Unfinished(k)' = Unfinished(k)
          ELSE Adds(Unfinished(k), SetUpTask(MainThread), Unfinished(k)')
      BY <2>1, <2>2, <3>2, QueueEffect
    <3>4. Unfinished(k) \in Seq(TasksOf(k)) /\ NoneByMain(Unfinished(k))
          /\ OneByMain(Unfinished(k)) /\ AwaitsSetUps(Unfinished(k))
      BY <2>1, <2>3, UnfinishedType DEF MainWaits
    <3>5. CASE Unfinished(k)' = Unfinished(k)
      BY <3>4, <3>5
    <3>6. CASE Adds(Unfinished(k), SetUpTask(MainThread), Unfinished(k)')
      BY <2>1, <3>4, <3>6, ByMainAdds DEF SetUpTask
    <3>7. QED
      BY <3>3, <3>5, <3>6
  <2>7. MainWaits'
    <3>1. \A h \in Host : OneByMain(Unfinished(h)') /\ AwaitsSetUps(Unfinished(h)')
      BY <2>5, <2>6 DEF MainWaits
    <3>2. \A h \in Host :
              \/ main' = "result" /\ h = Hosts[turn']
              \/ NoneByMain(Unfinished(h)')
      BY <2>0, <2>2, <2>3, <2>4, <2>5
    <3>3. QED
      BY <2>3, <3>1, <3>2 DEF MainWaits
  <2>8. SetUpSoFar' /\ SetUpIsSynchronous'
    BY <1>1, <2>2, <2>4 DEF SetUpSoFar, SetUpIsSynchronous
  <2>9. QED
    BY <2>7, <2>8
<1>7. CASE Result
  <2>1. /\ main = "result" /\ MainThread \in answered /\ MainThread \notin answered'
        /\ turn \in 1 .. Len(Hosts)
    BY <1>4, <1>7 DEF Result, HasResult, MainTypes, MainInv
  <2>2. MainWaits'
    BY <1>2, <1>7, <2>1 DEF MainWaits, Result, SetUp
  <2>3. \A k \in 1 .. turn : IsUp(Hosts[k])
    BY <2>1 DEF MainWaits, SetUpSoFar
  <2>4. CASE turn < Len(Hosts)
    <3>1. main' = "set_up" /\ turn' = turn + 1
      BY <1>7, <2>4 DEF Result, NextTurn
    <3>2. SetUpSoFar'
      BY <1>1, <2>1, <2>3, <3>1 DEF SetUpSoFar
    <3>3. QED
      BY <2>2, <3>1, <3>2 DEF SetUpIsSynchronous
  <2>5. CASE ~ (turn < Len(Hosts))
    <3>1. main' = "program" /\ turn = Len(Hosts)
      BY <1>4, <1>7, <2>1, <2>5 DEF Result, NextTurn
    <3>2. \A h \in Host : \E k \in 1 .. Len(Hosts) : h = Hosts[k]
      BY NetworkAssumption DEF Host, Range
    <3>3. \A i \in Port : calls[i] = 2
      BY <2>3, <3>1, <3>2, NetworkAssumption DEF IsUp
    <3>4. QED
      BY <1>0, <2>2, <3>1, <3>3 DEF SetUpSoFar, SetUpIsSynchronous
  <2>6. QED
    BY <2>4, <2>5
<1>8. CASE CallStop \/ StopExecutor \/ Join
  <2>1. /\ main \in {"program", "stop", "join"} /\ answered' = answered
        /\ main' \in {"stop", "join", "done"}
    BY <1>8 DEF CallStop, StopExecutor, Join, execVars, NextTurn
  <2>2. MainWaits'
    BY <1>2, <1>3, <2>1 DEF SetUp
  <2>3. SetUpSoFar' /\ SetUpIsSynchronous'
    BY <1>0, <2>1 DEF SetUpSoFar, SetUpIsSynchronous
  <2>4. QED
    BY <2>2, <2>3
<1>9. QED
  BY <1>5, <1>6, <1>7, <1>8 DEF Main

(* The invariant of set_up_interfaces holds at first. *)
LEMMA InitSetUp == Init => SetUpInv
<1> SUFFICES ASSUME Init PROVE SetUpInv
  OBVIOUS
<1> USE DEF Init
<1>1. \A h \in Host : Unfinished(h) = <<>> /\ DOMAIN <<>> = {}
  BY OrderFacts DEF Unfinished, Accepted
<1>2. MainWaits
  BY <1>1 DEF MainWaits, NoneByMain, OneByMain, AwaitsSetUps
<1>3. \A h \in Host : SetUpProceeds(h)
  BY OrderFacts DEF SetUpProceeds
<1>4. SetUpSoFar /\ SetUpIsSynchronous
  BY DEF SetUpSoFar, SetUpIsSynchronous
<1>5. QED
  BY <1>2, <1>3, <1>4 DEF SetUpInv

(* Every step keeps the invariant of set_up_interfaces. *)
LEMMA NextSetUp == ControlInv /\ SetUpInv /\ [Next]_vars => SetUpInv'
<1> SUFFICES ASSUME ControlInv, SetUpInv, [Next]_vars PROVE SetUpInv'
  OBVIOUS
<1>1. \A h \in Host : SetUpProceeds(h)'
  BY SetUpGoesOn DEF SetUpInv
<1>2. MainWaits' /\ SetUpSoFar' /\ SetUpIsSynchronous'
  <2>0. MainThread \notin Executor /\ MainThread # NoOne
    BY NetworkAssumption DEF Caller
  <2>1. CASE Main
    BY <2>1, WaitsOfMain
  <2>2. ASSUME NEW h \in Host, EndTask(h)
        PROVE  MainWaits' /\ SetUpSoFar' /\ SetUpIsSynchronous'
    BY <2>2, WaitsAtEndTask
  <2>3. ASSUME NEW x \in Executor, Loop(x), \A h \in Host : ~ EndTask(h)
        PROVE  MainWaits' /\ SetUpSoFar' /\ SetUpIsSynchronous'
    <3>1. \A h \in Host : Kept(h)
      BY <2>3, LoopEffect, OrderFacts DEF Kept
    <3>2. UNCHANGED mainVars
      BY <2>3 DEF Loop, Run, LeaveLoop, PopExpired, EndBatch, EndTask, Finally
    <3>3. MainThread \in answered <=> MainThread \in answered'
      <4>1. CASE EndTask(x)
        <5>1. x = Bus /\ batch[x] # <<>> /\ batch[x] \in Seq(TasksOf(x))
          BY <2>3, <4>1 DEF Executor, EndTask, ControlInv, WorkerInv, Active, QueueTypes
        <5>2. Head(batch[x]).by = NoOne
          BY <5>1, TaskFields
        <5>3. QED
          BY <4>1, <5>2 DEF EndTask
      <4>2. CASE ~ EndTask(x)
        BY <2>3, <4>2 DEF Loop, Run, LeaveLoop, PopExpired, EndBatch, Finally
      <4>3. QED
        BY <4>1, <4>2
    <3>4. QED
      BY <3>1, <3>2, <3>3, WaitsUndisturbed
  <2>4. ASSUME StartBroadcast \/ Forward \/ \E g \in Host : Visible(g)
        PROVE  MainWaits' /\ SetUpSoFar' /\ SetUpIsSynchronous'
    <3>1. \A h \in Host : Kept(h)
      BY <2>4, KeptByOthers
    <3>2. UNCHANGED mainVars
      BY <2>4 DEF StartBroadcast, Forward, Visible, StartSetUp, SetUpInterface, Input,
                  InputData, UserAction, Resume, Execute
    <3>3. MainThread \in answered <=> MainThread \in answered'
      BY <2>0, <2>4, OrderFacts
         DEF StartBroadcast, Forward, Visible, StartSetUp, SetUpInterface, Input,
             InputData, UserAction, Resume, Execute
    <3>4. QED
      BY <3>1, <3>2, <3>3, WaitsUndisturbed
  <2>5. CASE UNCHANGED vars
    <3>1. \A h \in Host : Kept(h)
      BY <2>5 DEF vars, execVars, Kept, Unfinished, Accepted
    <3>2. QED
      BY <2>5, <3>1, WaitsUndisturbed DEF vars, execVars
  <2>6. QED
    BY <2>1, <2>2, <2>3, <2>4, <2>5, OrderFacts DEF Next, BusThread, HostThread, Visible
<1>3. QED
  BY <1>1, <1>2 DEF SetUpInv

(***************************************************************************)
(* set_up_interfaces is synchronous, whatever else the hosts are told to   *)
(* do meanwhile: the future that the main thread waits for is that of its  *)
(* own task, whose loop over the interfaces leaves none out.               *)
(***************************************************************************)
THEOREM SetUpReturnsWhenUp == Spec => []SetUpIsSynchronous
<1>1. Spec => []SetUpInv
  BY InitSetUp, NextSetUp, AlwaysControl, PTL DEF Spec
<1>2. SetUpInv => SetUpIsSynchronous
  BY DEF SetUpInv
<1>3. QED
  BY <1>1, <1>2, PTL
=============================================================================
