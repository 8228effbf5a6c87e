--------------------------- MODULE PingPong_proofs ---------------------------
(***************************************************************************)
(* Theorems about the example programs, for any number of datagrams and    *)
(* any size of the heap.  The exchange is passed on like a token: at most  *)
(* one item of it, a call of an application, a datagram or an echo, is     *)
(* somewhere between the two peers, and where it is and what it carries    *)
(* follows from what the peers have received.                              *)
(***************************************************************************)
EXTENDS PingPong, NetworkDelivery_proofs, FiniteSetTheorems

-----------------------------------------------------------------------------
(* Where the item is.                                                      *)

(* A task that belongs to the exchange. *)
IsItem(t) ==
    \/ t.kind \in {"start", "ping", "send"}
    \/ t.kind \in {"broadcast", "input"} /\ t.frame.data # Announcement

NoItem(s) == \A n \in DOMAIN s : ~ IsItem(s[n])
OneItem(s, t) ==
    /\ IsItem(t)
    /\ \E n \in DOMAIN s : s[n] = t /\ \A m \in DOMAIN s : IsItem(s[m]) => m = n

(* The broadcast in progress, as long as there is an interface to call. *)
Aloft == todo[Bus] # <<>> /\ IsItem(Head(batch[Bus]))

(* The item is nowhere, waits as task t of x, or is being broadcast. *)
Nowhere == ~ Aloft /\ \A y \in Executor : NoItem(Waiting(y))
At(x, t) ==
    /\ ~ Aloft /\ OneItem(Waiting(x), t)
    /\ \A y \in Executor \ {x} : NoItem(Waiting(y))
Flying == Aloft /\ \A y \in Executor : NoItem(Waiting(y))

-----------------------------------------------------------------------------
(* What the item is.                                                       *)

ByOne == Len(Taken(One))
ByTwo == Len(Taken(Two))

(* The next datagram, who sends it, who receives it and what its memory is. *)
Counter == ByOne + ByTwo + 1
Sender == IF ByOne = ByTwo THEN Two ELSE One
Recipient == IF ByOne = ByTwo THEN One ELSE Two
Paid == heap[Sender] > IF ByOne = ByTwo THEN ByOne ELSE ByTwo

Carries(t, kind, data) == t.kind = kind /\ t.frame.data = data

(* The calls of the main thread. *)
Starting(x, t) ==
    /\ scenario = "udp-ping-pong" /\ t = StartTask /\ ByOne = 0 /\ ByTwo = 0
    /\ \/ x = One /\ step = "first result" /\ bound = {}
       \/ x = Two /\ step = "second result" /\ bound = {One}

Exchanging(x, t) ==
    /\ scenario = "udp-ping-pong" /\ step \in {"second result", "wait"}
    /\ bound = Host /\ Counter <= MaxCounter
    /\ \/ x = Sender /\ t = SendTask(Counter)
       \/ x = Bus /\ Carries(t, "broadcast", Datagram(Counter))
              /\ t.frame.from = PortOf(Sender) /\ Paid
       \/ x = Recipient /\ Carries(t, "input", Datagram(Counter)) /\ Paid

Pinging(x, t) ==
    /\ scenario = "icmp-ping" /\ One \notin completion
    /\ step \in {"first result", "wait"}
    /\ \/ x = One /\ t = PingTask /\ step = "first result"
       \/ x = Bus /\ Carries(t, "broadcast", Echo) /\ t.frame.from = PortOf(One)
       \/ x = Two /\ Carries(t, "input", Echo)
       \/ x = Bus /\ Carries(t, "broadcast", EchoReply) /\ t.frame.from = PortOf(Two)
       \/ x = One /\ Carries(t, "input", EchoReply)

Stage(x, t) == Starting(x, t) \/ Exchanging(x, t) \/ Pinging(x, t)

Replied == \E n \in DOMAIN received[PortOf(One)] : received[PortOf(One)][n].data = EchoReply

(* There is no item: before, between and after the calls, or it was lost. *)
Resting ==
    \/ /\ step = "first" /\ bound = {} /\ completion = {}
       /\ ByOne = 0 /\ ByTwo = 0
    \/ /\ scenario = "udp-ping-pong" /\ ByOne = 0 /\ ByTwo = 0
       /\ \/ step = "first result" /\ (bound = {One} \/ main = "raised")
          \/ step = "second" /\ bound = {One}
    \/ scenario = "udp-ping-pong" /\ step \in {"second result", "wait"}
    \/ /\ scenario = "icmp-ping" /\ step \in {"first result", "wait"}
       /\ One \in completion => Replied

ItemInv ==
    \/ Nowhere /\ Resting
    \/ \E x \in Executor : \E t \in Range(Waiting(x)) : At(x, t) /\ Stage(x, t)
    \/ Flying /\ \E t \in {Head(batch[Bus])} : Stage(Bus, t)

(* The bus has one interface to call, the one that is not the sender's. *)
TodoInv ==
    \A n \in DOMAIN todo[Bus] :
        n = 1 /\ todo[Bus][n] # Head(batch[Bus]).frame.from

(* What the peers have taken. *)
TakenInv ==
    /\ ByOne = ByTwo \/ ByOne = ByTwo + 1
    /\ ByOne + ByTwo <= MaxCounter
    /\ ByOne <= heap[Two] /\ ByTwo <= heap[One]
    /\ \A k \in 1 .. ByOne : Taken(One)[k].data = Datagram(2 * k - 1)
    /\ \A k \in 1 .. ByTwo : Taken(Two)[k].data = Datagram(2 * k)
    /\ scenario = "udp-ping-pong" =>
           /\ One \in completion => 2 * ByOne >= MaxCounter
           /\ Two \in completion => 2 * ByTwo + 1 >= MaxCounter

(* The main thread waits for the future of a task of its own. *)
Calling ==
    \/ main = "result"
    \/ main = "program" /\ step \in {"first result", "second result"}

CallInv ==
    /\ \A h \in Host : OneByMain(Unfinished(h))
    /\ \A h, k \in Host : h = k \/ NoneByMain(Unfinished(h)) \/ NoneByMain(Unfinished(k))
    /\ MainThread \in answered \/ ~ Calling => \A h \in Host : NoneByMain(Unfinished(h))
    /\ MainThread \in answered => Calling

StopInv ==
    main \in {"stop", "join", "done"} => step = "wait" /\ Awaited \subseteq completion

AppInv ==
    /\ AppTypeOK /\ ControlInv
    /\ ItemInv /\ TodoInv /\ TakenInv /\ CallInv /\ StopInv

-----------------------------------------------------------------------------
(* Facts about the constants and the records.                              *)

(* The two peers have an interface each. *)
LEMMA PeerFacts ==
    /\ One \in Host /\ Two \in Host /\ One # Two /\ Host = {One, Two}
    /\ One \in Executor /\ Two \in Executor /\ One # Bus /\ Two # Bus /\ Bus \in Executor
    /\ \A h \in Host : PortOf(h) \in Port /\ HostOf[PortOf(h)] = h
    /\ \A i \in Port : i = PortOf(HostOf[i])
    /\ Port = {PortOf(One), PortOf(Two)} /\ PortOf(One) # PortOf(Two)
<1>1. Hosts \in Seq(Host) /\ Len(Hosts) = 2 /\ IsInjective(Hosts)
  BY NetworkAssumption, PeersAssumption
<1>2. One \in Host /\ Two \in Host /\ One # Two
  <2>1. Hosts[1] \in Host /\ Hosts[2] \in Host /\ 1 \in DOMAIN Hosts /\ 2 \in DOMAIN Hosts
    BY <1>1
  <2>2. Hosts[1] = Hosts[2] => 1 = 2
    BY <1>1, <2>1, Zenon DEF IsInjective
  <2>3. Hosts[1] # Hosts[2]
    BY <2>2
  <2>4. QED
    BY <2>1, <2>3 DEF One, Two
<1>3. \A h \in Host : \E n \in DOMAIN Hosts : h = Hosts[n]
  BY DEF Host, Range
<1>4. Host = {One, Two}
  <2>1. DOMAIN Hosts = 1 .. 2
    BY <1>1
  <2>2. \A n \in 1 .. 2 : n = 1 \/ n = 2
    OBVIOUS
  <2>3. \A h \in Host : h = One \/ h = Two
    BY <1>3, <2>1, <2>2 DEF One, Two
  <2>4. QED
    BY <1>2, <2>3
<1>5. ASSUME NEW h \in Host
      PROVE  PortOf(h) \in Port /\ {i \in Port : HostOf[i] = h} = {PortOf(h)}
  <2>1. PortsOf(h) \in Seq(Port) /\ Len(PortsOf(h)) = 1
    BY PortsOfFacts, PeersAssumption
  <2>2. Range(PortsOf(h)) = {PortsOf(h)[1]} /\ PortsOf(h)[1] \in Port
    BY <2>1 DEF Range
  <2>3. QED
    BY <2>2, PortsOfFacts DEF PortOf
<1>6. \A h \in Host : PortOf(h) \in Port /\ HostOf[PortOf(h)] = h
  BY <1>5
<1>7. \A i \in Port : HostOf[i] \in Host /\ i = PortOf(HostOf[i])
  BY <1>5, NetworkAssumption
<1>8. Port = {PortOf(One), PortOf(Two)} /\ PortOf(One) # PortOf(Two)
  BY <1>2, <1>4, <1>6, <1>7
<1>9. QED
  BY <1>2, <1>4, <1>6, <1>7, <1>8, OrderFacts

(* The payloads are told apart. *)
LEMMA PayloadFacts ==
    /\ Announcement \in Payloads /\ Echo \in Payloads /\ EchoReply \in Payloads
    /\ \A n \in Nat : Datagram(n) \in Payloads /\ Datagram(n)[1] = "udp" /\ Datagram(n)[2] = n
    /\ \A n : Datagram(n) \notin {Announcement, Echo, EchoReply}
    /\ Announcement # Echo /\ Announcement # EchoReply /\ Echo # EchoReply
    /\ Announcement[1] # "udp" /\ Echo[1] # "udp" /\ EchoReply[1] # "udp"
  BY DEF Announcement, Echo, EchoReply, Payloads, Datagram

(* The tasks of the applications. *)
LEMMA AppTaskTypes ==
    /\ \A h \in Host : StartTask \in TasksOf(h) /\ PingTask \in TasksOf(h)
    /\ \A h \in Host, n \in Nat : SendTask(n) \in TasksOf(h)
    /\ \A n : SendTask(n).kind = "send" /\ SendTask(n).by = NoOne
    /\ StartTask.kind = "start" /\ StartTask.by = MainThread
    /\ PingTask.kind = "ping" /\ PingTask.by = MainThread
    /\ \A n \in Nat : SendTask(n).counter = n
<1>1. StartTask \in UserTasks /\ PingTask \in UserTasks
  BY DEF UserTasks, StartTask, PingTask
<1>2. \A n \in Nat : SendTask(n) \in UserTasks
  BY DEF UserTasks, SendTask
<1>3. \A h \in Host : UserTasks \subseteq TasksOf(h)
  BY NetworkAssumption DEF TasksOf, HostTasks
<1>4. /\ \A n : SendTask(n).kind = "send" /\ SendTask(n).by = NoOne /\ SendTask(n).counter = n
      /\ StartTask.kind = "start" /\ StartTask.by = MainThread
      /\ PingTask.kind = "ping" /\ PingTask.by = MainThread
  BY DEF StartTask, PingTask, SendTask
<1>5. QED
  BY <1>1, <1>2, <1>3, <1>4

(* Which of the tasks that are made belong to the exchange. *)
LEMMA ItemKinds ==
    /\ IsItem(StartTask) /\ IsItem(PingTask) /\ \A n : IsItem(SendTask(n))
    /\ \A c : ~ IsItem(SetUpTask(c))
    /\ \A f : IsItem(BroadcastTask(f)) <=> f.data # Announcement
    /\ \A i, f : IsItem(InputTask(i, f)) <=> f.data # Announcement
  BY DEF IsItem, StartTask, PingTask, SendTask, SetUpTask, BroadcastTask, InputTask

-----------------------------------------------------------------------------
(* Items in a sequence of tasks.                                           *)

(* A task is added at the end. *)
LEMMA ItemAdds ==
    ASSUME NEW T, NEW s \in Seq(T), NEW t \in T, NEW r, Adds(s, t, r)
    PROVE  /\ NoItem(s) /\ ~ IsItem(t) => NoItem(r)
           /\ NoItem(s) /\ IsItem(t) => OneItem(r, t)
           /\ \A u : OneItem(s, u) /\ ~ IsItem(t) => OneItem(r, u)
<1>1. /\ DOMAIN s = 1 .. Len(s) /\ DOMAIN r = 1 .. Len(s) + 1 /\ Len(s) \in Nat
      /\ r[Len(s) + 1] = t /\ \A n \in 1 .. Len(s) : r[n] = s[n]
  BY AddsFacts
<1>2. /\ \A n \in DOMAIN r : \/ n \in DOMAIN s /\ r[n] = s[n]
                             \/ n = Len(s) + 1 /\ r[n] = t
      /\ \A n \in DOMAIN s : n \in DOMAIN r /\ r[n] = s[n]
      /\ Len(s) + 1 \in DOMAIN r /\ r[Len(s) + 1] = t
  BY <1>1
<1>3. NoItem(s) /\ ~ IsItem(t) => NoItem(r)
  BY <1>2 DEF NoItem
<1>4. ASSUME NoItem(s), IsItem(t) PROVE OneItem(r, t)
  BY <1>2, <1>4 DEF NoItem, OneItem
<1>5. ASSUME NEW u, OneItem(s, u), ~ IsItem(t) PROVE OneItem(r, u)
  BY <1>2, <1>5 DEF OneItem
<1>6. QED
  BY <1>3, <1>4, <1>5

(* The first task is taken. *)
LEMMA ItemTail ==
    ASSUME NEW T, NEW s \in Seq(T), s # <<>>
    PROVE  /\ NoItem(s) => NoItem(Tail(s)) /\ ~ IsItem(Head(s))
           /\ \A u : OneItem(s, u) /\ ~ IsItem(Head(s)) => OneItem(Tail(s), u)
           /\ \A u : OneItem(s, u) /\ IsItem(Head(s)) => u = Head(s) /\ NoItem(Tail(s))
<1> DEFINE r == Tail(s)
<1>1. /\ DOMAIN s = 1 .. Len(s) /\ DOMAIN r = 1 .. Len(s) - 1 /\ Len(s) \in Nat \ {0}
      /\ \A n \in 1 .. Len(s) - 1 : r[n] = s[n + 1]
      /\ Head(s) = s[1]
  OBVIOUS
<1> HIDE DEF r
<1>2. /\ 1 \in DOMAIN s
      /\ \A n \in DOMAIN r : n + 1 \in DOMAIN s /\ n + 1 # 1 /\ r[n] = s[n + 1] /\ n \in Nat
      /\ \A n \in DOMAIN s : n # 1 => n - 1 \in DOMAIN r /\ r[n - 1] = s[n] /\ n \in Nat
  BY <1>1
<1>3. NoItem(s) => NoItem(r) /\ ~ IsItem(Head(s))
  BY <1>1, <1>2 DEF NoItem
<1>4. ASSUME NEW u, OneItem(s, u), ~ IsItem(Head(s)) PROVE OneItem(r, u)
  <2>1. PICK n \in DOMAIN s : s[n] = u /\ \A m \in DOMAIN s : IsItem(s[m]) => m = n
    BY <1>4 DEF OneItem
  <2>2. IsItem(u) /\ n # 1
    BY <1>1, <1>4, <2>1 DEF OneItem
  <2>3. n - 1 \in DOMAIN r /\ r[n - 1] = u
    BY <1>2, <2>1, <2>2
  <2>4. \A m \in DOMAIN r : IsItem(r[m]) => m = n - 1
    <3> SUFFICES ASSUME NEW m \in DOMAIN r, IsItem(r[m]) PROVE m = n - 1
      OBVIOUS
    <3>1. m + 1 = n /\ m \in Nat
      BY <1>2, <2>1
    <3>2. QED
      BY <3>1
  <2>5. QED
    BY <2>2, <2>3, <2>4 DEF OneItem
<1>5. ASSUME NEW u, OneItem(s, u), IsItem(Head(s)) PROVE u = Head(s) /\ NoItem(r)
  <2>1. PICK n \in DOMAIN s : s[n] = u /\ \A m \in DOMAIN s : IsItem(s[m]) => m = n
    BY <1>5 DEF OneItem
  <2>2. n = 1 /\ u = Head(s)
    BY <1>1, <1>2, <1>5, <2>1
  <2>3. \A m \in DOMAIN r : ~ IsItem(r[m])
    BY <1>2, <2>1, <2>2
  <2>4. QED
    BY <2>2, <2>3 DEF NoItem
<1>6. QED
  BY <1>3, <1>4, <1>5 DEF r

(* The item of a sequence is one of its elements, and the only one. *)
LEMMA ItemIsElement ==
    ASSUME NEW T, NEW s \in Seq(T), NEW t, OneItem(s, t)
    PROVE  t \in Range(s) /\ t \in T /\ IsItem(t) /\ ~ NoItem(s)
  BY DEF OneItem, NoItem, Range

-----------------------------------------------------------------------------
(* What the steps do to the tasks that wait.                               *)

(* Worker b begins a task; b = MainThread is a step in which none begins. *)
Takes(b) ==
    /\ UNCHANGED batch
    /\ IF b \in Executor
       THEN thread[b] = "next" /\ batch[b] # <<>> /\ thread' = [thread EXCEPT ![b] = "busy"]
       ELSE UNCHANGED thread

Left(b, y) == IF y = b THEN Tail(Waiting(y)) ELSE Waiting(y)

(* A step that schedules nothing, or task t in executor z. *)
LEMMA StepEffect ==
    ASSUME ControlInv, NEW b, Takes(b), NEW y \in Executor
    PROVE  /\ UNCHANGED queue => Waiting(y)' = Left(b, y) /\ Unfinished(y)' = Unfinished(y)
           /\ \A z \in Executor : \A t \in TasksOf(z) : Schedule(z, t) =>
                  IF y = z /\ status[z] = "Running"
                  THEN Adds(Left(b, y), t, Waiting(y)') /\ Adds(Unfinished(y), t, Unfinished(y)')
                  ELSE Waiting(y)' = Left(b, y) /\ Unfinished(y)' = Unfinished(y)
           /\ y = b => Waiting(y) # <<>> /\ Head(Waiting(y)) = Head(batch[y])
           /\ Left(b, y) \in Seq(TasksOf(y))
<1>1. thread \in [Executor -> {"new", "starting", "loop", "next", "busy", "blocked",
                               "finally", "ended"}]
  BY DEF ControlInv, WorkerTypes
<1>2. UNCHANGED batch /\ Calm(y) /\ (Begins(y) <=> y = b)
  BY <1>1 DEF Takes, Calm, Begins
<1>3. Waiting(y) \in Seq(TasksOf(y)) /\ queue[y] \in Seq(TasksOf(y))
  BY WaitingType DEF ControlInv, QueueTypes
<1>4. ASSUME NEW t, queue'[y] = queue[y]
      PROVE  /\ Waiting(y)' = Left(b, y) /\ Unfinished(y)' = Unfinished(y)
  BY <1>2, <1>4, QueueEffect DEF Left
<1>5. ASSUME NEW t \in TasksOf(y), Adds(queue[y], t, queue'[y])
      PROVE  Adds(Left(b, y), t, Waiting(y)') /\ Adds(Unfinished(y), t, Unfinished(y)')
  <2>1. queue'[y] # queue[y]
    BY <1>3, <1>5, AddsFacts
  <2>2. /\ Adds(Unfinished(y), t, Unfinished(y)')
        /\ LET w == IF Begins(y) THEN Tail(Waiting(y)) ELSE Waiting(y)
           IN  Adds(w, t, Waiting(y)')
    BY <1>2, <1>5, <2>1, QueueEffect
  <2>3. QED
    BY <1>2, <2>2 DEF Left
<1>6. y = b => Waiting(y) # <<>> /\ Head(Waiting(y)) = Head(batch[y])
  <2>1. SUFFICES ASSUME y = b PROVE Waiting(y) # <<>> /\ Head(Waiting(y)) = Head(batch[y])
    OBVIOUS
  <2>2. Begins(y) /\ b \in Executor
    BY <1>2, <2>1
  <2>3. Waiting(y) = Whole(batch[y], queue[y]) /\ batch[y] # <<>>
    BY <2>2, WaitingCases DEF Begins, Active
  <2>4. batch[y] \in Seq(TasksOf(y))
    BY DEF ControlInv, QueueTypes
  <2>5. QED
    BY <1>3, <2>3, <2>4, LaterTail
<1>7. Left(b, y) \in Seq(TasksOf(y))
  BY <1>3, <1>6 DEF Left
<1>8. UNCHANGED queue => Waiting(y)' = Left(b, y) /\ Unfinished(y)' = Unfinished(y)
  BY <1>4
<1>9. ASSUME NEW z \in Executor, NEW t \in TasksOf(z), Schedule(z, t)
      PROVE  IF y = z /\ status[z] = "Running"
             THEN Adds(Left(b, y), t, Waiting(y)') /\ Adds(Unfinished(y), t, Unfinished(y)')
             ELSE Waiting(y)' = Left(b, y) /\ Unfinished(y)' = Unfinished(y)
  <2>1. IF y = z /\ status[z] = "Running" THEN Adds(queue[y], t, queue'[y])
                                          ELSE queue'[y] = queue[y]
    BY <1>9, ScheduleCases
  <2>2. QED
    BY <1>4, <1>5, <1>9, <2>1
<1>10. QED
  BY <1>6, <1>7, <1>8, <1>9

(* What is left of the item when b begins its task. *)
LEMMA LeftItems ==
    ASSUME ControlInv, NEW b, Takes(b), NEW y \in Executor
    PROVE  /\ NoItem(Waiting(y)) => NoItem(Left(b, y)) /\ (y = b => ~ IsItem(Head(batch[b])))
           /\ \A u : OneItem(Waiting(y), u) /\ (y = b => ~ IsItem(Head(batch[b])))
                         => OneItem(Left(b, y), u)
           /\ \A u : OneItem(Waiting(y), u) /\ y = b /\ IsItem(Head(batch[b]))
                         => u = Head(batch[b]) /\ NoItem(Left(b, y))
<1>1. Waiting(y) \in Seq(TasksOf(y))
  BY WaitingType
<1>2. y = b => Waiting(y) # <<>> /\ Head(Waiting(y)) = Head(batch[y])
  BY StepEffect
<1>3. CASE y = b
  BY <1>1, <1>2, <1>3, ItemTail DEF Left
<1>4. CASE y # b
  BY <1>4 DEF Left
<1>5. QED
  BY <1>3, <1>4

-----------------------------------------------------------------------------
(* What the steps do to the item.                                          *)

(* The item is where it was, or there was none and there is none. *)
SameItem ==
    /\ Nowhere => Nowhere'
    /\ \A x \in Executor : \A t : At(x, t) => At(x, t)'
    /\ Flying => Flying' /\ Head(batch'[Bus]) = Head(batch[Bus])

(* No item begins and none is made. *)
LEMMA ItemStays ==
    ASSUME ControlInv, NEW b, Takes(b), b \in Executor => ~ IsItem(Head(batch[b])),
           \/ UNCHANGED queue
           \/ \E z \in Executor : \E t \in TasksOf(z) : Schedule(z, t) /\ ~ IsItem(t),
           Aloft' <=> Aloft
    PROVE  SameItem
<1>1. ASSUME NEW y \in Executor
      PROVE  /\ NoItem(Waiting(y)) => NoItem(Waiting(y)')
             /\ \A u : OneItem(Waiting(y), u) => OneItem(Waiting(y)', u)
  <2>1. /\ NoItem(Waiting(y)) => NoItem(Left(b, y))
        /\ \A u : OneItem(Waiting(y), u) => OneItem(Left(b, y), u)
    BY LeftItems
  <2>2. Left(b, y) \in Seq(TasksOf(y))
    BY StepEffect
  <2>3. \/ Waiting(y)' = Left(b, y)
        \/ \E t \in TasksOf(y) : ~ IsItem(t) /\ Adds(Left(b, y), t, Waiting(y)')
    <3>1. CASE UNCHANGED queue
      BY <3>1, StepEffect
    <3>2. ASSUME NEW z \in Executor, NEW t \in TasksOf(z), Schedule(z, t), ~ IsItem(t)
          PROVE  \/ Waiting(y)' = Left(b, y)
                 \/ \E u \in TasksOf(y) : ~ IsItem(u) /\ Adds(Left(b, y), u, Waiting(y)')
      <4>1. IF y = z /\ status[z] = "Running"
            THEN Adds(Left(b, y), t, Waiting(y)') /\ Adds(Unfinished(y), t, Unfinished(y)')
            ELSE Waiting(y)' = Left(b, y) /\ Unfinished(y)' = Unfinished(y)
        BY <3>2, StepEffect
      <4>2. QED
        BY <3>2, <4>1
    <3>3. QED
      BY <3>1, <3>2
  <2>4. CASE Waiting(y)' = Left(b, y)
    BY <2>1, <2>4
  <2>5. ASSUME NEW t \in TasksOf(y), ~ IsItem(t), Adds(Left(b, y), t, Waiting(y)')
        PROVE  /\ NoItem(Waiting(y)) => NoItem(Waiting(y)')
               /\ \A u : OneItem(Waiting(y), u) => OneItem(Waiting(y)', u)
    BY <2>1, <2>2, <2>5, ItemAdds
  <2>6. QED
    BY <2>3, <2>4, <2>5
<1>2. Nowhere => Nowhere'
  BY <1>1 DEF Nowhere
<1>3. \A x \in Executor : \A t : At(x, t) => At(x, t)'
  BY <1>1 DEF At
<1>4. Flying => Flying' /\ Head(batch'[Bus]) = Head(batch[Bus])
  BY <1>1 DEF Flying, Takes
<1>5. QED
  BY <1>2, <1>3, <1>4 DEF SameItem

(* A worker begins with an item: it is the only one. *)
LEMMA ItemTaken ==
    ASSUME ControlInv, ItemInv, NEW h \in Executor, Takes(h), IsItem(Head(batch[h]))
    PROVE  /\ At(h, Head(batch[h])) /\ Stage(h, Head(batch[h])) /\ ~ Aloft
           /\ \A y \in Executor : NoItem(Left(h, y))
<1>1. ~ NoItem(Waiting(h))
  BY LeftItems
<1>2. ~ Nowhere /\ ~ Flying
  BY <1>1 DEF Nowhere, Flying
<1>3. PICK x \in Executor : \E u \in Range(Waiting(x)) : At(x, u) /\ Stage(x, u)
  BY <1>2 DEF ItemInv
<1>4. PICK t \in Range(Waiting(x)) : At(x, t) /\ Stage(x, t)
  BY <1>3
<1>5. x = h
  BY <1>1, <1>4 DEF At
<1>6. t = Head(batch[h]) /\ NoItem(Left(h, h))
  BY <1>4, <1>5, LeftItems DEF At
<1>7. \A y \in Executor \ {h} : NoItem(Left(h, y))
  BY <1>4, <1>5, LeftItems DEF At
<1>8. QED
  BY <1>4, <1>5, <1>6, <1>7 DEF At

(* And passes it on, or does not. *)
LEMMA ItemMade ==
    ASSUME ControlInv, NEW b, Takes(b), \A y \in Executor : NoItem(Left(b, y)), ~ Aloft'
    PROVE  /\ UNCHANGED queue => Nowhere'
           /\ \A z \in Executor : \A t \in TasksOf(z) : Schedule(z, t) /\ IsItem(t) =>
                  IF status[z] = "Running" THEN At(z, t)' /\ t \in Range(Waiting(z)')
                                           ELSE Nowhere'
<1>1. UNCHANGED queue => Nowhere'
  BY StepEffect DEF Nowhere
<1>2. ASSUME NEW z \in Executor, NEW t \in TasksOf(z), Schedule(z, t), IsItem(t)
      PROVE  IF status[z] = "Running" THEN At(z, t)' /\ t \in Range(Waiting(z)') ELSE Nowhere'
  <2>1. ASSUME NEW y \in Executor
        PROVE  IF y = z /\ status[z] = "Running" THEN Adds(Left(b, y), t, Waiting(y)')
                                                 ELSE Waiting(y)' = Left(b, y)
    BY <1>2, StepEffect
  <2>2. CASE status[z] = "Running"
    <3>1. \A y \in Executor \ {z} : NoItem(Waiting(y)')
      BY <2>1
    <3>2. Adds(Left(b, z), t, Waiting(z)') /\ Left(b, z) \in Seq(TasksOf(z))
      BY <2>1, <2>2, StepEffect
    <3>3. OneItem(Waiting(z)', t)
      BY <1>2, <3>2, ItemAdds
    <3>4. t \in Range(Waiting(z)')
      BY <3>3 DEF OneItem, Range
    <3>5. At(z, t)'
      BY <3>1, <3>3 DEF At
    <3>6. QED
      BY <2>2, <3>4, <3>5
  <2>3. CASE status[z] # "Running"
    BY <2>1, <2>3 DEF Nowhere
  <2>4. QED
    BY <2>2, <2>3
<1>3. QED
  BY <1>1, <1>2

-----------------------------------------------------------------------------
(* The control invariant of the network holds for the examples too.        *)

(* What a task of an application schedules: a task of the right type, which *)
(* the main thread does not wait for.                                       *)
MaySchedule ==
    \/ UNCHANGED queue
    \/ \E z \in Executor : \E t \in TasksOf(z) : Schedule(z, t) /\ t.by # MainThread

(* The fields of the tasks that the applications read. *)
LEMMA AppTaskFields ==
    ASSUME NEW h \in Host, NEW t \in TasksOf(h)
    PROVE  /\ t.kind = "send" => t.counter \in Nat
           /\ t.kind = "input" => t.frame \in Frames /\ t.frame.data \in Payloads
                                  /\ t.on = PortOf(h)
<1>1. t.kind = "send" => t.counter \in Nat
  <2>1. \A u \in UserTasks : u.kind = "send" => u.counter \in Nat
    BY DEF UserTasks, UserTask
  <2>2. \A u \in InputTasks({i \in Port : HostOf[i] = h}) : u.kind # "send"
    BY DEF InputTasks
  <2>3. \A u \in [kind : {"set_up"}, by : Caller \cup {NoOne}] : u.kind # "send"
    OBVIOUS
  <2>4. QED
    BY <2>1, <2>2, <2>3, NetworkAssumption DEF TasksOf, HostTasks
<1>2. t.kind = "input" => t.on \in Port /\ HostOf[t.on] = h /\ t.frame \in Frames
  BY TaskFields
<1>3. \A f \in Frames : f.data \in Payloads
  BY DEF Frames, FramesFrom
<1>4. QED
  BY <1>1, <1>2, <1>3, PeerFacts

(* A peer's frame is a task for the bus. *)
LEMMA TransmitSchedules ==
    ASSUME ControlInv, NEW h \in Host, NEW data \in Payloads, Transmit(h, data)
    PROVE  \E f \in Frames : /\ f.from = PortOf(h) /\ f.data = data
                             /\ BroadcastTask(f) \in TasksOf(Bus)
                             /\ BroadcastTask(f).by # MainThread
                             /\ Schedule(Bus, BroadcastTask(f))
<1> DEFINE i == PortOf(h)
           f == [from |-> i, nr |-> FrameCount(i) + 1, data |-> data]
<1>1. i \in Port /\ FrameCount(i) \in Nat
  BY PeerFacts, FrameCountType
<1>2. f \in Frames
  BY <1>1 DEF Frames, FramesFrom
<1>3. BroadcastTask(f) \in TasksOf(Bus) /\ BroadcastTask(f).by # MainThread
  BY <1>2, TaskTypes, NetworkAssumption DEF BroadcastTask, Caller
<1>4. Schedule(Bus, BroadcastTask(f))
  BY DEF Transmit, Send
<1>5. QED
  BY <1>2, <1>3, <1>4

(* A task of an application begins and takes its one step. *)
LEMMA TaskControl ==
    ASSUME ControlInv, NEW h \in Host, Takes(h), MaySchedule,
           UNCHANGED <<status, toFinish, todo, answered, mainVars, replies, calls, log, histVars>>,
           received' \in [Port -> Seq(Frames)]
    PROVE  ControlInv'
<1>0. h \in Executor
  BY OrderFacts
<1>1. DOMAIN queue' = Executor /\ \A y \in Executor : queue'[y] \in Seq(TasksOf(y))
  <2>1. CASE UNCHANGED queue
    BY <2>1 DEF ControlInv, QueueTypes
  <2>2. ASSUME NEW z \in Executor, NEW t \in TasksOf(z), Schedule(z, t)
        PROVE  DOMAIN queue' = Executor /\ \A y \in Executor : queue'[y] \in Seq(TasksOf(y))
    BY <2>2, ScheduleQueue DEF ControlInv
  <2>3. QED
    BY <2>1, <2>2 DEF MaySchedule
<1>2. QueueTypes'
  BY <1>1 DEF ControlInv, QueueTypes, Takes
<1>3. /\ thread[h] = "next" /\ batch[h] # <<>> /\ thread' = [thread EXCEPT ![h] = "busy"]
      /\ UNCHANGED batch
  BY <1>0 DEF Takes
<1>4. WorkerTypes'
  BY <1>3 DEF ControlInv, WorkerTypes
<1>5. EnvTypes'
  BY DEF ControlInv, EnvTypes, histVars
<1>6. \A y \in Executor : WorkerInv(y)'
  BY <1>3 DEF ControlInv, WorkerInv, WorkerTypes, Active
<1>7. \A y \in Executor : thread[y] = "new" => thread'[y] = "new"
  BY <1>3 DEF ControlInv, WorkerTypes
<1>8. MainTypes' /\ MainInv'
  BY <1>7, MainUndisturbed
<1>9. QED
  BY <1>2, <1>4, <1>5, <1>6, <1>8 DEF ControlInv

(* What is known when a task of a host begins. *)
LEMMA TaskBegins ==
    ASSUME ControlInv, NEW h \in Host, NEW kind, Begin(h, kind),
           thread' = [thread EXCEPT ![h] = "busy"], UNCHANGED batch
    PROVE  /\ h \in Executor /\ Takes(h) /\ Head(batch[h]) \in TasksOf(h)
           /\ Head(batch[h]).kind = kind
<1>1. h \in Executor
  BY OrderFacts
<1>2. batch[h] \in Seq(TasksOf(h)) /\ batch[h] # <<>>
  BY <1>1 DEF Begin, ControlInv, QueueTypes
<1>3. Head(batch[h]) \in TasksOf(h)
  BY <1>2
<1>4. QED
  BY <1>1, <1>3 DEF Begin, Takes

(* The steps of the applications in the threads of the hosts. *)
LEMMA AppTaskControl ==
    ASSUME ControlInv, NEW h \in Host, AppStart(h) \/ AppSend(h) \/ AppPing(h)
    PROVE  ControlInv' /\ Takes(h) /\ MaySchedule
<1>1. \E kind : AppTask(h, kind)
  BY DEF AppStart, AppSend, AppPing
<1>2. PICK kind : AppTask(h, kind)
  BY <1>1
<1>3. h \in Executor /\ Takes(h) /\ Head(batch[h]) \in TasksOf(h) /\ Head(batch[h]).kind = kind
  BY <1>2, TaskBegins DEF AppTask
<1>4. ASSUME NEW n \in Nat, SendPing(h, n) PROVE MaySchedule
  <2>1. CASE UNCHANGED queue
    BY <2>1 DEF MaySchedule
  <2>2. CASE Transmit(h, Datagram(n))
    BY <2>2, PayloadFacts, TransmitSchedules, OrderFacts DEF MaySchedule
  <2>3. QED
    BY <1>4, <2>1, <2>2 DEF SendPing
<1>5. MaySchedule
  <2>1. CASE AppStart(h)
    BY <1>4, <2>1 DEF AppStart, MaySchedule
  <2>2. CASE AppSend(h)
    <3>1. Head(batch[h]).kind = "send"
      BY <2>2 DEF AppSend, AppTask, Begin
    <3>2. Head(batch[h]).counter \in Nat
      BY <1>3, <3>1, AppTaskFields
    <3>3. QED
      BY <1>4, <2>2, <3>2 DEF AppSend
  <2>3. CASE AppPing(h)
    BY <2>3, PayloadFacts, TransmitSchedules, OrderFacts DEF AppPing, MaySchedule
  <2>4. QED
    BY <2>1, <2>2, <2>3
<1>6. /\ UNCHANGED <<status, toFinish, todo, answered, mainVars, replies, calls, log, histVars>>
      /\ UNCHANGED received
  BY <1>2 DEF AppTask, envVars
<1>7. received' \in [Port -> Seq(Frames)]
  BY <1>6 DEF ControlInv, EnvTypes
<1>8. QED
  BY <1>3, <1>5, <1>6, <1>7, TaskControl

(* The input of a frame, and what the application does in it. *)
LEMMA AppInputControl ==
    ASSUME ControlInv, NEW h \in Host, AppInput(h)
    PROVE  /\ ControlInv' /\ Takes(h) /\ MaySchedule
           /\ Head(batch[h]).kind = "input" /\ Head(batch[h]).frame \in Frames
           /\ Head(batch[h]).frame.data \in Payloads
           /\ received' = [received EXCEPT ![PortOf(h)] = Append(@, Head(batch[h]).frame)]
<1> DEFINE data == Head(batch[h]).frame.data
<1>1. InputData(h) /\ UNCHANGED replies
  BY DEF AppInput
<1>2. h \in Executor /\ Takes(h) /\ Head(batch[h]) \in TasksOf(h) /\ Head(batch[h]).kind = "input"
  BY <1>1, TaskBegins DEF InputData
<1>3. /\ Head(batch[h]).frame \in Frames /\ data \in Payloads
      /\ Head(batch[h]).on = PortOf(h)
  BY <1>2, AppTaskFields
<1>4. MaySchedule
  <2>1. CASE UNCHANGED queue
    BY <2>1 DEF MaySchedule
  <2>2. CASE Transmit(h, EchoReply)
    BY <2>2, PayloadFacts, TransmitSchedules, OrderFacts DEF MaySchedule
  <2>3. CASE ReceiveData(h, data[2])
    <3>1. data[2] + 1 \in Nat
      BY <1>3 DEF Payloads
    <3>2. SendTask(data[2] + 1) \in TasksOf(h) /\ SendTask(data[2] + 1).by # MainThread
      BY <3>1, AppTaskTypes, NetworkAssumption DEF Caller
    <3>3. CASE Answer(h, data[2])
      BY <1>2, <3>2, <3>3 DEF Answer, MaySchedule
    <3>4. QED
      BY <2>1, <2>3, <3>3 DEF ReceiveData
  <2>4. QED
    BY <2>1, <2>2, <2>3 DEF AppInput
<1>5. received' = [received EXCEPT ![PortOf(h)] = Append(@, Head(batch[h]).frame)]
  BY <1>1, <1>3 DEF InputData
<1>6. received' \in [Port -> Seq(Frames)]
  BY <1>3, <1>5, PeerFacts DEF ControlInv, EnvTypes
<1>7. UNCHANGED <<status, toFinish, todo, answered, mainVars, replies, calls, log, histVars>>
  BY <1>1 DEF InputData
<1>8. ControlInv'
  BY <1>2, <1>4, <1>6, <1>7, TaskControl
<1>9. QED
  BY <1>2, <1>3, <1>4, <1>5, <1>8

(* The calls of the main thread. *)
LEMMA CallControl ==
    ASSUME ControlInv, NEW h \in Host, NEW task \in TasksOf(h), NEW place,
           Call(h, task, place)
    PROVE  ControlInv' /\ Takes(MainThread) /\ Schedule(h, task)
<1>0. h \in Executor /\ MainThread \notin Executor
  BY OrderFacts, NetworkAssumption
<1>1. Schedule(h, task) /\ UNCHANGED <<batch, thread>>
  BY DEF Call
<1>2. DOMAIN queue' = Executor /\ \A y \in Executor : queue'[y] \in Seq(TasksOf(y))
  BY <1>0, <1>1, ScheduleQueue DEF ControlInv
<1>3. QueueTypes'
  BY <1>1, <1>2 DEF ControlInv, QueueTypes
<1>4. WorkerTypes' /\ \A y \in Executor : WorkerInv(y)'
  BY DEF ControlInv, WorkerTypes, WorkerInv, Call
<1>5. EnvTypes'
  BY EnvUndisturbed DEF Call
<1>6. MainTypes' /\ MainInv'
  BY DEF ControlInv, MainTypes, MainInv, Call
<1>7. QED
  BY <1>0, <1>1, <1>3, <1>4, <1>5, <1>6 DEF ControlInv, Takes

(* A call that returns. *)
LEMMA ReturnControl ==
    ASSUME ControlInv, CallReturns
    PROVE  ControlInv' /\ Takes(MainThread) /\ UNCHANGED queue
<1>0. MainThread \notin Executor
  BY NetworkAssumption
<1>1. UNCHANGED <<status, toFinish, queue, batch, thread, todo, mainVars, envVars, histVars>>
      /\ answered' \subseteq answered
  BY DEF CallReturns
<1>2. QueueTypes'
  BY <1>1 DEF ControlInv, QueueTypes
<1>3. WorkerTypes' /\ \A y \in Executor : WorkerInv(y)'
  BY <1>1 DEF ControlInv, WorkerTypes, WorkerInv
<1>4. EnvTypes'
  BY <1>1, EnvUndisturbed
<1>5. MainTypes' /\ MainInv'
  BY <1>1, MainUndisturbed
<1>6. QED
  BY <1>0, <1>1, <1>2, <1>3, <1>4, <1>5 DEF ControlInv, Takes

(* The tasks that the main thread calls. *)
LEMMA FirstTask ==
    ASSUME CallFirst
    PROVE  \E task \in TasksOf(One) :
               /\ task = IF scenario = "icmp-ping" THEN PingTask ELSE StartTask
               /\ Call(One, task, "first result")
  BY AppTaskTypes, PeerFacts DEF CallFirst

(* The steps of the network in which the applications have no part. *)
NetworkStep ==
    \/ Start \/ SetUp \/ Result \/ CallStop \/ StopExecutor \/ Join
    \/ StartBroadcast \/ Forward
    \/ \E x \in Executor : Loop(x)
    \/ \E h \in Host : StartSetUp(h) \/ SetUpInterface(h)

AppStep ==
    \/ CallFirst \/ CallSecond \/ CallReturns
    \/ \E h \in Host : AppStart(h) \/ AppSend(h) \/ AppPing(h) \/ AppInput(h)

(* Every step is one of these; stop() is called at the end of the program. *)
LEMMA StepCases ==
    ASSUME [AppNext]_allVars
    PROVE  \/ NetworkStep /\ UNCHANGED appVars /\ (CallStop => WaitForCompletion)
           \/ AppStep
           \/ UNCHANGED allVars
<1>1. CASE AppMain
  <2>1. Start \/ SetUp \/ Result \/ StopExecutor \/ Join => ~ CallStop
    BY DEF Start, SetUp, Result, StopExecutor, Join, CallStop
  <2>2. QED
    BY <1>1, <2>1 DEF AppMain, Quiet, NetworkStep, AppStep, WaitForCompletion
<1>2. CASE Quiet(BusThread)
  <2>1. ~ CallStop
    BY <1>2, NetworkAssumption
       DEF Quiet, BusThread, StartBroadcast, Forward, Loop, Run, LeaveLoop, PopExpired,
           EndBatch, EndTask, Finally, mainVars, CallStop
  <2>2. QED
    BY <1>2, <2>1, OrderFacts DEF Quiet, BusThread, NetworkStep
<1>3. ASSUME NEW h \in Host, AppHost(h)
      PROVE  \/ NetworkStep /\ UNCHANGED appVars /\ (CallStop => WaitForCompletion)
             \/ AppStep
  <2>1. CASE Quiet(Loop(h) \/ StartSetUp(h) \/ SetUpInterface(h))
    <3>1. ~ CallStop
      BY <2>1
         DEF Quiet, StartSetUp, SetUpInterface, Loop, Run, LeaveLoop, PopExpired,
             EndBatch, EndTask, Finally, mainVars, CallStop
    <3>2. QED
      BY <2>1, <3>1, OrderFacts DEF Quiet, NetworkStep
  <2>2. QED
    BY <1>3, <2>1 DEF AppHost, AppStep
<1>4. QED
  BY <1>1, <1>2, <1>3 DEF AppNext

(* Every step keeps the control invariant. *)
LEMMA NextAppControl == ControlInv /\ [AppNext]_allVars => ControlInv'
<1> SUFFICES ASSUME ControlInv, [AppNext]_allVars PROVE ControlInv'
  OBVIOUS
<1>1. CASE NetworkStep
  BY <1>1, MainControl, BusControl, LoopControl, HostControl DEF NetworkStep, Main
<1>2. CASE AppStep
  <2>1. CASE CallFirst
    BY <2>1, FirstTask, CallControl, PeerFacts
  <2>2. CASE CallSecond
    BY <2>2, AppTaskTypes, CallControl, PeerFacts DEF CallSecond
  <2>3. CASE CallReturns
    BY <2>3, ReturnControl
  <2>4. QED
    BY <1>2, <2>1, <2>2, <2>3, AppTaskControl, AppInputControl DEF AppStep
<1>3. CASE UNCHANGED allVars
  BY <1>3, StutterControl DEF allVars
<1>4. QED
  BY <1>1, <1>2, <1>3, StepCases

(* Every step keeps the types of the applications. *)
LEMMA NextAppTypes == AppTypeOK /\ [AppNext]_allVars => AppTypeOK'
<1> SUFFICES ASSUME AppTypeOK, [AppNext]_allVars PROVE AppTypeOK'
  OBVIOUS
<1>0. One \in Host /\ Two \in Host /\ memSize \in Nat
  BY PeerFacts, PeersAssumption DEF AppTypeOK
<1>1. CASE UNCHANGED appVars
  BY <1>1 DEF appVars, AppTypeOK
<1>2. ASSUME NEW h \in Host, NEW data, Transmit(h, data) PROVE lost' \in BOOLEAN
  BY <1>2, Zenon DEF Transmit
<1>3. ASSUME NEW h \in Host, NEW n, SendPing(h, n)
      PROVE  heap' \in [Host -> 0 .. memSize] /\ lost' \in BOOLEAN
  <2>1. lost' \in BOOLEAN
    BY <1>2, <1>3 DEF SendPing, AppTypeOK
  <2>2. heap' \in [Host -> 0 .. memSize]
    <3>1. heap \in [Host -> 0 .. memSize] /\ heap[h] \in 0 .. memSize
      BY DEF AppTypeOK
    <3>2. CASE heap[h] < memSize /\ TakeHeap(h)
      <4>1. heap[h] + 1 \in 0 .. memSize
        BY <1>0, <3>1, <3>2
      <4>2. heap' = [heap EXCEPT ![h] = heap[h] + 1]
        BY <3>2 DEF TakeHeap
      <4>3. QED
        BY <3>1, <4>1, <4>2
    <3>3. CASE UNCHANGED heap
      BY <3>1, <3>3
    <3>4. QED
      BY <1>3, <3>2, <3>3 DEF SendPing
  <2>3. QED
    BY <2>1, <2>2
<1>4. ASSUME NEW h \in Host, AppStart(h) \/ AppSend(h) \/ AppPing(h)
      PROVE  AppTypeOK'
  <2>1. UNCHANGED <<scenario, memSize, completion, step>>
    BY <1>4 DEF AppStart, AppSend, AppPing, AppTask
  <2>2. heap' \in [Host -> 0 .. memSize] /\ lost' \in BOOLEAN
    BY <1>2, <1>3, <1>4 DEF AppStart, AppSend, AppPing, AppTypeOK
  <2>3. bound' \subseteq Host
    BY <1>4 DEF AppStart, AppSend, AppPing, AppTypeOK
  <2>4. QED
    BY <2>1, <2>2, <2>3 DEF AppTypeOK
<1>5. ASSUME NEW h \in Host, AppInput(h) PROVE AppTypeOK'
  <2>1. UNCHANGED <<scenario, memSize, heap, bound, step>>
    BY <1>5 DEF AppInput
  <2>2. lost' \in BOOLEAN /\ completion' \subseteq Host
    BY <1>2, <1>5 DEF AppInput, ReceiveData, AppTypeOK
  <2>3. QED
    BY <2>1, <2>2 DEF AppTypeOK
<1>6. CASE CallFirst \/ CallSecond \/ CallReturns
  <2>1. UNCHANGED <<scenario, memSize, heap, bound, completion, lost>>
    BY <1>6 DEF CallFirst, CallSecond, CallReturns, Call
  <2>2. step' \in {"first", "first result", "second", "second result", "wait"}
    BY <1>6 DEF CallFirst, CallSecond, CallReturns, Call
  <2>3. QED
    BY <2>1, <2>2 DEF AppTypeOK
<1>7. QED
  BY <1>1, <1>4, <1>5, <1>6, StepCases DEF AppStep, allVars

-----------------------------------------------------------------------------
(* The futures that the main thread awaits.                                *)

(* No task of the main thread is added or settled. *)
KeptAll == \A h \in Host : Kept(h)

(* The main thread waits for as many tasks as before. *)
LEMMA CallsUndisturbed ==
    ASSUME ControlInv, CallInv, KeptAll, Calling' <=> Calling,
           MainThread \in answered <=> MainThread \in answered'
    PROVE  CallInv'
<1>1. \A h \in Host :
          /\ NoneByMain(Unfinished(h)) => NoneByMain(Unfinished(h)')
          /\ OneByMain(Unfinished(h)) => OneByMain(Unfinished(h)')
  BY KeptByMain DEF KeptAll
<1>2. QED
  BY <1>1 DEF CallInv

(* The main thread waits no more, or begins another call. *)
LEMMA CallsEnd ==
    ASSUME ControlInv, CallInv, KeptAll, MainThread \in answered \/ ~ Calling,
           MainThread \notin answered'
    PROVE  CallInv'
<1>1. \A h \in Host : NoneByMain(Unfinished(h)')
  BY KeptByMain DEF KeptAll, CallInv
<1>2. \A h \in Host : OneByMain(Unfinished(h)')
  BY <1>1 DEF NoneByMain, OneByMain
<1>3. QED
  BY <1>1, <1>2 DEF CallInv

(* A task for the main thread is scheduled. *)
LEMMA CallsBegin ==
    ASSUME ControlInv, CallInv, ~ Calling, Takes(MainThread), NEW k \in Host,
           NEW t \in TasksOf(k), Schedule(k, t), UNCHANGED answered,
           status[k] = "Running" => Calling'
    PROVE  CallInv'
<1>0. k \in Executor /\ MainThread \notin answered'
  BY OrderFacts DEF CallInv
<1>1. \A h \in Host : NoneByMain(Unfinished(h)) /\ Unfinished(h) \in Seq(TasksOf(h))
  BY UnfinishedType, OrderFacts DEF CallInv
<1>2. ASSUME NEW h \in Host
      PROVE  IF h = k /\ status[k] = "Running" THEN Adds(Unfinished(h), t, Unfinished(h)')
                                               ELSE Unfinished(h)' = Unfinished(h)
  BY <1>0, StepEffect, OrderFacts
<1>3. \A h \in Host : (h = k /\ status[k] = "Running") \/ NoneByMain(Unfinished(h)')
  BY <1>1, <1>2
<1>4. \A h \in Host : OneByMain(Unfinished(h)')
  <2> SUFFICES ASSUME NEW h \in Host PROVE OneByMain(Unfinished(h)')
    OBVIOUS
  <2>1. CASE h = k /\ status[k] = "Running"
    BY <1>1, <1>2, <2>1, ByMainAdds
  <2>2. CASE ~ (h = k /\ status[k] = "Running")
    BY <1>3, <2>2 DEF NoneByMain, OneByMain
  <2>3. QED
    BY <2>1, <2>2
<1>5. QED
  BY <1>0, <1>3, <1>4 DEF CallInv

(* A task of a host ends, and may be the one that the main thread awaits. *)
LEMMA CallsSettle ==
    ASSUME ControlInv, CallInv, NEW h \in Host, EndTask(h), UNCHANGED step
    PROVE  CallInv'
<1>0. h \in Executor /\ Loop(h) /\ UNCHANGED mainVars /\ (Calling' <=> Calling)
  BY OrderFacts DEF Loop, EndTask, Calling, mainVars
<1>1. /\ Unfinished(h) # <<>> /\ Unfinished(h)' = Tail(Unfinished(h))
      /\ Head(Unfinished(h)) = Head(batch[h])
  BY <1>0, LoopEffect
<1>2. ASSUME NEW g \in Host, g # h PROVE Unfinished(g)' = Unfinished(g)
  BY <1>0, <1>2, LoopEffect, OrderFacts
<1>3. Unfinished(h) \in Seq(TasksOf(h))
  BY <1>0, UnfinishedType
<1>4. /\ NoneByMain(Unfinished(h)) => /\ NoneByMain(Unfinished(h)')
                                      /\ Head(batch[h]).by # MainThread
      /\ OneByMain(Unfinished(h)')
      /\ Head(batch[h]).by = MainThread => NoneByMain(Unfinished(h)')
  BY <1>1, <1>3, ByMainTail DEF CallInv
<1>5. answered' = answered \cup ({Head(batch[h]).by} \ {NoOne})
  BY DEF EndTask
<1>6. \A g \in Host : OneByMain(Unfinished(g)')
                      /\ (NoneByMain(Unfinished(g)) => NoneByMain(Unfinished(g)'))
  BY <1>2, <1>4 DEF CallInv
<1>7. CASE Head(batch[h]).by = MainThread
  <2>1. \A g \in Host : NoneByMain(Unfinished(g)')
    BY <1>2, <1>4, <1>7 DEF CallInv
  <2>2. Calling
    BY <1>4, <1>7 DEF CallInv
  <2>3. QED
    BY <1>0, <1>6, <2>1, <2>2 DEF CallInv
<1>8. CASE Head(batch[h]).by # MainThread
  <2>1. MainThread \in answered' <=> MainThread \in answered
    BY <1>5, <1>8
  <2>2. QED
    BY <1>0, <1>6, <2>1 DEF CallInv
<1>9. QED
  BY <1>7, <1>8

(* A task of an application schedules nothing that the main thread awaits. *)
LEMMA KeptByTask ==
    ASSUME ControlInv, NEW b, Takes(b),
           MaySchedule
    PROVE  KeptAll
<1> SUFFICES ASSUME NEW h \in Host PROVE Kept(h)
  BY DEF KeptAll
<1>0. h \in Executor
  BY OrderFacts
<1>1. CASE UNCHANGED queue
  BY <1>0, <1>1, StepEffect DEF Kept
<1>2. ASSUME NEW z \in Executor, NEW t \in TasksOf(z), Schedule(z, t), t.by # MainThread
      PROVE  Kept(h)
  <2>1. IF h = z /\ status[z] = "Running"
        THEN Adds(Left(b, h), t, Waiting(h)') /\ Adds(Unfinished(h), t, Unfinished(h)')
        ELSE Waiting(h)' = Left(b, h) /\ Unfinished(h)' = Unfinished(h)
    BY <1>0, <1>2, StepEffect
  <2>2. QED
    BY <1>2, <2>1 DEF Kept
<1>3. QED
  BY <1>1, <1>2 DEF MaySchedule

(* Every step keeps what the main thread relies on when it waits. *)
LEMMA NextCalls == ControlInv /\ CallInv /\ [AppNext]_allVars => CallInv'
<1> SUFFICES ASSUME ControlInv, CallInv, [AppNext]_allVars PROVE CallInv'
  OBVIOUS
<1>0. MainThread \notin Executor /\ MainThread # NoOne
  BY NetworkAssumption DEF Caller
<1>1. ASSUME NetworkStep, UNCHANGED appVars, CallStop => WaitForCompletion
      PROVE  CallInv'
  <2>0. UNCHANGED step
    BY <1>1 DEF appVars
  <2>1. ASSUME Main, ~ SetUp PROVE KeptAll
    BY <2>1, KeptByOthers DEF KeptAll
  <2>2. CASE Start \/ StopExecutor \/ Join \/ CallStop
    <3>1. KeptAll
      BY <2>1, <2>2 DEF Main, Start, StopExecutor, Join, CallStop, SetUp
    <3>2. Calling' <=> Calling
      BY <1>1, <2>0, <2>2
         DEF Start, StopExecutor, Join, CallStop, NextTurn, Calling, WaitForCompletion
    <3>3. UNCHANGED answered
      BY <2>2 DEF Start, StopExecutor, Join, CallStop, execVars
    <3>4. QED
      BY <3>1, <3>2, <3>3, CallsUndisturbed
  <2>3. CASE SetUp
    <3>1. PICK k \in Host : k = Hosts[turn]
      BY <2>3, OrderFacts DEF SetUp, ControlInv, MainInv, MainTypes
    <3>2. SetUpTask(MainThread) \in TasksOf(k)
      BY TaskTypes DEF Caller
    <3>3. /\ Schedule(k, SetUpTask(MainThread)) /\ UNCHANGED answered
          /\ Takes(MainThread) /\ ~ Calling
          /\ status[k] = "Running" => Calling'
      BY <1>0, <2>3, <3>1 DEF SetUp, CallSetUp, Takes, Calling
    <3>4. QED
      BY <3>2, <3>3, CallsBegin
  <2>4. CASE Result
    <3>1. KeptAll /\ MainThread \in answered /\ MainThread \notin answered'
      BY <2>1, <2>4 DEF Main, Result, SetUp, HasResult
    <3>2. QED
      BY <3>1, CallsEnd
  <2>5. ASSUME StartBroadcast \/ Forward \/ \E h \in Host : StartSetUp(h) \/ SetUpInterface(h)
        PROVE  CallInv'
    <3>1. KeptAll
      BY <2>5, KeptByOthers DEF KeptAll, Visible
    <3>2. UNCHANGED <<mainVars, answered>>
      BY <2>5 DEF StartBroadcast, Forward, StartSetUp, SetUpInterface
    <3>3. QED
      BY <2>0, <3>1, <3>2, CallsUndisturbed DEF mainVars, Calling
  <2>6. ASSUME NEW h \in Host, EndTask(h) PROVE CallInv'
    BY <2>0, <2>6, CallsSettle
  <2>7. ASSUME NEW x \in Executor, Loop(x), \A h \in Host : ~ EndTask(h) PROVE CallInv'
    <3>1. KeptAll
      BY <2>7, LoopEffect, OrderFacts DEF Kept, KeptAll
    <3>2. UNCHANGED mainVars
      BY <2>7 DEF Loop, Run, LeaveLoop, PopExpired, EndBatch, EndTask, Finally
    <3>3. MainThread \in answered <=> MainThread \in answered'
      <4>1. CASE EndTask(x)
        <5>1. x = Bus /\ batch[x] # <<>> /\ batch[x] \in Seq(TasksOf(x))
          BY <2>7, <4>1 DEF Executor, EndTask, ControlInv, WorkerInv, Active, QueueTypes
        <5>2. Head(batch[x]).by = NoOne
          BY <5>1, TaskFields
        <5>3. QED
          BY <4>1, <5>2 DEF EndTask
      <4>2. CASE ~ EndTask(x)
        BY <2>7, <4>2 DEF Loop, Run, LeaveLoop, PopExpired, EndBatch, Finally
      <4>3. QED
        BY <4>1, <4>2
    <3>4. QED
      BY <2>0, <3>1, <3>2, <3>3, CallsUndisturbed DEF mainVars, Calling
  <2>8. QED
    BY <1>1, <2>2, <2>3, <2>4, <2>5, <2>6, <2>7 DEF NetworkStep
<1>2. CASE AppStep
  <2>1. ASSUME NEW k \in Host, NEW t \in TasksOf(k), NEW place, Call(k, t, place),
               step \in {"first", "second"}, place \in {"first result", "second result"}
        PROVE  CallInv'
    <3>1. /\ Takes(MainThread) /\ Schedule(k, t) /\ UNCHANGED answered /\ ~ Calling
          /\ status[k] = "Running" => Calling'
      BY <2>1, CallControl DEF Call, Calling
    <3>2. QED
      BY <3>1, CallsBegin
  <2>2. CASE CallFirst
    BY <2>1, <2>2, FirstTask, PeerFacts DEF CallFirst
  <2>3. CASE CallSecond
    BY <2>1, <2>3, AppTaskTypes, PeerFacts DEF CallSecond
  <2>4. CASE CallReturns
    <3>1. KeptAll
      BY <2>4, ReturnControl, KeptByTask DEF MaySchedule
    <3>2. MainThread \in answered /\ MainThread \notin answered'
      BY <2>4 DEF CallReturns, HasResult
    <3>3. QED
      BY <3>1, <3>2, CallsEnd
  <2>5. ASSUME NEW h \in Host, AppStart(h) \/ AppSend(h) \/ AppPing(h) \/ AppInput(h)
        PROVE  CallInv'
    <3>1. KeptAll
      BY <2>5, AppTaskControl, AppInputControl, KeptByTask
    <3>2. UNCHANGED <<mainVars, answered, step>>
      BY <2>5 DEF AppStart, AppSend, AppPing, AppTask, AppInput, InputData
    <3>3. QED
      BY <3>1, <3>2, CallsUndisturbed DEF mainVars, Calling
  <2>6. QED
    BY <1>2, <2>2, <2>3, <2>4, <2>5 DEF AppStep
<1>3. CASE UNCHANGED allVars
  <2>1. \A h \in Host : Kept(h)
    BY <1>3 DEF allVars, vars, execVars, Kept, Unfinished, Accepted
  <2>2. QED
    BY <1>3, <2>1, CallsUndisturbed DEF allVars, vars, execVars, mainVars, appVars, Calling, KeptAll
<1>4. QED
  BY <1>1, <1>2, <1>3, StepCases

(* Every step keeps what is known when stop() has been called. *)
LEMMA NextStop == StopInv /\ [AppNext]_allVars => StopInv'
<1> SUFFICES ASSUME StopInv, [AppNext]_allVars PROVE StopInv'
  OBVIOUS
<1> DEFINE Stopping == main \in {"stop", "join", "done"}
<1>1. ASSUME NetworkStep, UNCHANGED appVars, CallStop => WaitForCompletion
      PROVE  StopInv'
  <2>1. Stopping' => Stopping \/ CallStop
    BY <1>1
       DEF NetworkStep, Start, SetUp, Result, StopExecutor, Join, StartBroadcast, Forward, Loop,
           Run, LeaveLoop, PopExpired, EndBatch, EndTask, Finally, StartSetUp, SetUpInterface,
           NextTurn, mainVars
  <2>2. CallStop => step = "wait" /\ Awaited \subseteq completion
    BY <1>1 DEF WaitForCompletion
  <2>3. QED
    BY <1>1, <2>1, <2>2 DEF StopInv, Awaited, appVars
<1>2. CASE AppStep
  <2>1. CASE CallFirst \/ CallSecond \/ CallReturns
    BY <2>1 DEF CallFirst, CallSecond, CallReturns, Call, mainVars, StopInv
  <2>2. ASSUME NEW h \in Host, AppStart(h) \/ AppSend(h) \/ AppPing(h) \/ AppInput(h)
        PROVE  StopInv'
    <3>1. UNCHANGED <<mainVars, step, scenario>> /\ completion \subseteq completion'
      BY <2>2 DEF AppStart, AppSend, AppPing, AppTask, AppInput, InputData, ReceiveData
    <3>2. QED
      BY <3>1 DEF StopInv, Awaited, mainVars
  <2>3. QED
    BY <1>2, <2>1, <2>2 DEF AppStep
<1>3. CASE UNCHANGED allVars
  BY <1>3 DEF allVars, vars, mainVars, appVars, StopInv, Awaited
<1>4. QED
  BY <1>1, <1>2, <1>3, StepCases

-----------------------------------------------------------------------------
(* What the bus hands out.                                                 *)

(* Only the bus begins and ends the broadcast in progress. *)
LEMMA BusUndisturbed ==
    ASSUME ControlInv, [AppNext]_allVars, ~ StartBroadcast, ~ Forward
    PROVE  /\ todo'[Bus] = todo[Bus]
           /\ todo[Bus] # <<>> => batch'[Bus] = batch[Bus]
           /\ Aloft' <=> Aloft
<1>0. PICK i \in Port : TRUE
  BY PeerFacts
<1>1. /\ todo'[Bus] = todo[Bus]
      /\ todo[Bus] # <<>> => batch'[Bus] = batch[Bus]
  <2>1. CASE NetworkStep
    <3>1. Unmoved(i)
      BY <2>1, <1>0, LoopUnmoved, OthersUnmoved DEF NetworkStep, Main, Visible
    <3>2. QED
      BY <3>1 DEF Unmoved
  <2>2. CASE AppStep
    <3>1. CASE CallFirst \/ CallSecond \/ CallReturns
      BY <3>1 DEF CallFirst, CallSecond, CallReturns, Call
    <3>2. ASSUME NEW h \in Host, AppStart(h) \/ AppSend(h) \/ AppPing(h) \/ AppInput(h)
          PROVE  UNCHANGED <<todo, batch>>
      BY <3>2 DEF AppStart, AppSend, AppPing, AppTask, AppInput, InputData
    <3>3. QED
      BY <2>2, <3>1, <3>2 DEF AppStep
  <2>3. CASE UNCHANGED allVars
    BY <2>3 DEF allVars, vars, execVars
  <2>4. QED
    BY <2>1, <2>2, <2>3, StepCases
<1>2. QED
  BY <1>1 DEF Aloft

(* With two interfaces on the bus, a frame goes to one. *)
LEMMA OneReceiver ==
    ASSUME NEW f, f.from \in Port
    PROVE  /\ Receivers(f) \in Seq(Port) /\ Len(Receivers(f)) = 1
           /\ Receivers(f)[1] \in Port /\ Receivers(f)[1] # f.from
<1> DEFINE s == Receivers(f)
<1>1. s \in Seq(Port) /\ Range(s) = Port \ {f.from} /\ IsInjective(s)
  BY ReceiversFacts
<1> HIDE DEF s
<1>2. \E i \in Port : Range(s) = {i} /\ i # f.from
  BY <1>1, PeerFacts
<1>3. PICK i \in Port : Range(s) = {i} /\ i # f.from
  BY <1>2
<1>4. DOMAIN s = 1 .. Len(s) /\ Len(s) \in Nat
  BY <1>1
<1>5. \A n \in DOMAIN s : s[n] = i
  BY <1>3 DEF Range
<1>6. \A m, n \in DOMAIN s : m = n
  BY <1>1, <1>5 DEF IsInjective
<1>7. \E n \in DOMAIN s : TRUE
  BY <1>3 DEF Range
<1>8. Len(s) >= 1
  BY <1>4, <1>7
<1>9. Len(s) \in DOMAIN s /\ 1 \in DOMAIN s
  BY <1>4, <1>8
<1>10. Len(s) = 1
  BY <1>6, <1>9
<1>11. QED
  BY <1>1, <1>3, <1>5, <1>9, <1>10 DEF s

(* The bus takes a frame: no filter holds it back. *)
LEMMA BroadcastBegins ==
    ASSUME ControlInv, StartBroadcast
    PROVE  /\ todo[Bus] = <<>> /\ todo'[Bus] = Receivers(Current) /\ todo'[Bus] # <<>>
           /\ Current \in Frames /\ Current.from \in Port /\ UNCHANGED <<batch, queue>>
           /\ Takes(Bus) /\ Head(batch[Bus]) \in TasksOf(Bus)
<1>1. /\ Head(batch[Bus]) \in TasksOf(Bus) /\ Current \in Frames /\ todo[Bus] = <<>>
  BY BroadcastStarts
<1>2. Current.from \in Port
  BY <1>1, SelectedFrames
<1>3. todo'[Bus] = Receivers(Current)
  BY PeersAssumption, OrderFacts DEF StartBroadcast, Current, ControlInv, WorkerTypes
<1>4. todo'[Bus] # <<>>
  BY <1>2, <1>3, OneReceiver
<1>5. UNCHANGED <<batch, queue>> /\ Takes(Bus)
  BY OrderFacts DEF StartBroadcast, Begin, Takes
<1>6. QED
  BY <1>1, <1>2, <1>3, <1>4, <1>5

(* The bus calls the one interface there is to call. *)
LEMMA ForwardEnds ==
    ASSUME ControlInv, TodoInv, Forward
    PROVE  /\ todo'[Bus] = <<>> /\ todo[Bus] # <<>> /\ UNCHANGED <<batch, thread>>
           /\ Head(todo[Bus]) \in Port /\ Head(todo[Bus]) # Current.from
           /\ Schedule(HostOf[Head(todo[Bus])], InputTask(Head(todo[Bus]), Current))
           /\ Head(batch[Bus]) \in TasksOf(Bus) /\ Current \in Frames /\ Current.from \in Port
<1> DEFINE s == todo[Bus]
<1>1. s \in Seq(Port) /\ s # <<>> /\ (todo'[Bus] = Tail(s) \/ todo'[Bus] = <<>>)
  BY OrderFacts DEF Forward, ControlInv, WorkerTypes
<1>2. \A n \in DOMAIN s : n = 1 /\ s[n] # Current.from
  BY DEF TodoInv, Current
<1> HIDE DEF s
<1>3. /\ Head(s) = s[1] /\ Head(s) \in Port /\ 1 \in DOMAIN s /\ Len(s) \in DOMAIN s
      /\ Len(s) = 1 => Tail(s) = <<>>
  BY <1>1
<1>4. Len(s) = 1
  BY <1>2, <1>3
<1>5. /\ todo'[Bus] = <<>> /\ Head(s) \in Port /\ Head(s) # Current.from /\ s # <<>>
  BY <1>1, <1>2, <1>3, <1>4
<1>6. /\ Schedule(HostOf[Head(todo[Bus])], InputTask(Head(todo[Bus]), Current))
      /\ UNCHANGED <<batch, thread>> /\ thread[Bus] = "busy"
  BY DEF Forward, Current
<1>7. batch[Bus] \in Seq(TasksOf(Bus)) /\ batch[Bus] # <<>>
  BY <1>6, OrderFacts DEF ControlInv, QueueTypes, WorkerInv, Active
<1>8. Head(batch[Bus]) \in TasksOf(Bus)
  BY <1>7
<1>9. Current \in Frames /\ Current.from \in Port
  BY <1>8, TaskFields, SelectedFrames DEF Current
<1>10. QED
  BY <1>5, <1>6, <1>8, <1>9 DEF s

(* Every step leaves the bus with at most one interface to call. *)
LEMMA NextTodo == ControlInv /\ TodoInv /\ [AppNext]_allVars => TodoInv'
<1> SUFFICES ASSUME ControlInv, TodoInv, [AppNext]_allVars PROVE TodoInv'
  OBVIOUS
<1>1. CASE StartBroadcast
  <2>1. /\ todo'[Bus] = Receivers(Current) /\ Current.from \in Port
        /\ Head(batch'[Bus]).frame = Current
    BY <1>1, BroadcastBegins DEF Current
  <2>2. \A n \in DOMAIN Receivers(Current) : n = 1 /\ Receivers(Current)[n] # Current.from
    BY <2>1, OneReceiver
  <2>3. QED
    BY <2>1, <2>2 DEF TodoInv
<1>2. CASE Forward
  BY <1>2, ForwardEnds DEF TodoInv
<1>3. CASE ~ StartBroadcast /\ ~ Forward
  <2>1. todo'[Bus] = todo[Bus] /\ (todo[Bus] # <<>> => batch'[Bus] = batch[Bus])
    BY <1>3, BusUndisturbed
  <2>2. QED
    BY <2>1 DEF TodoInv
<1>4. QED
  BY <1>1, <1>2, <1>3

-----------------------------------------------------------------------------
(* What the peers have taken.                                              *)

(* The datagrams taken are frames, and counted by numbers. *)
LEMMA TakenTypes ==
    ASSUME ControlInv
    PROVE  /\ \A h \in Host : received[PortOf(h)] \in Seq(Frames) /\ Taken(h) \in Seq(Frames)
           /\ ByOne \in Nat /\ ByTwo \in Nat
<1>1. ASSUME NEW h \in Host
      PROVE  received[PortOf(h)] \in Seq(Frames) /\ Taken(h) \in Seq(Frames)
  <2>1. received[PortOf(h)] \in Seq(Frames)
    BY PeerFacts DEF ControlInv, EnvTypes
  <2>2. QED
    BY <2>1, FilterType DEF Taken
<1>2. QED
  BY <1>1, PeerFacts DEF ByOne, ByTwo

(* Without an input nothing is taken. *)
LEMMA TakenStays ==
    ASSUME UNCHANGED received
    PROVE  /\ Taken(One)' = Taken(One) /\ Taken(Two)' = Taken(Two)
           /\ Replied => Replied'
  BY DEF Taken, Replied

(* A peer gets a frame: it is a datagram, or what was taken is the same. *)
LEMMA TakenAdds ==
    ASSUME ControlInv, NEW h \in Host, NEW f \in Frames,
           received' = [received EXCEPT ![PortOf(h)] = Append(@, f)]
    PROVE  /\ \A k \in Host \ {h} : Taken(k)' = Taken(k)
           /\ f.data[1] # "udp" => Taken(h)' = Taken(h)
           /\ f.data[1] = "udp" => Adds(Taken(h), f, Taken(h)')
           /\ Replied => Replied'
           /\ h = One /\ f.data = EchoReply => Replied'
<1>1. received \in [Port -> Seq(Frames)]
  BY DEF ControlInv, EnvTypes
<1>2. /\ Adds(received[PortOf(h)], f, received'[PortOf(h)])
      /\ \A k \in Host \ {h} : received'[PortOf(k)] = received[PortOf(k)]
  <2>1. \A k \in Host \ {h} : PortOf(k) # PortOf(h) /\ PortOf(k) \in Port /\ PortOf(h) \in Port
    BY PeerFacts
  <2>2. QED
    BY <1>1, <2>1, PeerFacts DEF Adds
<1>3. f \in DatagramFrames <=> f.data[1] = "udp"
  BY DEF DatagramFrames, Frames, FramesFrom, Payloads
<1>4. received[PortOf(h)] \in Seq(Frames)
  BY TakenTypes
<1>5. /\ f.data[1] # "udp" => Taken(h)' = Taken(h)
      /\ f.data[1] = "udp" => Adds(Taken(h), f, Taken(h)')
  BY <1>2, <1>3, <1>4, FilterAdds DEF Taken
<1>6. \A k \in Host \ {h} : Taken(k)' = Taken(k)
  BY <1>2 DEF Taken
<1>7. /\ \A n \in DOMAIN received[PortOf(h)] :
             n \in DOMAIN received'[PortOf(h)]
             /\ received'[PortOf(h)][n] = received[PortOf(h)][n]
      /\ \E n \in DOMAIN received'[PortOf(h)] : received'[PortOf(h)][n] = f
  <2> DEFINE s == received[PortOf(h)]
             r == received'[PortOf(h)]
  <2>1. /\ Len(s) \in Nat /\ DOMAIN s = 1 .. Len(s) /\ DOMAIN r = 1 .. Len(s) + 1
        /\ r[Len(s) + 1] = f /\ \A n \in 1 .. Len(s) : r[n] = s[n]
    BY <1>2, <1>4, AddsFacts
  <2> HIDE DEF s, r
  <2>2. Len(s) + 1 \in DOMAIN r /\ \A n \in DOMAIN s : n \in DOMAIN r /\ r[n] = s[n]
    BY <2>1
  <2>3. QED
    BY <2>1, <2>2 DEF s, r
<1>8. Replied => Replied'
  <2>1. CASE h = One
    BY <1>7, <2>1 DEF Replied
  <2>2. CASE h # One
    BY <1>2, <2>2, PeerFacts DEF Replied
  <2>3. QED
    BY <2>1, <2>2
<1>9. h = One /\ f.data = EchoReply => Replied'
  BY <1>7 DEF Replied
<1>10. QED
  BY <1>5, <1>6, <1>8, <1>9

-----------------------------------------------------------------------------
(* Steps in which the exchange does not go on.                             *)

(* What the item is does not change. *)
LEMMA StageStays ==
    ASSUME UNCHANGED <<scenario, heap, bound, completion, step>>,
           ByOne' = ByOne, ByTwo' = ByTwo, NEW x, NEW t, Stage(x, t)
    PROVE  Stage(x, t)'
<1>1. /\ Counter' = Counter /\ Sender' = Sender /\ Recipient' = Recipient
      /\ Paid' = Paid
  BY DEF Counter, Sender, Recipient, Paid
<1>2. Starting(x, t) => Starting(x, t)'
  BY DEF Starting
<1>3. Exchanging(x, t) => Exchanging(x, t)'
  BY <1>1 DEF Exchanging
<1>4. Pinging(x, t) => Pinging(x, t)'
  BY DEF Pinging
<1>5. QED
  BY <1>2, <1>3, <1>4 DEF Stage

(* Neither do the item, the datagrams taken and the events. *)
LEMMA ItemUndisturbed ==
    ASSUME ControlInv, ItemInv, TakenInv, SameItem,
           UNCHANGED <<scenario, heap, bound, completion, step>>,
           Taken(One)' = Taken(One), Taken(Two)' = Taken(Two),
           Replied => Replied', main = "raised" => main' = "raised"
    PROVE  ItemInv' /\ TakenInv'
<1>1. ByOne' = ByOne /\ ByTwo' = ByTwo
  BY DEF ByOne, ByTwo
<1>2. TakenInv'
  BY <1>1 DEF TakenInv
<1>3. Resting => Resting'
  BY <1>1 DEF Resting
<1>4. CASE Nowhere /\ Resting
  <2>1. Nowhere' /\ Resting'
    BY <1>3, <1>4 DEF SameItem
  <2>2. QED
    BY <1>2, <2>1 DEF ItemInv
<1>5. ASSUME NEW x \in Executor, NEW t \in Range(Waiting(x)), At(x, t), Stage(x, t)
      PROVE  ItemInv'
  <2>1. At(x, t)' /\ Stage(x, t)'
    BY <1>1, <1>5, StageStays DEF SameItem
  <2>2. t \in Range(Waiting(x)')
    BY <2>1 DEF At, OneItem, Range
  <2>3. QED
    BY <2>1, <2>2 DEF ItemInv
<1>6. ASSUME Flying, NEW t \in {Head(batch[Bus])}, Stage(Bus, t) PROVE ItemInv'
  <2>1. t = Head(batch[Bus])
    OBVIOUS
  <2>2. Flying' /\ t \in {Head(batch'[Bus])}
    BY <1>6, <2>1 DEF SameItem
  <2>3. Stage(Bus, t)'
    BY <1>1, <1>6, StageStays
  <2>4. QED
    BY <2>2, <2>3 DEF ItemInv
<1>7. QED
  BY <1>2, <1>4, <1>5, <1>6 DEF ItemInv

(* The tasks wait as before. *)
LEMMA ItemWaits ==
    ASSUME \A y \in Executor : Waiting(y)' = Waiting(y), Aloft' <=> Aloft,
           Aloft => Head(batch'[Bus]) = Head(batch[Bus])
    PROVE  SameItem
<1>1. (Nowhere => Nowhere') /\ (Flying => Flying')
  BY DEF Nowhere, Flying
<1>2. \A x \in Executor : \A t : At(x, t) => At(x, t)'
  BY DEF At
<1>3. QED
  BY <1>1, <1>2 DEF SameItem, Flying

(* The main thread and the set-up of the interfaces leave the item alone. *)
LEMMA NetworkItem ==
    ASSUME ControlInv, NetworkStep, [AppNext]_allVars, ~ StartBroadcast, ~ Forward
    PROVE  SameItem
<1>0. Bus \in Executor /\ MainThread \notin Executor /\ (Aloft' <=> Aloft)
  BY BusUndisturbed, OrderFacts, NetworkAssumption
<1>1. Aloft => Head(batch'[Bus]) = Head(batch[Bus])
  BY BusUndisturbed DEF Aloft
<1>2. ASSUME NEW x \in Executor, Loop(x) PROVE SameItem
  BY <1>0, <1>1, <1>2, LoopEffect, ItemWaits
<1>3. CASE Start
  <2>1. ASSUME NEW y \in Executor PROVE Waiting(y)' = Waiting(y)
    <3>1. UNCHANGED <<batch, queue>> /\ Calm(y)
      BY <1>3, <2>1, VisibleIsCalm DEF Main, Start
    <3>2. ~ Begins(y)
      BY <1>3, <2>1 DEF Start, Begins, ControlInv, WorkerTypes
    <3>3. QED
      BY <2>1, <3>1, <3>2, QueueEffect
  <2>2. QED
    BY <1>0, <1>1, <2>1, ItemWaits
<1>4. CASE SetUp
  <2>1. PICK k \in Host : k = Hosts[turn]
    BY <1>4, OrderFacts DEF SetUp, ControlInv, MainInv, MainTypes
  <2>2. SetUpTask(MainThread) \in TasksOf(k) /\ ~ IsItem(SetUpTask(MainThread)) /\ k \in Executor
    BY TaskTypes, ItemKinds, OrderFacts DEF Caller
  <2>3. Schedule(k, SetUpTask(MainThread)) /\ Takes(MainThread)
    BY <1>0, <1>4, <2>1 DEF SetUp, CallSetUp, Takes
  <2>4. QED
    BY <1>0, <2>2, <2>3, ItemStays
<1>5. CASE Result \/ CallStop \/ StopExecutor \/ Join
  <2>1. UNCHANGED <<batch, thread, queue>>
    BY <1>5 DEF Result, CallStop, StopExecutor, Join, execVars
  <2>2. Takes(MainThread)
    BY <1>0, <2>1 DEF Takes
  <2>3. QED
    BY <1>0, <2>1, <2>2, ItemStays
<1>6. ASSUME NEW h \in Host, StartSetUp(h) PROVE SameItem
  <2>1. Takes(h) /\ Head(batch[h]).kind = "set_up" /\ UNCHANGED queue
    BY <1>6, TaskBegins DEF StartSetUp
  <2>2. ~ IsItem(Head(batch[h]))
    BY <2>1 DEF IsItem
  <2>3. QED
    BY <1>0, <2>1, <2>2, ItemStays
<1>7. ASSUME NEW h \in Host, SetUpInterface(h) PROVE SameItem
  <2>1. Takes(MainThread)
    BY <1>0, <1>7 DEF SetUpInterface, Takes
  <2>2. Head(todo[h]) \in Port
    BY <1>7, OrderFacts DEF SetUpInterface, ControlInv, WorkerTypes
  <2>3. UNCHANGED queue \/ Send(Head(todo[h]), Announcement)
    BY <1>7 DEF SetUpInterface
  <2>4. ASSUME NEW i \in Port, Send(i, Announcement) PROVE SameItem
    <3> DEFINE f == [from |-> i, nr |-> FrameCount(i) + 1, data |-> Announcement]
    <3>1. f \in Frames /\ f.data = Announcement
      BY PayloadFacts, FrameCountType DEF Frames, FramesFrom
    <3>2. Schedule(Bus, BroadcastTask(f))
      BY <2>4 DEF Send
    <3> HIDE DEF f
    <3>3. BroadcastTask(f) \in TasksOf(Bus) /\ ~ IsItem(BroadcastTask(f))
      BY <3>1, TaskTypes, ItemKinds
    <3>4. QED
      BY <1>0, <2>1, <3>2, <3>3, ItemStays
  <2>5. CASE UNCHANGED queue
    BY <1>0, <2>1, <2>5, ItemStays
  <2>6. QED
    BY <2>2, <2>3, <2>4, <2>5
<1>8. QED
  BY <1>2, <1>3, <1>4, <1>5, <1>6, <1>7 DEF NetworkStep

(* So does the broadcast of an announcement. *)
LEMMA AnnouncementItem ==
    ASSUME ControlInv, TodoInv, StartBroadcast \/ Forward, ~ IsItem(Head(batch[Bus]))
    PROVE  SameItem
<1>0. Bus \in Executor /\ MainThread \notin Executor
  BY OrderFacts, NetworkAssumption
<1>1. CASE StartBroadcast
  <2>1. Takes(Bus) /\ UNCHANGED <<queue, batch>>
    BY <1>1, BroadcastBegins
  <2>2. ~ Aloft' /\ ~ Aloft
    BY <2>1 DEF Aloft
  <2>3. QED
    BY <2>1, <2>2, ItemStays
<1>2. CASE Forward
  <2>1. /\ UNCHANGED <<batch, thread>> /\ Head(todo[Bus]) \in Port /\ Current \in Frames
        /\ Schedule(HostOf[Head(todo[Bus])], InputTask(Head(todo[Bus]), Current))
        /\ Head(batch[Bus]) \in TasksOf(Bus)
    BY <1>2, ForwardEnds
  <2>2. Takes(MainThread) /\ ~ Aloft' /\ ~ Aloft
    BY <1>0, <2>1 DEF Aloft, Takes
  <2>3. Current.data = Announcement
    BY <2>1, TaskFields DEF IsItem, Current
  <2>4. PICK i \in Port, f \in Frames :
            /\ f.data = Announcement /\ Schedule(HostOf[i], InputTask(i, f))
    BY <2>1, <2>3
  <2>5. InputTask(i, f) \in TasksOf(HostOf[i]) /\ ~ IsItem(InputTask(i, f))
    BY <2>4, TaskTypes, ItemKinds
  <2>6. HostOf[i] \in Executor
    BY NetworkAssumption, OrderFacts
  <2>7. QED
    BY <1>0, <2>2, <2>4, <2>5, <2>6, ItemStays
<1>3. QED
  BY <1>1, <1>2

(* A step of the network in which no item is broadcast. *)
LEMMA NetworkRests ==
    ASSUME ControlInv, ItemInv, TodoInv, TakenInv, NetworkStep, [AppNext]_allVars,
           UNCHANGED appVars, StartBroadcast \/ Forward => ~ IsItem(Head(batch[Bus]))
    PROVE  ItemInv' /\ TakenInv'
<1>1. SameItem
  BY NetworkItem, AnnouncementItem
<1>2. UNCHANGED received
  BY DEF NetworkStep, Start, SetUp, Result, CallStop, StopExecutor, Join, StartBroadcast, Forward,
         Loop, Run, LeaveLoop, PopExpired, EndBatch, EndTask, Finally, StartSetUp, SetUpInterface,
         envVars
<1>3. main = "raised" => main' = "raised"
  BY DEF NetworkStep, Start, SetUp, Result, CallStop, StopExecutor, Join, StartBroadcast, Forward,
         Loop, Run, LeaveLoop, PopExpired, EndBatch, EndTask, Finally, StartSetUp, SetUpInterface,
         mainVars
<1>4. UNCHANGED <<scenario, heap, bound, completion, step>>
  BY DEF appVars
<1>5. QED
  BY <1>1, <1>2, <1>3, <1>4, TakenStays, ItemUndisturbed

(* lwIP gets an announcement. *)
LEMMA AnnouncementTaken ==
    ASSUME ControlInv, ItemInv, TakenInv, NEW h \in Host, AppInput(h),
           ~ IsItem(Head(batch[h])), Aloft' <=> Aloft
    PROVE  ItemInv' /\ TakenInv'
<1>1. PICK f \in Frames : f = Head(batch[h]).frame
  BY AppInputControl
<1>2. f.data = Announcement
  BY <1>1, AppInputControl DEF IsItem
<1>3. UNCHANGED <<queue, completion, scenario, heap, bound, step, mainVars>>
  BY <1>1, <1>2, PayloadFacts DEF AppInput, InputData
<1>4. SameItem
  BY <1>3, AppInputControl, ItemStays
<1>5. received' = [received EXCEPT ![PortOf(h)] = Append(@, f)] /\ f.data[1] # "udp"
  BY <1>1, <1>2, AppInputControl, PayloadFacts
<1>6. Taken(One)' = Taken(One) /\ Taken(Two)' = Taken(Two) /\ (Replied => Replied')
  BY <1>5, TakenAdds, PeerFacts
<1>7. QED
  BY <1>3, <1>4, <1>6, ItemUndisturbed DEF mainVars

-----------------------------------------------------------------------------
(* Steps that pass the item on.                                            *)

(* Where the item may be lost. *)
LEMMA StageRests ==
    ASSUME NEW x, NEW t, Exchanging(x, t) \/ Pinging(x, t)
    PROVE  Resting
  BY DEF Exchanging, Pinging, Resting

(* The bus begins to broadcast the item. *)
LEMMA ItemTakesOff ==
    ASSUME ControlInv, ItemInv, TakenInv, StartBroadcast, IsItem(Head(batch[Bus])),
           UNCHANGED appVars
    PROVE  ItemInv' /\ TakenInv'
<1>1. /\ Takes(Bus) /\ UNCHANGED <<queue, batch>> /\ todo'[Bus] # <<>> /\ Bus \in Executor
  BY BroadcastBegins, OrderFacts
<1>2. Stage(Bus, Head(batch[Bus])) /\ \A y \in Executor : NoItem(Left(Bus, y))
  BY <1>1, ItemTaken
<1>3. \A y \in Executor : NoItem(Waiting(y)')
  BY <1>1, <1>2, StepEffect
<1>4. Aloft'
  BY <1>1 DEF Aloft
<1>5. Flying'
  BY <1>3, <1>4 DEF Flying
<1>6. PICK t \in {Head(batch[Bus])} : Stage(Bus, t)
  BY <1>2
<1>7. Taken(One)' = Taken(One) /\ Taken(Two)' = Taken(Two)
  BY TakenStays DEF StartBroadcast
<1>8. ByOne' = ByOne /\ ByTwo' = ByTwo
  BY <1>7 DEF ByOne, ByTwo
<1>9. Stage(Bus, t)' /\ t \in {Head(batch'[Bus])}
  BY <1>1, <1>6, <1>8, StageStays DEF appVars
<1>10. TakenInv'
  BY <1>7, <1>8 DEF TakenInv, appVars
<1>11. QED
  BY <1>5, <1>9, <1>10 DEF ItemInv

(* The interface that is called is that of the other peer. *)
LEMMA ItemReceiver ==
    ASSUME NEW t, Stage(Bus, t), NEW i \in Port, i # t.frame.from, NEW f, f = t.frame
    PROVE  Resting /\ Stage(HostOf[i], InputTask(i, f))
<1>1. /\ HostOf[PortOf(One)] = One /\ HostOf[PortOf(Two)] = Two
      /\ i = PortOf(One) \/ i = PortOf(Two)
  BY PeerFacts
<1>2. /\ \A data : Carries(InputTask(i, f), "input", data) <=> f.data = data
      /\ \A data : Carries(t, "broadcast", data) => f.data = data
      /\ \A n : t.kind = "broadcast" => t # SendTask(n)
      /\ t.kind = "broadcast" => t # StartTask /\ t # PingTask
  BY DEF Carries, InputTask, SendTask, StartTask, PingTask
<1>3. Exchanging(Bus, t) \/ Pinging(Bus, t)
  BY PeerFacts DEF Stage, Starting
<1>4. (Sender = Two /\ Recipient = One) \/ (Sender = One /\ Recipient = Two)
  BY DEF Sender, Recipient
<1>5. CASE Exchanging(Bus, t)
  <2>1. /\ Carries(t, "broadcast", Datagram(Counter)) /\ t.frame.from = PortOf(Sender) /\ Paid
    BY <1>4, <1>5, PeerFacts DEF Exchanging
  <2>2. HostOf[i] = Recipient
    BY <1>1, <1>4, <2>1
  <2>3. Exchanging(HostOf[i], InputTask(i, f))
    BY <1>2, <1>5, <2>1, <2>2 DEF Exchanging
  <2>4. QED
    BY <1>5, <2>3, StageRests DEF Stage
<1>6. CASE Pinging(Bus, t)
  <2>1. \/ Carries(t, "broadcast", Echo) /\ t.frame.from = PortOf(One)
        \/ Carries(t, "broadcast", EchoReply) /\ t.frame.from = PortOf(Two)
    BY <1>6, PeerFacts DEF Pinging
  <2>2. \/ HostOf[i] = Two /\ Carries(InputTask(i, f), "input", Echo)
        \/ HostOf[i] = One /\ Carries(InputTask(i, f), "input", EchoReply)
    BY <1>1, <1>2, <2>1
  <2>3. Pinging(HostOf[i], InputTask(i, f))
    BY <1>6, <2>2 DEF Pinging
  <2>4. QED
    BY <1>6, <2>3, StageRests DEF Stage
<1>7. QED
  BY <1>3, <1>5, <1>6

(* The bus hands the item to the other peer, or finds its host stopped. *)
LEMMA ItemLands ==
    ASSUME ControlInv, ItemInv, TodoInv, TakenInv, Forward, IsItem(Head(batch[Bus])),
           UNCHANGED appVars
    PROVE  ItemInv' /\ TakenInv'
<1>0. MainThread \notin Executor
  BY NetworkAssumption
<1>1. /\ UNCHANGED <<batch, thread>> /\ todo[Bus] # <<>> /\ todo'[Bus] = <<>>
      /\ Current \in Frames /\ Head(todo[Bus]) \in Port /\ Head(todo[Bus]) # Current.from
      /\ Schedule(HostOf[Head(todo[Bus])], InputTask(Head(todo[Bus]), Current))
  BY ForwardEnds
<1>2. Aloft /\ ~ Aloft' /\ Takes(MainThread)
  BY <1>0, <1>1 DEF Aloft, Takes
<1>3. Flying /\ \E t \in {Head(batch[Bus])} : Stage(Bus, t)
  BY <1>2 DEF ItemInv, Nowhere, At
<1>4. \A y \in Executor : NoItem(Left(MainThread, y))
  BY <1>0, <1>3 DEF Flying, Left
<1>5. PICK t \in {Head(batch[Bus])} : Stage(Bus, t)
  BY <1>3
<1>6. PICK i \in Port, f \in Frames :
          f = t.frame /\ i # f.from /\ Schedule(HostOf[i], InputTask(i, f))
  BY <1>1, <1>5 DEF Current
<1>7. HostOf[i] \in Executor /\ InputTask(i, f) \in TasksOf(HostOf[i])
  BY NetworkAssumption, OrderFacts, TaskTypes
<1>8. IsItem(InputTask(i, f))
  BY <1>6, ItemKinds, TaskFields, ForwardEnds DEF IsItem, Current
<1>9. IF status[HostOf[i]] = "Running"
      THEN At(HostOf[i], InputTask(i, f))' /\ InputTask(i, f) \in Range(Waiting(HostOf[i])')
      ELSE Nowhere'
  BY <1>2, <1>4, <1>6, <1>7, <1>8, ItemMade
<1>10. Taken(One)' = Taken(One) /\ Taken(Two)' = Taken(Two)
  BY TakenStays DEF Forward, envVars
<1>11. ByOne' = ByOne /\ ByTwo' = ByTwo
  BY <1>10 DEF ByOne, ByTwo
<1>12. TakenInv'
  BY <1>10, <1>11 DEF TakenInv, appVars
<1>13. Resting /\ Stage(HostOf[i], InputTask(i, f))
  BY <1>5, <1>6, ItemReceiver
<1>14. CASE status[HostOf[i]] = "Running"
  <2>1. PICK x \in Executor, u \in TasksOf(HostOf[i]) : x = HostOf[i] /\ u = InputTask(i, f)
    BY <1>7
  <2>2. Stage(x, u)'
    BY <1>11, <1>13, <2>1, StageStays DEF appVars
  <2>3. At(x, u)' /\ u \in Range(Waiting(x)')
    BY <1>9, <1>14, <2>1
  <2>4. QED
    BY <1>12, <2>2, <2>3 DEF ItemInv
<1>15. CASE status[HostOf[i]] # "Running"
  <2>1. main' = main
    BY DEF Forward, mainVars
  <2>2. Replied => Replied'
    BY DEF Replied, Forward, envVars
  <2>3. Resting'
    BY <1>11, <1>13, <2>1, <2>2 DEF Resting, appVars
  <2>4. QED
    BY <1>9, <1>12, <1>15, <2>3 DEF ItemInv
<1>16. QED
  BY <1>14, <1>15

(* What the kind of the task says of the exchange. *)
LEMMA StageKinds ==
    ASSUME NEW h \in Host, NEW t, Stage(h, t)
    PROVE  /\ t.kind = "start" => Starting(h, t)
           /\ t.kind = "send" => Exchanging(h, t) /\ h = Sender /\ t = SendTask(Counter)
           /\ t.kind = "ping" => Pinging(h, t) /\ h = One
           /\ t.kind = "input" =>
                  \/ /\ Exchanging(h, t) /\ h = Recipient /\ Paid
                     /\ t.frame.data = Datagram(Counter)
                  \/ /\ Pinging(h, t)
                     /\ \/ h = Two /\ t.frame.data = Echo
                        \/ h = One /\ t.frame.data = EchoReply
<1>1. h # Bus
  BY OrderFacts
<1>2. /\ StartTask.kind = "start" /\ PingTask.kind = "ping"
      /\ \A n : SendTask(n).kind = "send"
  BY AppTaskTypes
<1>3. Starting(h, t) => t.kind = "start"
  BY <1>2 DEF Starting
<1>4. Exchanging(h, t) =>
          \/ t.kind = "send" /\ h = Sender /\ t = SendTask(Counter)
          \/ t.kind = "input" /\ h = Recipient /\ Paid /\ t.frame.data = Datagram(Counter)
  BY <1>1, <1>2 DEF Exchanging, Carries
<1>5. Pinging(h, t) =>
          \/ t.kind = "ping" /\ h = One
          \/ t.kind = "input" /\ h = Two /\ t.frame.data = Echo
          \/ t.kind = "input" /\ h = One /\ t.frame.data = EchoReply
  BY <1>1, <1>2 DEF Pinging, Carries
<1>6. QED
  BY <1>3, <1>4, <1>5 DEF Stage

(* A peer sends: the item waits for the bus, or is lost. *)
LEMMA ItemSent ==
    ASSUME ControlInv, NEW h \in Host, Takes(h), \A y \in Executor : NoItem(Left(h, y)),
           ~ Aloft', NEW data \in Payloads, data # Announcement, Transmit(h, data)
    PROVE  \/ Nowhere'
           \/ \E t \in Range(Waiting(Bus)') :
                  At(Bus, t)' /\ Carries(t, "broadcast", data) /\ t.frame.from = PortOf(h)
<1>1. PICK f \in Frames : /\ f.from = PortOf(h) /\ f.data = data
                          /\ BroadcastTask(f) \in TasksOf(Bus)
                          /\ Schedule(Bus, BroadcastTask(f))
  BY TransmitSchedules
<1>2. PICK t \in TasksOf(Bus) : t = BroadcastTask(f)
  BY <1>1
<1>3. IsItem(t) /\ Carries(t, "broadcast", data) /\ t.frame.from = PortOf(h)
  BY <1>1, <1>2 DEF IsItem, Carries, BroadcastTask
<1>4. IF status[Bus] = "Running" THEN At(Bus, t)' /\ t \in Range(Waiting(Bus)') ELSE Nowhere'
  BY <1>1, <1>2, <1>3, ItemMade, OrderFacts
<1>5. QED
  BY <1>3, <1>4

(* The memory of a host, and a datagram that takes some of it. *)
LEMMA HeapFacts ==
    ASSUME AppTypeOK
    PROVE  /\ \A k \in Host : heap[k] \in Nat
           /\ \A h \in Host : TakeHeap(h) =>
                  /\ heap'[h] = heap[h] + 1
                  /\ \A k \in Host : heap'[k] \in Nat /\ heap'[k] >= heap[k]
<1>1. memSize \in Nat /\ heap \in [Host -> 0 .. memSize]
  BY PeersAssumption DEF AppTypeOK
<1>2. \A k \in Host : heap[k] \in Nat
  BY <1>1
<1>3. ASSUME NEW h \in Host, TakeHeap(h), NEW k \in Host
      PROVE  heap'[k] = IF k = h THEN heap[k] + 1 ELSE heap[k]
  BY <1>1, <1>3 DEF TakeHeap
<1>4. ASSUME NEW h \in Host, TakeHeap(h), NEW k \in Host
      PROVE  heap'[k] \in Nat /\ heap'[k] >= heap[k]
  <2>1. heap[k] \in Nat /\ (heap'[k] = heap[k] + 1 \/ heap'[k] = heap[k])
    BY <1>2, <1>3, <1>4
  <2>2. QED
    BY <2>1
<1>5. QED
  BY <1>2, <1>3, <1>4

(* Comparisons of what was sent and what there is memory for. *)
LEMMA Comparisons ==
    /\ \A a, b, c \in Nat : a <= b /\ c >= b => a <= c
    /\ \A a, b, c \in Nat : a <= b /\ c = b + 1 => c > a
    /\ \A b, c \in Nat : c = b + 1 => c # b
  OBVIOUS

(* A datagram is sent, if there is memory for it. *)
LEMMA DatagramSent ==
    ASSUME ControlInv, AppTypeOK, TakenInv, NEW h \in Host, Takes(h),
           \A y \in Executor : NoItem(Left(h, y)), ~ Aloft',
           NEW n \in Nat, n = Counter, n <= MaxCounter, h = Sender, SendPing(h, n),
           scenario = "udp-ping-pong", step \in {"second result", "wait"}, bound' = Host,
           UNCHANGED <<scenario, completion, step, received>>
    PROVE  ItemInv' /\ TakenInv'
<1>1. Taken(One)' = Taken(One) /\ Taken(Two)' = Taken(Two)
  BY TakenStays
<1>2. /\ ByOne' = ByOne /\ ByTwo' = ByTwo /\ ByOne \in Nat /\ ByTwo \in Nat
  BY <1>1, TakenTypes DEF ByOne, ByTwo
<1>3. Counter' = Counter /\ Sender' = Sender /\ Counter \in Nat
  BY <1>2 DEF Counter, Sender
<1>4. heap[One] \in Nat /\ heap[Two] \in Nat
  BY HeapFacts, PeerFacts
<1>5. CASE TakeHeap(h)
  <2>1. /\ heap'[h] = heap[h] + 1 /\ heap[h] \in Nat /\ heap'[h] \in Nat
        /\ heap'[One] >= heap[One] /\ heap'[Two] >= heap[Two]
        /\ heap'[One] \in Nat /\ heap'[Two] \in Nat
    BY <1>5, HeapFacts, PeerFacts
  <2>2. ByOne <= heap[Two] /\ ByTwo <= heap[One]
    BY DEF TakenInv
  <2>3. ByOne' <= heap'[Two] /\ ByTwo' <= heap'[One]
    BY <1>2, <1>4, <2>1, <2>2, Comparisons, Zenon
  <2>4. TakenInv'
    BY <1>1, <1>2, <2>3 DEF TakenInv
  <2>5. IF ByOne = ByTwo THEN heap'[h] > ByOne /\ h = Two ELSE heap'[h] > ByTwo /\ h = One
    <3>1. h = IF ByOne = ByTwo THEN Two ELSE One
      BY DEF Sender
    <3>2. CASE ByOne = ByTwo
      BY <1>2, <1>4, <2>1, <2>2, <3>1, <3>2, Comparisons, Zenon
    <3>3. CASE ByOne # ByTwo
      BY <1>2, <1>4, <2>1, <2>2, <3>1, <3>3, Comparisons, Zenon
    <3>4. QED
      BY <3>2, <3>3, Zenon
  <2>6. Paid'
    BY <1>2, <1>3, <2>5 DEF Paid
  <2>7. QED
    <3>1. Datagram(n) \in Payloads /\ Datagram(n) # Announcement
      BY <1>3, PayloadFacts
    <3>2. PICK data \in Payloads : data = Datagram(n)
      BY <3>1
    <3>3. CASE Transmit(h, Datagram(n))
      <4>1. \/ Nowhere'
            \/ \E t \in Range(Waiting(Bus)') :
                   At(Bus, t)' /\ Carries(t, "broadcast", data) /\ t.frame.from = PortOf(h)
        BY <3>1, <3>2, <3>3, ItemSent
      <4>2. ASSUME NEW t \in Range(Waiting(Bus)'), At(Bus, t)',
                   Carries(t, "broadcast", data), t.frame.from = PortOf(h)
            PROVE  ItemInv'
        <5>1. t.frame.from = PortOf(Sender') /\ data = Datagram(Counter')
          BY <1>3, <3>2, <4>2
        <5>2. Exchanging(Bus, t)'
          BY <1>3, <2>6, <4>2, <5>1 DEF Exchanging
        <5>3. QED
          BY <4>2, <5>2, OrderFacts DEF ItemInv, Stage
      <4>3. Resting'
        BY DEF Resting
      <4>4. CASE Nowhere'
        BY <2>4, <4>3, <4>4 DEF ItemInv
      <4>5. QED
        BY <2>4, <4>1, <4>2, <4>4
    <3>4. heap'[h] # heap[h]
      BY <2>1, Comparisons, Zenon
    <3>5. QED
      BY <3>3, <3>4 DEF SendPing
<1>6. CASE UNCHANGED <<heap, queue>>
  <2>1. TakenInv'
    BY <1>1, <1>2, <1>6 DEF TakenInv
  <2>2. Nowhere'
    BY <1>6, ItemMade
  <2>3. Resting'
    BY DEF Resting
  <2>4. QED
    BY <2>1, <2>2, <2>3 DEF ItemInv
<1>7. QED
  BY <1>5, <1>6 DEF SendPing

(* A peer starts: the first gets its socket, the second also sends. *)
LEMMA PeerStarts ==
    ASSUME ControlInv, AppTypeOK, ItemInv, TakenInv, NEW h \in Host, AppStart(h),
           Aloft' <=> Aloft
    PROVE  ItemInv' /\ TakenInv'
<1>1. Takes(h) /\ Head(batch[h]).kind = "start" /\ h \in Executor
  BY AppTaskControl, OrderFacts DEF AppStart, AppTask, Begin
<1>2. IsItem(Head(batch[h]))
  BY <1>1 DEF IsItem
<1>3. /\ Stage(h, Head(batch[h])) /\ ~ Aloft'
      /\ \A y \in Executor : NoItem(Left(h, y))
  BY <1>1, <1>2, ItemTaken
<1>4. /\ scenario = "udp-ping-pong" /\ ByOne = 0 /\ ByTwo = 0
      /\ \/ h = One /\ step = "first result" /\ bound = {}
         \/ h = Two /\ step = "second result" /\ bound = {One}
  BY <1>1, <1>3, StageKinds DEF Starting
<1>5. /\ UNCHANGED <<scenario, completion, step, received, main>> /\ bound' = bound \cup {h}
      /\ IF h = Two THEN SendPing(h, 1) ELSE UNCHANGED <<heap, queue, lost>>
  BY DEF AppStart, AppTask, envVars, mainVars
<1>6. CASE h = One
  <2>1. UNCHANGED <<heap, queue>> /\ bound' = {One} /\ step = "first result"
    BY <1>4, <1>5, <1>6, PeerFacts
  <2>2. Nowhere'
    BY <1>1, <1>3, <2>1, ItemMade
  <2>3. Taken(One)' = Taken(One) /\ Taken(Two)' = Taken(Two)
    BY <1>5, TakenStays
  <2>4. ByOne' = ByOne /\ ByTwo' = ByTwo
    BY <2>3 DEF ByOne, ByTwo
  <2>5. TakenInv'
    BY <1>5, <2>1, <2>3, <2>4 DEF TakenInv
  <2>6. Resting'
    BY <1>4, <1>5, <2>1, <2>4 DEF Resting
  <2>7. QED
    BY <2>2, <2>5, <2>6 DEF ItemInv
<1>7. CASE h = Two
  <2>1. bound' = Host /\ step = "second result" /\ SendPing(h, 1)
    BY <1>4, <1>5, <1>7, PeerFacts
  <2>2. Counter = 1 /\ h = Sender
    <3>1. \A a, b : a = 0 /\ b = 0 => a + b + 1 = 1
      OBVIOUS
    <3>2. Counter = 1
      BY <1>4, <3>1, Zenon DEF Counter
    <3>3. h = Sender
      BY <1>4, <1>7 DEF Sender
    <3>4. QED
      BY <3>2, <3>3
  <2>3. PICK n \in Nat : n = 1
    OBVIOUS
  <2>4. n <= MaxCounter
    BY <2>3, PeersAssumption
  <2>5. QED
    BY <1>1, <1>3, <1>4, <1>5, <2>1, <2>2, <2>3, <2>4, DatagramSent
<1>8. QED
  BY <1>4, <1>6, <1>7

(* A peer sends the answer that _receive_data has scheduled. *)
LEMMA PeerSends ==
    ASSUME ControlInv, AppTypeOK, ItemInv, TakenInv, NEW h \in Host, AppSend(h),
           Aloft' <=> Aloft
    PROVE  ItemInv' /\ TakenInv'
<1>1. Takes(h) /\ Head(batch[h]).kind = "send" /\ h \in Executor
  BY AppTaskControl, OrderFacts DEF AppSend, AppTask, Begin
<1>2. IsItem(Head(batch[h]))
  BY <1>1 DEF IsItem
<1>3. /\ Stage(h, Head(batch[h])) /\ ~ Aloft'
      /\ \A y \in Executor : NoItem(Left(h, y))
  BY <1>1, <1>2, ItemTaken
<1>4. Exchanging(h, Head(batch[h])) /\ h = Sender /\ Head(batch[h]) = SendTask(Counter)
  BY <1>1, <1>3, StageKinds
<1>5. ByOne \in Nat /\ ByTwo \in Nat
  BY TakenTypes
<1>6. PICK n \in Nat : n = Counter
  BY <1>5 DEF Counter
<1>7. Head(batch[h]).counter = n
  BY <1>4, <1>6, AppTaskTypes
<1>8. /\ scenario = "udp-ping-pong" /\ step \in {"second result", "wait"}
      /\ bound = Host /\ n <= MaxCounter
  BY <1>4, <1>6 DEF Exchanging
<1>9. UNCHANGED <<scenario, completion, step, received, bound>> /\ SendPing(h, n)
  BY <1>7 DEF AppSend, AppTask, envVars
<1>10. bound' = Host
  BY <1>8, <1>9
<1>11. QED
  BY <1>1, <1>3, <1>4, <1>6, <1>8, <1>9, <1>10, DatagramSent

(* The ping, and the answer to it, are sent. *)
LEMMA EchoSent ==
    ASSUME ControlInv, TakenInv, NEW h \in Host, Takes(h),
           \A y \in Executor : NoItem(Left(h, y)), ~ Aloft',
           NEW data \in Payloads, Transmit(h, data),
           (h = One /\ data = Echo) \/ (h = Two /\ data = EchoReply),
           scenario = "icmp-ping", step \in {"first result", "wait"}, One \notin completion,
           UNCHANGED <<scenario, completion, step, heap, bound>>,
           Taken(One)' = Taken(One), Taken(Two)' = Taken(Two)
    PROVE  ItemInv' /\ TakenInv'
<1>1. ByOne' = ByOne /\ ByTwo' = ByTwo
  BY DEF ByOne, ByTwo
<1>2. TakenInv'
  BY <1>1 DEF TakenInv
<1>3. data # Announcement
  BY PayloadFacts
<1>4. \/ Nowhere'
      \/ \E t \in Range(Waiting(Bus)') :
             At(Bus, t)' /\ Carries(t, "broadcast", data) /\ t.frame.from = PortOf(h)
  BY <1>3, ItemSent
<1>5. ASSUME NEW t \in Range(Waiting(Bus)'), At(Bus, t)',
             Carries(t, "broadcast", data), t.frame.from = PortOf(h)
      PROVE  ItemInv'
  <2>1. Pinging(Bus, t)'
    BY <1>5 DEF Pinging
  <2>2. QED
    BY <1>5, <2>1, OrderFacts DEF ItemInv, Stage
<1>6. Resting'
  BY DEF Resting
<1>7. CASE Nowhere'
  BY <1>2, <1>6, <1>7 DEF ItemInv
<1>8. QED
  BY <1>2, <1>4, <1>5, <1>7

(* The first peer pings. *)
LEMMA PeerPings ==
    ASSUME ControlInv, ItemInv, TakenInv, NEW h \in Host, AppPing(h), Aloft' <=> Aloft
    PROVE  ItemInv' /\ TakenInv'
<1>1. Takes(h) /\ Head(batch[h]).kind = "ping" /\ h \in Executor
  BY AppTaskControl, OrderFacts DEF AppPing, AppTask, Begin
<1>2. IsItem(Head(batch[h]))
  BY <1>1 DEF IsItem
<1>3. /\ Stage(h, Head(batch[h])) /\ ~ Aloft'
      /\ \A y \in Executor : NoItem(Left(h, y))
  BY <1>1, <1>2, ItemTaken
<1>4. /\ h = One /\ scenario = "icmp-ping" /\ step \in {"first result", "wait"}
      /\ One \notin completion
  BY <1>1, <1>3, StageKinds DEF Pinging
<1>5. UNCHANGED <<scenario, completion, step, heap, bound, received>> /\ Transmit(h, Echo)
  BY DEF AppPing, AppTask, envVars
<1>6. PICK data \in Payloads : data = Echo
  BY PayloadFacts
<1>7. QED
  BY <1>1, <1>3, <1>4, <1>5, <1>6, TakenStays, EchoSent

-----------------------------------------------------------------------------
(* A datagram is taken.                                                    *)

(* The numbers of the datagrams of which the first peer has taken a and   *)
(* the second b, when n is the next one and c counts it.                  *)
LEMMA TurnOfOne ==
    ASSUME NEW a \in Nat, NEW b \in Nat, a = b, NEW n \in Nat, n = a + b + 1,
           NEW M \in Nat, n <= M, NEW c \in Nat, c = a + 1
    PROVE  /\ c # b /\ c = b + 1 /\ c + b <= M /\ n = 2 * c - 1 /\ c + b + 1 = n + 1
           /\ n + 1 >= M => 2 * c >= M
           /\ 2 * a >= M => 2 * c >= M
           /\ \A m \in Nat : m > a => c <= m
  OBVIOUS

(* The same when it is for the second. *)
LEMMA TurnOfTwo ==
    ASSUME NEW a \in Nat, NEW b \in Nat, a = b + 1, NEW n \in Nat, n = a + b + 1,
           NEW M \in Nat, n <= M, NEW c \in Nat, c = b + 1
    PROVE  /\ a # b /\ a = c /\ a + c <= M /\ n = 2 * c /\ a + c + 1 = n + 1
           /\ n + 1 >= M => 2 * c + 1 >= M
           /\ 2 * b + 1 >= M => 2 * c + 1 >= M
           /\ \A m \in Nat : m > b => c <= m
  OBVIOUS

(* The datagram comes after those taken before. *)
LEMMA NextTaken ==
    ASSUME NEW s \in Seq(Frames), NEW f \in Frames, NEW r, Adds(s, f, r)
    PROVE  /\ Len(s) \in Nat /\ Len(r) = Len(s) + 1 /\ r[Len(r)] = f
           /\ \A k \in 1 .. Len(r) : k = Len(r) \/ (k \in 1 .. Len(s) /\ r[k] = s[k])
<1>1. /\ Len(r) = Len(s) + 1 /\ Len(s) \in Nat
      /\ r[Len(s) + 1] = f /\ \A n \in 1 .. Len(s) : r[n] = s[n]
  BY AddsFacts
<1>2. \A k \in 1 .. Len(r) : k = Len(r) \/ k \in 1 .. Len(s)
  BY <1>1
<1>3. QED
  BY <1>1, <1>2

(* The first peer takes a datagram. *)
LEMMA OneTakes ==
    ASSUME ControlInv, AppTypeOK, TakenInv, NEW n \in Nat, n = Counter, n <= MaxCounter,
           ByOne = ByTwo, Paid, NEW f \in Frames, f.data = Datagram(n),
           Adds(Taken(One), f, Taken(One)'), Taken(Two)' = Taken(Two),
           UNCHANGED <<scenario, heap>>, completion' \subseteq completion \cup {One},
           One \in completion' => One \in completion \/ n + 1 >= MaxCounter
    PROVE  TakenInv' /\ Counter' = n + 1 /\ Sender' = One
<1>1. Taken(One) \in Seq(Frames) /\ MaxCounter \in Nat
  BY TakenTypes, PeerFacts, PeersAssumption
<1>2. /\ ByOne \in Nat /\ ByOne' = ByOne + 1 /\ Taken(One)'[ByOne'] = f
      /\ \A k \in 1 .. ByOne' :
             k = ByOne' \/ (k \in 1 .. ByOne /\ Taken(One)'[k] = Taken(One)[k])
  BY <1>1, NextTaken DEF ByOne
<1>3. ByTwo' = ByTwo /\ ByTwo \in Nat
  BY TakenTypes DEF ByTwo
<1>4. PICK a \in Nat, b \in Nat, c \in Nat : a = ByOne /\ b = ByTwo /\ c = ByOne' /\ c = a + 1
  BY <1>2, <1>3
<1>5. n = a + b + 1 /\ a = b
  BY <1>4 DEF Counter
<1>6. /\ c # b /\ c = b + 1 /\ c + b <= MaxCounter /\ n = 2 * c - 1 /\ c + b + 1 = n + 1
      /\ n + 1 >= MaxCounter => 2 * c >= MaxCounter
      /\ 2 * a >= MaxCounter => 2 * c >= MaxCounter
      /\ \A m \in Nat : m > a => c <= m
  BY <1>1, <1>4, <1>5, TurnOfOne
<1>7. Counter' = n + 1 /\ Sender' = One
  <2>1. Counter' = c + b + 1 /\ Sender' = IF c = b THEN Two ELSE One
    BY <1>3, <1>4 DEF Counter, Sender
  <2>2. QED
    BY <1>6, <2>1
<1>8. c <= heap[Two] /\ ByTwo <= heap[One]
  <2>1. heap[Two] > a /\ heap[Two] \in Nat
    BY <1>4, <1>5, HeapFacts, PeerFacts DEF Paid, Sender
  <2>2. QED
    BY <1>6, <2>1 DEF TakenInv
<1>9. \A k \in 1 .. ByOne' : Taken(One)'[k].data = Datagram(2 * k - 1)
  <2>1. \A k \in 1 .. ByOne : Taken(One)[k].data = Datagram(2 * k - 1)
    BY DEF TakenInv
  <2>2. f.data = Datagram(2 * ByOne' - 1)
    BY <1>4, <1>6
  <2>3. QED
    BY <1>2, <2>1, <2>2, Zenon
<1>10. \A k \in 1 .. ByTwo' : Taken(Two)'[k].data = Datagram(2 * k)
  BY <1>3 DEF TakenInv
<1>11. scenario' = "udp-ping-pong" =>
           /\ One \in completion' => 2 * ByOne' >= MaxCounter
           /\ Two \in completion' => 2 * ByTwo' + 1 >= MaxCounter
  <2>1. scenario = "udp-ping-pong" =>
            /\ One \in completion => 2 * a >= MaxCounter
            /\ Two \in completion => 2 * b + 1 >= MaxCounter
    BY <1>4 DEF TakenInv
  <2>2. Two \in completion' => Two \in completion
    BY PeerFacts
  <2>3. QED
    BY <1>3, <1>4, <1>6, <2>1, <2>2
<1>12. TakenInv'
  BY <1>3, <1>4, <1>6, <1>8, <1>9, <1>10, <1>11 DEF TakenInv
<1>13. QED
  BY <1>7, <1>12

(* The second peer takes a datagram. *)
LEMMA TwoTakes ==
    ASSUME ControlInv, AppTypeOK, TakenInv, NEW n \in Nat, n = Counter, n <= MaxCounter,
           ByOne # ByTwo, Paid, NEW f \in Frames, f.data = Datagram(n),
           Adds(Taken(Two), f, Taken(Two)'), Taken(One)' = Taken(One),
           UNCHANGED <<scenario, heap>>, completion' \subseteq completion \cup {Two},
           Two \in completion' => Two \in completion \/ n + 1 >= MaxCounter
    PROVE  TakenInv' /\ Counter' = n + 1 /\ Sender' = Two
<1>1. Taken(Two) \in Seq(Frames) /\ MaxCounter \in Nat
  BY TakenTypes, PeerFacts, PeersAssumption
<1>2. /\ ByTwo \in Nat /\ ByTwo' = ByTwo + 1 /\ Taken(Two)'[ByTwo'] = f
      /\ \A k \in 1 .. ByTwo' :
             k = ByTwo' \/ (k \in 1 .. ByTwo /\ Taken(Two)'[k] = Taken(Two)[k])
  BY <1>1, NextTaken DEF ByTwo
<1>3. ByOne' = ByOne /\ ByOne \in Nat
  BY TakenTypes DEF ByOne
<1>4. PICK a \in Nat, b \in Nat, c \in Nat : a = ByOne /\ b = ByTwo /\ c = ByTwo' /\ c = b + 1
  BY <1>2, <1>3
<1>5. n = a + b + 1 /\ a = b + 1 /\ a # b
  BY <1>4 DEF Counter, TakenInv
<1>6. /\ a = c /\ a + c <= MaxCounter /\ n = 2 * c /\ a + c + 1 = n + 1
      /\ n + 1 >= MaxCounter => 2 * c + 1 >= MaxCounter
      /\ 2 * b + 1 >= MaxCounter => 2 * c + 1 >= MaxCounter
      /\ \A m \in Nat : m > b => c <= m
  BY <1>1, <1>4, <1>5, TurnOfTwo
<1>7. Counter' = n + 1 /\ Sender' = Two
  <2>1. Counter' = a + c + 1 /\ Sender' = IF a = c THEN Two ELSE One
    BY <1>3, <1>4 DEF Counter, Sender
  <2>2. QED
    BY <1>6, <2>1
<1>8. c <= heap[One] /\ ByOne <= heap[Two]
  <2>1. heap[One] > b /\ heap[One] \in Nat
    BY <1>4, <1>5, HeapFacts, PeerFacts DEF Paid, Sender
  <2>2. QED
    BY <1>6, <2>1 DEF TakenInv
<1>9. \A k \in 1 .. ByTwo' : Taken(Two)'[k].data = Datagram(2 * k)
  <2>1. \A k \in 1 .. ByTwo : Taken(Two)[k].data = Datagram(2 * k)
    BY DEF TakenInv
  <2>2. f.data = Datagram(2 * ByTwo')
    BY <1>4, <1>6
  <2>3. QED
    BY <1>2, <2>1, <2>2, Zenon
<1>10. \A k \in 1 .. ByOne' : Taken(One)'[k].data = Datagram(2 * k - 1)
  BY <1>3 DEF TakenInv
<1>11. scenario' = "udp-ping-pong" =>
           /\ One \in completion' => 2 * ByOne' >= MaxCounter
           /\ Two \in completion' => 2 * ByTwo' + 1 >= MaxCounter
  <2>1. scenario = "udp-ping-pong" =>
            /\ One \in completion => 2 * a >= MaxCounter
            /\ Two \in completion => 2 * b + 1 >= MaxCounter
    BY <1>4 DEF TakenInv
  <2>2. One \in completion' => One \in completion
    BY PeerFacts
  <2>3. QED
    BY <1>3, <1>4, <1>6, <2>1, <2>2
<1>12. TakenInv'
  BY <1>3, <1>4, <1>6, <1>8, <1>9, <1>10, <1>11 DEF TakenInv
<1>13. QED
  BY <1>7, <1>12

(* The number of the answer. *)
LEMMA Successor == \A n, m \in Nat : n + 1 \in Nat /\ (n < m => n + 1 <= m)
  OBVIOUS

(* A datagram is taken and answered, or the last one is taken. *)
LEMMA DatagramTaken ==
    ASSUME ControlInv, AppTypeOK, TakenInv, NEW h \in Host, Takes(h),
           \A y \in Executor : NoItem(Left(h, y)), ~ Aloft',
           NEW n \in Nat, n = Counter, n <= MaxCounter, h = Recipient, Paid,
           NEW f \in Frames, f.data = Datagram(n),
           received' = [received EXCEPT ![PortOf(h)] = Append(@, f)],
           scenario = "udp-ping-pong", step \in {"second result", "wait"}, bound = Host,
           UNCHANGED <<scenario, heap, bound, step>>, ReceiveData(h, n)
    PROVE  ItemInv' /\ TakenInv'
<1>1. /\ \A k \in Host \ {h} : Taken(k)' = Taken(k)
      /\ Adds(Taken(h), f, Taken(h)')
  BY TakenAdds, PayloadFacts
<1>2. /\ completion' \subseteq completion \cup {h}
      /\ h \in completion' => h \in completion \/ n + 1 >= MaxCounter
  BY DEF ReceiveData, Completes
<1>3. TakenInv' /\ Counter' = n + 1 /\ Sender' = h
  <2>1. CASE ByOne = ByTwo
    <3>1. h = One
      BY <2>1 DEF Recipient
    <3>2. QED
      BY <1>1, <1>2, <2>1, <3>1, PeerFacts, OneTakes
  <2>2. CASE ByOne # ByTwo
    <3>1. h = Two
      BY <2>2 DEF Recipient
    <3>2. QED
      BY <1>1, <1>2, <2>2, <3>1, PeerFacts, TwoTakes
  <2>3. QED
    BY <2>1, <2>2
<1>4. Resting'
  BY DEF Resting
<1>5. CASE n < MaxCounter
  <2>1. PICK t \in TasksOf(h) : t = SendTask(n + 1) /\ IsItem(t) /\ Schedule(h, t)
    <3>1. n + 1 \in Nat
      BY Successor, Zenon
    <3>2. SendTask(n + 1) \in TasksOf(h) /\ IsItem(SendTask(n + 1))
      BY <3>1, AppTaskTypes, ItemKinds, Zenon
    <3>3. Schedule(h, SendTask(n + 1))
      BY <1>5, Zenon DEF ReceiveData, Answer
    <3>4. QED
      BY <3>2, <3>3, Zenon
  <2>2. IF status[h] = "Running" THEN At(h, t)' /\ t \in Range(Waiting(h)') ELSE Nowhere'
    BY <2>1, ItemMade, OrderFacts
  <2>3. CASE status[h] = "Running"
    <3>1. Counter' <= MaxCounter /\ t = SendTask(Counter')
      <4>1. n + 1 <= MaxCounter
        <5>1. MaxCounter \in Nat
          BY PeersAssumption
        <5>2. QED
          BY <1>5, <5>1, Successor, Zenon
      <4>2. QED
        BY <1>3, <2>1, <4>1
    <3>2. Exchanging(h, t)'
      BY <1>3, <3>1 DEF Exchanging
    <3>3. QED
      BY <1>3, <2>2, <2>3, <3>2, OrderFacts DEF ItemInv, Stage
  <2>4. CASE status[h] # "Running"
    BY <1>3, <1>4, <2>2, <2>4 DEF ItemInv
  <2>5. QED
    BY <2>3, <2>4
<1>6. CASE ~ (n < MaxCounter)
  <2>1. UNCHANGED queue
    BY <1>6 DEF ReceiveData
  <2>2. Nowhere'
    BY <2>1, ItemMade
  <2>3. QED
    BY <1>3, <1>4, <2>2 DEF ItemInv
<1>7. QED
  BY <1>5, <1>6

(* A peer gets a datagram, the ping or the answer to it. *)
LEMMA PeerReceives ==
    ASSUME ControlInv, AppTypeOK, ItemInv, TakenInv, NEW h \in Host, AppInput(h),
           IsItem(Head(batch[h])), Aloft' <=> Aloft
    PROVE  ItemInv' /\ TakenInv'
<1>1. Takes(h) /\ Head(batch[h]).kind = "input" /\ h \in Executor
  BY AppInputControl, OrderFacts
<1>2. PICK f \in Frames : f = Head(batch[h]).frame
  BY AppInputControl
<1>3. /\ Stage(h, Head(batch[h])) /\ ~ Aloft'
      /\ \A y \in Executor : NoItem(Left(h, y))
  BY <1>1, ItemTaken
<1>4. /\ UNCHANGED <<scenario, heap, bound, step>>
      /\ received' = [received EXCEPT ![PortOf(h)] = Append(@, f)]
  BY <1>2, AppInputControl DEF AppInput
<1>5. CASE /\ Exchanging(h, Head(batch[h])) /\ h = Recipient /\ Paid
           /\ f.data = Datagram(Counter)
  <2>1. ByOne \in Nat /\ ByTwo \in Nat
    BY TakenTypes
  <2>2. PICK n \in Nat : n = Counter
    BY <2>1 DEF Counter
  <2>3. /\ f.data = Datagram(n) /\ f.data[1] = "udp" /\ f.data[2] = n
        /\ f.data \notin {Announcement, Echo, EchoReply}
    BY <1>5, <2>2, PayloadFacts
  <2>4. ReceiveData(h, n)
    BY <1>2, <2>3 DEF AppInput
  <2>5. /\ scenario = "udp-ping-pong" /\ step \in {"second result", "wait"}
        /\ bound = Host /\ n <= MaxCounter
    BY <1>5, <2>2 DEF Exchanging
  <2>6. QED
    BY <1>1, <1>3, <1>4, <1>5, <2>2, <2>3, <2>4, <2>5, DatagramTaken
<1>6. ASSUME Pinging(h, Head(batch[h])),
             (h = Two /\ f.data = Echo) \/ (h = One /\ f.data = EchoReply)
      PROVE  ItemInv' /\ TakenInv'
  <2>1. f.data[1] # "udp" /\ f.data # Announcement
    BY <1>6, PayloadFacts
  <2>2. /\ Taken(One)' = Taken(One) /\ Taken(Two)' = Taken(Two)
        /\ h = One /\ f.data = EchoReply => Replied'
    BY <1>4, <2>1, TakenAdds, PeerFacts
  <2>3. /\ scenario = "icmp-ping" /\ step \in {"first result", "wait"} /\ One \notin completion
    BY <1>6 DEF Pinging
  <2>4. CASE h = Two /\ f.data = Echo
    <3>1. Transmit(h, EchoReply) /\ UNCHANGED completion
      BY <1>2, <2>1, <2>4, PayloadFacts DEF AppInput
    <3>2. PICK data \in Payloads : data = EchoReply
      BY PayloadFacts
    <3>3. QED
      BY <1>1, <1>3, <1>4, <2>2, <2>3, <2>4, <3>1, <3>2, EchoSent
  <2>5. CASE h = One /\ f.data = EchoReply
    <3>1. completion' = completion \cup {One} /\ UNCHANGED queue
      BY <1>2, <2>1, <2>5, PayloadFacts DEF AppInput
    <3>2. Nowhere'
      BY <1>1, <1>3, <3>1, ItemMade
    <3>3. ByOne' = ByOne /\ ByTwo' = ByTwo
      BY <2>2 DEF ByOne, ByTwo
    <3>4. TakenInv'
      BY <1>4, <2>2, <2>3, <3>3 DEF TakenInv
    <3>5. Resting'
      BY <1>4, <2>2, <2>3, <2>5 DEF Resting
    <3>6. QED
      BY <3>2, <3>4, <3>5 DEF ItemInv
  <2>6. QED
    BY <1>6, <2>4, <2>5
<1>7. QED
  BY <1>1, <1>2, <1>3, <1>5, <1>6, StageKinds

-----------------------------------------------------------------------------
(* The calls of the main thread.                                           *)

(* No application is at work before its call. *)
LEMMA CallFindsNone ==
    ASSUME ItemInv, step \in {"first", "second"}
    PROVE  Nowhere /\ Resting
  BY DEF ItemInv, Stage, Starting, Exchanging, Pinging

(* A call that is accepted is the item; the others end the main thread. *)
LEMMA CallMakes ==
    ASSUME ControlInv, Nowhere, NEW h \in Host, NEW t \in TasksOf(h), NEW place,
           Call(h, t, place), IsItem(t), Aloft' <=> Aloft
    PROVE  IF status[h] = "Running" THEN At(h, t)' /\ t \in Range(Waiting(h)')
                                    ELSE Nowhere' /\ main' = "raised"
<1>1. Takes(MainThread) /\ Schedule(h, t) /\ h \in Executor /\ MainThread \notin Executor
  BY CallControl, OrderFacts, NetworkAssumption
<1>2. ~ Aloft' /\ \A y \in Executor : NoItem(Left(MainThread, y))
  BY <1>1 DEF Nowhere, Left
<1>3. IF status[h] = "Running" THEN At(h, t)' /\ t \in Range(Waiting(h)') ELSE Nowhere'
  BY <1>1, <1>2, ItemMade
<1>4. status[h] # "Running" => main' = "raised"
  BY DEF Call
<1>5. QED
  BY <1>3, <1>4

(* The first call. *)
LEMMA FirstCall ==
    ASSUME ControlInv, AppTypeOK, ItemInv, TakenInv, CallFirst, Aloft' <=> Aloft
    PROVE  ItemInv' /\ TakenInv'
<1>1. /\ Nowhere /\ Resting /\ One \in Host /\ One \in Executor
  BY CallFindsNone, PeerFacts DEF CallFirst
<1>2. PICK t \in TasksOf(One) :
          /\ t = IF scenario = "icmp-ping" THEN PingTask ELSE StartTask
          /\ Call(One, t, "first result")
  BY FirstTask
<1>3. /\ UNCHANGED <<scenario, heap, bound, completion, received>> /\ step' = "first result"
  BY <1>2 DEF Call, envVars
<1>4. bound = {} /\ completion = {} /\ ByOne = 0 /\ ByTwo = 0
  BY <1>1 DEF CallFirst, Resting
<1>5. Taken(One)' = Taken(One) /\ Taken(Two)' = Taken(Two)
  BY <1>3, TakenStays
<1>6. ByOne' = 0 /\ ByTwo' = 0
  BY <1>4, <1>5 DEF ByOne, ByTwo
<1>7. TakenInv'
  BY <1>3, <1>4, <1>5, <1>6 DEF TakenInv
<1>8. IsItem(t)
  BY <1>2, ItemKinds
<1>9. IF status[One] = "Running" THEN At(One, t)' /\ t \in Range(Waiting(One)')
                                 ELSE Nowhere' /\ main' = "raised"
  BY <1>1, <1>2, <1>8, CallMakes
<1>10. Resting' \/ main' # "raised"
  BY <1>3, <1>4, <1>6 DEF Resting, AppTypeOK
<1>11. Stage(One, t)'
  <2>1. CASE scenario = "icmp-ping"
    <3>1. t = PingTask /\ scenario' = "icmp-ping" /\ One \notin completion'
      BY <1>2, <1>3, <1>4, <2>1
    <3>2. Pinging(One, t)'
      BY <1>3, <3>1 DEF Pinging
    <3>3. QED
      BY <3>2 DEF Stage
  <2>2. CASE scenario = "udp-ping-pong"
    <3>1. t = StartTask /\ scenario' = "udp-ping-pong" /\ bound' = {}
      BY <1>2, <1>3, <1>4, <2>2
    <3>2. Starting(One, t)'
      BY <1>3, <1>6, <3>1 DEF Starting
    <3>3. QED
      BY <3>2 DEF Stage
  <2>3. QED
    BY <2>1, <2>2 DEF AppTypeOK
<1>12. QED
  BY <1>1, <1>7, <1>9, <1>10, <1>11 DEF ItemInv

(* The second call. *)
LEMMA SecondCall ==
    ASSUME ControlInv, AppTypeOK, ItemInv, TakenInv, CallSecond, Aloft' <=> Aloft
    PROVE  ItemInv' /\ TakenInv'
<1>1. /\ Nowhere /\ Resting /\ Two \in Host /\ Two \in Executor
  BY CallFindsNone, PeerFacts DEF CallSecond
<1>2. StartTask \in TasksOf(Two) /\ IsItem(StartTask) /\ Call(Two, StartTask, "second result")
  BY <1>1, AppTaskTypes, ItemKinds DEF CallSecond
<1>3. /\ UNCHANGED <<scenario, heap, bound, completion, received>> /\ step' = "second result"
  BY <1>2 DEF Call, envVars
<1>4. scenario = "udp-ping-pong" /\ bound = {One} /\ ByOne = 0 /\ ByTwo = 0
  BY <1>1 DEF CallSecond, Resting
<1>5. Taken(One)' = Taken(One) /\ Taken(Two)' = Taken(Two)
  BY <1>3, TakenStays
<1>6. ByOne' = ByOne /\ ByTwo' = ByTwo
  BY <1>5 DEF ByOne, ByTwo
<1>7. TakenInv'
  BY <1>3, <1>5, <1>6 DEF TakenInv
<1>8. IF status[Two] = "Running" THEN At(Two, StartTask)' /\ StartTask \in Range(Waiting(Two)')
                                 ELSE Nowhere' /\ main' = "raised"
  BY <1>1, <1>2, CallMakes
<1>9. Resting'
  BY <1>3, <1>4 DEF Resting
<1>10. Starting(Two, StartTask)'
  BY <1>3, <1>4, <1>6 DEF Starting
<1>11. PICK t : t = StartTask
  OBVIOUS
<1>12. QED
  BY <1>1, <1>7, <1>8, <1>9, <1>10, <1>11 DEF ItemInv, Stage

(* What waits is not finished. *)
LEMMA WaitingIsUnfinished ==
    ASSUME ControlInv, NEW x \in Executor, NEW t \in Range(Waiting(x))
    PROVE  t \in Range(Unfinished(x))
<1> DEFINE s == Whole(batch[x], queue[x])
<1>1. batch[x] \in Seq(TasksOf(x)) /\ queue[x] \in Seq(TasksOf(x))
  BY DEF ControlInv, QueueTypes
<1>2. s \in Seq(TasksOf(x))
  BY <1>1 DEF Whole
<1>3. thread[x] \in Active => s # <<>> /\ Later(batch[x], queue[x]) = Tail(s)
  BY <1>1, LaterTail DEF ControlInv, WorkerInv
<1> HIDE DEF s
<1>4. s # <<>> => Range(Tail(s)) \subseteq Range(s)
  <2>1. s # <<>> => \A n \in DOMAIN Tail(s) : n + 1 \in DOMAIN s /\ Tail(s)[n] = s[n + 1]
    BY <1>2
  <2>2. QED
    BY <2>1 DEF Range
<1>5. CASE thread[x] \in {"busy", "blocked"}
  <2>1. Waiting(x) = Tail(s) /\ s # <<>> /\ Unfinished(x) = s
    BY <1>3, <1>5, WaitingCases DEF Active, s
  <2>2. QED
    BY <1>4, <2>1
<1>6. CASE thread[x] \notin {"busy", "blocked"}
  <2>1. Waiting(x) = Unfinished(x)
    BY <1>6, WaitingCases DEF Active
  <2>2. QED
    BY <2>1
<1>7. QED
  BY <1>5, <1>6

(* A call returns: its task has ended. *)
LEMMA CallEnds ==
    ASSUME ControlInv, AppTypeOK, ItemInv, TakenInv, CallInv, CallReturns, Aloft' <=> Aloft
    PROVE  ItemInv' /\ TakenInv'
<1>1. /\ Takes(MainThread) /\ UNCHANGED queue /\ MainThread \notin Executor
  BY ReturnControl, NetworkAssumption
<1>2. SameItem
  BY <1>1, ItemStays
<1>3. /\ UNCHANGED <<scenario, heap, bound, completion, received>>
      /\ main = "program" /\ step \in {"first result", "second result"}
      /\ step' = IF step = "first result" /\ scenario = "udp-ping-pong" THEN "second" ELSE "wait"
      /\ MainThread \in answered
  BY DEF CallReturns, HasResult, envVars
<1>4. ASSUME NEW h \in Host, NEW t \in Range(Waiting(h)) PROVE t.by # MainThread
  <2>1. t \in Range(Unfinished(h)) /\ NoneByMain(Unfinished(h))
    BY <1>3, <1>4, WaitingIsUnfinished, OrderFacts DEF CallInv
  <2>2. QED
    BY <2>1 DEF NoneByMain, Range
<1>5. Taken(One)' = Taken(One) /\ Taken(Two)' = Taken(Two) /\ (Replied => Replied')
  BY <1>3, TakenStays
<1>6. ByOne' = ByOne /\ ByTwo' = ByTwo
  BY <1>5 DEF ByOne, ByTwo
<1>7. TakenInv'
  BY <1>3, <1>5, <1>6 DEF TakenInv
<1>8. ASSUME NEW x, NEW t, Stage(x, t), x \in Host => t.by # MainThread
      PROVE  Stage(x, t)'
  <2>1. ~ Starting(x, t) /\ ~ (x = One /\ t = PingTask)
    BY <1>8, AppTaskTypes, PeerFacts DEF Starting
  <2>2. /\ Counter' = Counter /\ Sender' = Sender /\ Recipient' = Recipient /\ Paid' = Paid
    BY <1>3, <1>6 DEF Counter, Sender, Recipient, Paid
  <2>3. CASE Exchanging(x, t)
    <3>1. step' = "wait"
      BY <1>3, <2>3 DEF Exchanging
    <3>2. Exchanging(x, t)'
      BY <1>3, <2>2, <2>3, <3>1 DEF Exchanging
    <3>3. QED
      BY <3>2 DEF Stage
  <2>4. CASE Pinging(x, t)
    <3>1. step' = "wait"
      BY <1>3, <2>4 DEF Pinging
    <3>2. Pinging(x, t)'
      BY <1>3, <2>1, <2>4, <3>1 DEF Pinging
    <3>3. QED
      BY <3>2 DEF Stage
  <2>5. QED
    BY <1>8, <2>1, <2>3, <2>4 DEF Stage
<1>9. CASE Nowhere /\ Resting
  <2>1. Resting'
    BY <1>3, <1>5, <1>6, <1>9 DEF Resting
  <2>2. Nowhere'
    BY <1>2, <1>9 DEF SameItem
  <2>3. QED
    BY <1>7, <2>1, <2>2 DEF ItemInv
<1>10. ASSUME NEW x \in Executor, NEW t \in Range(Waiting(x)), At(x, t), Stage(x, t)
       PROVE  ItemInv'
  <2>1. At(x, t)'
    BY <1>2, <1>10 DEF SameItem
  <2>2. Stage(x, t)'
    BY <1>4, <1>8, <1>10
  <2>3. t \in Range(Waiting(x)')
    BY <2>1 DEF At, OneItem, Range
  <2>4. QED
    BY <2>1, <2>2, <2>3 DEF ItemInv
<1>11. ASSUME Flying, NEW t \in {Head(batch[Bus])}, Stage(Bus, t) PROVE ItemInv'
  <2>1. Flying' /\ t \in {Head(batch'[Bus])}
    BY <1>2, <1>11 DEF SameItem
  <2>2. Stage(Bus, t)'
    BY <1>8, <1>11, OrderFacts
  <2>3. QED
    BY <2>1, <2>2 DEF ItemInv
<1>12. QED
  BY <1>7, <1>9, <1>10, <1>11 DEF ItemInv

-----------------------------------------------------------------------------
(* The invariant.                                                          *)

(* Every step keeps the item and what the peers have taken as they must be. *)
LEMMA NextItem ==
    ASSUME ControlInv, AppTypeOK, ItemInv, TodoInv, TakenInv, CallInv, [AppNext]_allVars
    PROVE  ItemInv' /\ TakenInv'
<1>1. ASSUME NetworkStep, UNCHANGED appVars PROVE ItemInv' /\ TakenInv'
  BY <1>1, NetworkRests, ItemTakesOff, ItemLands
<1>2. CASE AppStep
  <2>1. UNCHANGED <<todo, batch>>
    BY <1>2 DEF AppStep, CallFirst, CallSecond, CallReturns, Call,
                AppStart, AppSend, AppPing, AppTask, AppInput, InputData
  <2>2. Aloft' <=> Aloft
    BY <2>1 DEF Aloft
  <2>3. CASE CallFirst \/ CallSecond \/ CallReturns
    BY <2>2, <2>3, FirstCall, SecondCall, CallEnds
  <2>4. ASSUME NEW h \in Host, AppStart(h) \/ AppSend(h) \/ AppPing(h) \/ AppInput(h)
        PROVE  ItemInv' /\ TakenInv'
    BY <2>2, <2>4, PeerStarts, PeerSends, PeerPings, PeerReceives, AnnouncementTaken
  <2>5. QED
    BY <1>2, <2>3, <2>4 DEF AppStep
<1>3. CASE UNCHANGED allVars
  <2>1. \A y \in Executor : Waiting(y)' = Waiting(y)
    BY <1>3 DEF allVars, vars, execVars, Waiting, Accepted
  <2>2. UNCHANGED <<todo, batch, received, main, appVars>>
    BY <1>3 DEF allVars, vars, execVars, envVars, mainVars
  <2>3. SameItem
    BY <2>1, <2>2, ItemWaits DEF Aloft
  <2>4. QED
    BY <2>2, <2>3, TakenStays, ItemUndisturbed DEF appVars
<1>4. QED
  BY <1>1, <1>2, <1>3, StepCases

(* The invariant holds before start(). *)
LEMMA InitApp == AppInit => AppInv
<1> SUFFICES ASSUME AppInit PROVE AppInv
  OBVIOUS
<1>1. Init /\ ControlInv
  BY InitControl DEF AppInit
<1>2. /\ scenario \in {"udp-ping-pong", "icmp-ping"} /\ memSize \in HeapSizes
      /\ heap = [h \in Host |-> 0] /\ bound = {} /\ completion = {} /\ step = "first"
      /\ lost = FALSE
  BY DEF AppInit
<1>3. /\ main = "start" /\ answered = {} /\ todo[Bus] = <<>>
      /\ received = [i \in Port |-> <<>>]
      /\ \A x \in Executor : batch[x] = <<>> /\ queue[x] = <<>> /\ thread[x] = "new"
  BY <1>1, OrderFacts DEF Init
<1>4. AppTypeOK
  <2>1. memSize \in Nat
    BY <1>2, PeersAssumption
  <2>2. heap \in [Host -> 0 .. memSize]
    BY <1>2, <2>1
  <2>3. QED
    BY <1>2, <2>2 DEF AppTypeOK
<1>5. \A x \in Executor : Waiting(x) = <<>> /\ Unfinished(x) = <<>>
  <2>1. <<>> \o <<>> = <<>>
    OBVIOUS
  <2>2. \A x \in Executor : Accepted(x) = <<>>
    BY <1>3, <2>1 DEF Accepted
  <2>3. QED
    BY <1>3, <2>2 DEF Waiting, Unfinished
<1>6. Taken(One) = <<>> /\ Taken(Two) = <<>> /\ ByOne = 0 /\ ByTwo = 0
  <2>1. received[PortOf(One)] = <<>> /\ received[PortOf(Two)] = <<>>
    BY <1>3, PeerFacts
  <2>2. Taken(One) = <<>> /\ Taken(Two) = <<>>
    BY <2>1, FilterEmpty DEF Taken
  <2>3. QED
    BY <2>2 DEF ByOne, ByTwo
<1>7. ItemInv
  <2>1. Nowhere
    BY <1>3, <1>5 DEF Nowhere, Aloft, NoItem
  <2>2. Resting
    BY <1>2, <1>6 DEF Resting
  <2>3. QED
    BY <2>1, <2>2 DEF ItemInv
<1>8. TodoInv
  BY <1>3 DEF TodoInv
<1>9. TakenInv
  <2>1. heap[One] = 0 /\ heap[Two] = 0 /\ MaxCounter \in Nat
    BY <1>2, PeerFacts, PeersAssumption
  <2>2. QED
    BY <1>2, <1>6, <2>1 DEF TakenInv
<1>10. CallInv
  <2>1. \A h \in Host : OneByMain(Unfinished(h)) /\ NoneByMain(Unfinished(h))
    BY <1>5, OrderFacts DEF OneByMain, NoneByMain
  <2>2. QED
    BY <1>3, <2>1 DEF CallInv
<1>11. StopInv
  BY <1>3 DEF StopInv
<1>12. QED
  BY <1>1, <1>4, <1>7, <1>8, <1>9, <1>10, <1>11 DEF AppInv

(* Every step keeps it. *)
LEMMA NextApp == AppInv /\ [AppNext]_allVars => AppInv'
<1> SUFFICES ASSUME AppInv, [AppNext]_allVars PROVE AppInv'
  OBVIOUS
<1>1. ControlInv /\ AppTypeOK /\ ItemInv /\ TodoInv /\ TakenInv /\ CallInv /\ StopInv
  BY DEF AppInv
<1>2. ControlInv' /\ AppTypeOK' /\ TodoInv' /\ CallInv' /\ StopInv'
  BY <1>1, NextAppControl, NextAppTypes, NextTodo, NextCalls, NextStop
<1>3. ItemInv' /\ TakenInv'
  BY <1>1, NextItem
<1>4. QED
  BY <1>2, <1>3 DEF AppInv

(* So it holds throughout. *)
LEMMA AlwaysApp == AppSpec => []AppInv
  BY InitApp, NextApp, PTL DEF AppSpec

-----------------------------------------------------------------------------
(* What is under way.                                                      *)

(* What an item carries, or will carry. *)
Load(t) == IF t.kind = "send" THEN Datagram(t.counter) ELSE t.frame.data

(* The tasks that UnderWay looks at are known by their kind. *)
LEMMA LoadedTasks ==
    ASSUME NEW x \in Executor, NEW t \in TasksOf(x)
    PROVE  /\ "frame" \in DOMAIN t => t.kind \in {"broadcast", "input"}
           /\ "counter" \in DOMAIN t => t.kind = "send"
<1>1. CASE x = Bus
  BY <1>1 DEF TasksOf, BroadcastTasks
<1>2. CASE x # Bus
  <2>1. ASSUME NEW ports, NEW u \in InputTasks(ports)
        PROVE  u.kind = "input" /\ "counter" \notin DOMAIN u
    BY DEF InputTasks
  <2>2. ASSUME NEW u \in [kind : {"set_up"}, by : Caller \cup {NoOne}]
        PROVE  "frame" \notin DOMAIN u /\ "counter" \notin DOMAIN u
    OBVIOUS
  <2>3. "frame" \notin DOMAIN UserTask /\ "counter" \notin DOMAIN UserTask
    BY DEF UserTask
  <2>4. ASSUME NEW u \in [kind : {"start", "ping"}, by : {MainThread}]
        PROVE  "frame" \notin DOMAIN u /\ "counter" \notin DOMAIN u
    OBVIOUS
  <2>5. ASSUME NEW u \in [kind : {"send"}, by : {NoOne}, counter : Nat]
        PROVE  "frame" \notin DOMAIN u /\ u.kind = "send"
    OBVIOUS
  <2>6. t \in HostTasks(x)
    BY <1>2 DEF TasksOf
  <2>7. QED
    BY <2>1, <2>2, <2>3, <2>4, <2>5, <2>6 DEF HostTasks, UserTasks
<1>3. QED
  BY <1>1, <1>2

(* What is under way belongs to a task, or to the broadcast in progress. *)
LEMMA UnderWayIn ==
    ASSUME ControlInv, NEW d \in UnderWay, d # Announcement
    PROVE  \/ Aloft /\ d = Head(batch[Bus]).frame.data
           \/ \E x \in Executor : \E t \in Range(Waiting(x)) : IsItem(t) /\ d = Load(t)
<1>1. ASSUME NEW x \in Executor, NEW t \in Range(Waiting(x)) PROVE t \in TasksOf(x)
  <2>1. Waiting(x) \in Seq(TasksOf(x))
    BY WaitingType
  <2>2. QED
    BY <2>1 DEF Range
<1>2. ASSUME NEW x \in Executor, NEW t \in Range(Waiting(x)), "frame" \in DOMAIN t,
             d = t.frame.data
      PROVE  IsItem(t) /\ d = Load(t)
  <2>1. t.kind \in {"broadcast", "input"}
    BY <1>1, <1>2, LoadedTasks
  <2>2. QED
    BY <1>2, <2>1 DEF IsItem, Load
<1>3. ASSUME NEW x \in Host, NEW t \in Range(Waiting(x)), "counter" \in DOMAIN t,
             d = Datagram(t.counter)
      PROVE  IsItem(t) /\ d = Load(t) /\ x \in Executor
  <2>1. t.kind = "send" /\ x \in Executor
    BY <1>1, <1>3, LoadedTasks, OrderFacts
  <2>2. QED
    BY <1>3, <2>1 DEF IsItem, Load
<1>4. ASSUME todo[Bus] # <<>>, d = Head(batch[Bus]).frame.data PROVE Aloft
  <2>1. thread[Bus] = "busy"
    BY <1>4, OrderFacts DEF ControlInv, WorkerInv
  <2>2. batch[Bus] \in Seq(TasksOf(Bus)) /\ batch[Bus] # <<>>
    BY <2>1, OrderFacts DEF ControlInv, QueueTypes, WorkerInv, Active
  <2>3. Head(batch[Bus]).kind = "broadcast"
    BY <2>2, TaskFields
  <2>4. QED
    BY <1>4, <2>3 DEF Aloft, IsItem
<1>5. QED
  BY <1>2, <1>3, <1>4 DEF UnderWay

(* Without an item only announcements are under way. *)
LEMMA NothingUnderWay ==
    ASSUME ControlInv, Nowhere
    PROVE  UnderWay \subseteq {Announcement}
<1>1. \A x \in Executor : \A t \in Range(Waiting(x)) : ~ IsItem(t)
  BY DEF Nowhere, NoItem, Range
<1>2. QED
  BY <1>1, UnderWayIn DEF Nowhere

(* Otherwise one thing is. *)
LEMMA OneUnderWay ==
    ASSUME ControlInv, ItemInv
    PROVE  \E e : UnderWay \subseteq {Announcement, e}
<1>1. CASE Nowhere
  BY <1>1, NothingUnderWay
<1>2. ASSUME NEW x \in Executor, NEW t \in Range(Waiting(x)), At(x, t)
      PROVE  UnderWay \subseteq {Announcement, Load(t)}
  <2>1. \A u \in Range(Waiting(x)) : IsItem(u) => u = t
    BY <1>2 DEF At, OneItem, Range
  <2>2. \A y \in Executor \ {x} : \A u \in Range(Waiting(y)) : ~ IsItem(u)
    BY <1>2 DEF At, NoItem, Range
  <2>3. ~ Aloft
    BY <1>2 DEF At
  <2>4. QED
    BY <2>1, <2>2, <2>3, UnderWayIn
<1>3. CASE Flying
  <2>1. \A x \in Executor : \A t \in Range(Waiting(x)) : ~ IsItem(t)
    BY <1>3 DEF Flying, NoItem, Range
  <2>2. UnderWay \subseteq {Announcement, Head(batch[Bus]).frame.data}
    BY <2>1, UnderWayIn
  <2>3. QED
    BY <2>2
<1>4. QED
  BY <1>1, <1>2, <1>3 DEF ItemInv

-----------------------------------------------------------------------------
(* The end of the exchange.                                                *)

(* Both events are set: as many datagrams as there are have been taken. *)
LEMMA AllTaken ==
    ASSUME NEW a \in Nat, NEW b \in Nat, NEW M \in Nat \ {0}, a = b \/ a = b + 1,
           a + b <= M, 2 * a >= M, 2 * b + 1 >= M
    PROVE  /\ a + b = M
           /\ \/ b \in 1 .. b /\ 2 * b = M
              \/ a \in 1 .. a /\ 2 * a - 1 = M
           /\ \A m \in Nat : a <= m /\ b <= m => 2 * m >= M
  OBVIOUS

(* What is known when the events that stop() waits for are set. *)
LEMMA DatagramsAllTaken ==
    ASSUME ControlInv, AppTypeOK, TakenInv, scenario = "udp-ping-pong", Awaited \subseteq completion
    PROVE  /\ ByOne + ByTwo = MaxCounter
           /\ \E h \in Host : \E k \in 1 .. Len(Taken(h)) : Taken(h)[k].data = Datagram(MaxCounter)
           /\ 2 * memSize >= MaxCounter
<1>1. One \in completion /\ Two \in completion
  BY DEF Awaited
<1>2. PICK a \in Nat, b \in Nat : a = ByOne /\ b = ByTwo
  BY TakenTypes
<1>3. MaxCounter \in Nat \ {0} /\ memSize \in Nat
  BY PeersAssumption DEF AppTypeOK
<1>4. (a = b \/ a = b + 1) /\ a + b <= MaxCounter /\ 2 * a >= MaxCounter /\ 2 * b + 1 >= MaxCounter
  BY <1>1, <1>2 DEF TakenInv
<1>5. /\ a + b = MaxCounter
      /\ \/ b \in 1 .. b /\ 2 * b = MaxCounter
         \/ a \in 1 .. a /\ 2 * a - 1 = MaxCounter
      /\ \A m \in Nat : a <= m /\ b <= m => 2 * m >= MaxCounter
  BY <1>3, <1>4, AllTaken
<1>6. a <= memSize /\ b <= memSize
  <2>1. PICK c \in Nat, d \in Nat : /\ c = heap[One] /\ d = heap[Two]
                                    /\ c <= memSize /\ d <= memSize
    <3>1. heap[One] \in 0 .. memSize /\ heap[Two] \in 0 .. memSize
      BY PeerFacts DEF AppTypeOK
    <3>2. QED
      BY <1>3, <3>1
  <2>2. a <= d /\ b <= c
    BY <1>2, <2>1 DEF TakenInv
  <2>3. QED
    BY <1>3, <2>1, <2>2
<1>7. \E h \in Host : \E k \in 1 .. Len(Taken(h)) : Taken(h)[k].data = Datagram(MaxCounter)
  <2>1. /\ \A k \in 1 .. a : Taken(One)[k].data = Datagram(2 * k - 1)
        /\ \A k \in 1 .. b : Taken(Two)[k].data = Datagram(2 * k)
    BY <1>2 DEF TakenInv
  <2>2. a = Len(Taken(One)) /\ b = Len(Taken(Two)) /\ One \in Host /\ Two \in Host
    BY <1>2, PeerFacts DEF ByOne, ByTwo
  <2>3. CASE b \in 1 .. b /\ 2 * b = MaxCounter
    <3>1. Taken(Two)[b].data = Datagram(2 * b)
      BY <2>1, <2>3, Zenon
    <3>2. b \in 1 .. Len(Taken(Two)) /\ Taken(Two)[b].data = Datagram(MaxCounter)
      BY <2>2, <2>3, <3>1, Zenon
    <3>3. QED
      BY <2>2, <3>2, Zenon
  <2>4. CASE a \in 1 .. a /\ 2 * a - 1 = MaxCounter
    <3>1. Taken(One)[a].data = Datagram(2 * a - 1)
      BY <2>1, <2>4, Zenon
    <3>2. a \in 1 .. Len(Taken(One)) /\ Taken(One)[a].data = Datagram(MaxCounter)
      BY <2>2, <2>4, <3>1, Zenon
    <3>3. QED
      BY <2>2, <3>2, Zenon
  <2>5. QED
    BY <1>5, <2>3, <2>4, Zenon
<1>8. 2 * memSize >= MaxCounter
  BY <1>3, <1>5, <1>6
<1>9. QED
  BY <1>2, <1>5, <1>7, <1>8

(* With the events set there is no item. *)
LEMMA EndRests ==
    ASSUME ControlInv, AppTypeOK, ItemInv, TakenInv, step = "wait", Awaited \subseteq completion
    PROVE  Nowhere /\ Resting
<1>1. ASSUME NEW x, NEW t PROVE ~ Stage(x, t)
  <2>1. CASE scenario = "icmp-ping"
    <3>1. One \in completion
      BY <2>1 DEF Awaited
    <3>2. QED
      BY <2>1, <3>1 DEF Stage, Starting, Exchanging, Pinging
  <2>2. CASE scenario = "udp-ping-pong"
    <3>1. PICK a \in Nat, b \in Nat : a = ByOne /\ b = ByTwo
      BY TakenTypes
    <3>2. a + b = MaxCounter
      BY <2>2, <3>1, DatagramsAllTaken
    <3>3. ~ (a + b + 1 <= MaxCounter)
      BY <3>2
    <3>4. ~ (Counter <= MaxCounter)
      BY <3>1, <3>3, Zenon DEF Counter
    <3>5. QED
      BY <2>2, <3>4 DEF Stage, Starting, Exchanging, Pinging
  <2>3. QED
    BY <2>1, <2>2 DEF AppTypeOK
<1>2. QED
  BY <1>1 DEF ItemInv

-----------------------------------------------------------------------------
(* The theorems.                                                           *)

(***************************************************************************)
(* Type correctness of the examples: whatever is sent, the heap of a       *)
(* library holds no more datagrams than it has room for.                   *)
(***************************************************************************)
THEOREM AppTypeCorrectness == AppSpec => []AppTypeOK
<1>1. AppInv => AppTypeOK
  BY DEF AppInv
<1>2. QED
  BY <1>1, AlwaysApp, PTL

(***************************************************************************)
(* The datagrams of _send_ping and _receive_data take turns, for any       *)
(* number of them and however the four threads interleave: at most one is  *)
(* under way, and each peer takes the other's in order and once.           *)
(***************************************************************************)
THEOREM ExchangeTakesTurns == AppSpec => []DatagramsTakeTurns
<1>1. AppInv => DatagramsTakeTurns
  <2> SUFFICES ASSUME AppInv PROVE DatagramsTakeTurns
    OBVIOUS
  <2> DEFINE S == {d \in UnderWay : d[1] = "udp"}
  <2>1. PICK e : UnderWay \subseteq {Announcement, e}
    BY OneUnderWay DEF AppInv
  <2>2. S \subseteq {e}
    BY <2>1, PayloadFacts
  <2> HIDE DEF S
  <2>3. IsFiniteSet({e}) /\ Cardinality({e}) = 1
    BY FS_Singleton
  <2>4. /\ Cardinality(S) <= Cardinality({e})
    BY <2>2, <2>3, FS_Subset
  <2>5. Cardinality(S) <= 1
    BY <2>3, <2>4
  <2>6. /\ \A k \in 1 .. Len(Taken(One)) : Taken(One)[k].data = Datagram(2 * k - 1)
        /\ \A k \in 1 .. Len(Taken(Two)) : Taken(Two)[k].data = Datagram(2 * k)
    BY DEF AppInv, TakenInv, ByOne, ByTwo
  <2>7. QED
    BY <2>5, <2>6 DEF DatagramsTakeTurns, S
<1>2. QED
  BY <1>1, AlwaysApp, PTL

(***************************************************************************)
(* stop() comes after the exchange, also with the events being set one     *)
(* datagram early: when _run_example calls it, nothing that it could drop  *)
(* is under way and the last datagram, or the answer to the ping, has      *)
(* arrived.                                                                *)
(***************************************************************************)
THEOREM StopComesLast == AppSpec => []StopFollowsExchange
<1>1. AppInv => StopFollowsExchange
  <2> SUFFICES ASSUME AppInv, main \in {"stop", "join", "done"}
               PROVE  /\ UnderWay \subseteq {Announcement}
                      /\ \E i \in Port : \E f \in Range(received[i]) :
                             f.data = IF scenario = "icmp-ping" THEN EchoReply
                                                                ELSE Datagram(MaxCounter)
    BY DEF StopFollowsExchange
  <2>1. /\ ControlInv /\ AppTypeOK /\ ItemInv /\ TakenInv
        /\ step = "wait" /\ Awaited \subseteq completion
    BY DEF AppInv, StopInv
  <2>2. Nowhere /\ Resting
    BY <2>1, EndRests
  <2>3. UnderWay \subseteq {Announcement}
    BY <2>1, <2>2, NothingUnderWay
  <2>4. CASE scenario = "icmp-ping"
    <3>1. Replied
      BY <2>1, <2>2, <2>4 DEF Resting, Awaited
    <3>2. \E f \in Range(received[PortOf(One)]) : f.data = EchoReply
      BY <3>1 DEF Replied, Range
    <3>3. QED
      BY <2>3, <2>4, <3>2, PeerFacts
  <2>5. CASE scenario = "udp-ping-pong"
    <3>1. PICK h \in Host : \E k \in 1 .. Len(Taken(h)) : Taken(h)[k].data = Datagram(MaxCounter)
      BY <2>1, <2>5, DatagramsAllTaken
    <3>2. PICK k \in 1 .. Len(Taken(h)) : Taken(h)[k].data = Datagram(MaxCounter)
      BY <3>1
    <3>3. /\ received[PortOf(h)] \in Seq(Frames) /\ Taken(h) \in Seq(Frames)
      BY <2>1, TakenTypes
    <3>4. Taken(h)[k] \in Range(Taken(h))
      BY <3>3 DEF Range
    <3>5. Range(Taken(h)) \subseteq Range(received[PortOf(h)])
      BY <3>3, FilterType DEF Taken
    <3>6. QED
      BY <2>3, <2>5, <3>2, <3>4, <3>5, PeerFacts
  <2>6. QED
    BY <2>1, <2>4, <2>5 DEF AppTypeOK
<1>2. QED
  BY <1>1, AlwaysApp, PTL

(***************************************************************************)
(* send_to frees no buffer, so stop() is reached only if the heap of a     *)
(* library holds half of the datagrams: no interleaving gets around it.    *)
(***************************************************************************)
THEOREM LeakBlocksStop == AppSpec => []LeakStopsExchange
<1>1. AppInv => LeakStopsExchange
  <2> SUFFICES ASSUME AppInv, main = "stop" PROVE HeapSuffices
    BY DEF LeakStopsExchange
  <2>1. ControlInv /\ AppTypeOK /\ TakenInv /\ Awaited \subseteq completion
    BY DEF AppInv, StopInv
  <2>2. scenario = "udp-ping-pong" => 2 * memSize >= MaxCounter
    BY <2>1, DatagramsAllTaken
  <2>3. QED
    BY <2>1, <2>2 DEF HeapSuffices, AppTypeOK
<1>2. QED
  BY <1>1, AlwaysApp, PTL
=============================================================================
