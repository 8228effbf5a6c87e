----------------------- MODULE NetworkDelivery_proofs -----------------------
(***************************************************************************)
(* Theorems about what the bus delivers: every interface receives what the *)
(* observers saw forwarded, in that order and once, and all of it as long  *)
(* as no callback raised Stopped.                                          *)
(*                                                                         *)
(* That nothing is received twice rests on the frames being different,     *)
(* which rests on the way they are numbered: the frames of an interface,   *)
(* those the bus has handled and then those that wait, count up from 1.    *)
(***************************************************************************)
EXTENDS EthernetNetwork_proofs

(* The frames of some log entries or tasks. *)
FramesOf(s) == [n \in 1 .. Len(s) |-> s[n].frame]

(* The frames of interface i that the bus has handled, and that wait for it. *)
Handled(i) == Filter(log, Entries({i}, BOOLEAN))
Pending(i) == Filter(Waiting(Bus), BroadcastTasks({i}))

(* The inputs that wait for interface i. *)
Inputs(i) == Filter(Waiting(HostOf[i]), InputTasks({i}))

(* Entries or tasks that carry the numbers after n. *)
CountsFrom(n, s) == \A k \in DOMAIN s : s[k].frame.nr = n + k

(* The frames of interface i are numbered in the order of their sending. *)
Numbered(i) ==
    /\ CountsFrom(0, Handled(i))
    /\ CountsFrom(Len(Handled(i)), Pending(i))

(* What interface i has received or will receive. *)
Joined(p, s) == p \o s
Got(i) == Joined(received[i], WaitingFor(i))

(* got is some of sent, in the order of sent. *)
InOrder(got, sent) ==
    /\ \A n \in DOMAIN got : \E m \in DOMAIN sent : sent[m] = got[n]
    /\ \A n, m \in DOMAIN got, k, l \in DOMAIN sent :
           n < m /\ sent[k] = got[n] /\ sent[l] = got[m] => k < l

(* And f, which is still to come, is the end of sent. *)
ComesLast(f, got, sent) ==
    /\ sent # <<>> /\ sent[Len(sent)] = f
    /\ \A n \in DOMAIN got : got[n] # f

(* The frame that the bus is handing out. *)
Current == Head(batch[Bus]).frame

Delivery(i) ==
    /\ IsInjective(ForwardedTo(i))
    /\ InOrder(Got(i), ForwardedTo(i))
    /\ i \in Range(todo[Bus]) => ComesLast(Current, Got(i), ForwardedTo(i))
    /\ aborted = {} => Joined(Got(i), Underway(i)) = ForwardedTo(i)

DeliveryInv ==
    /\ IsInjective(todo[Bus])
    /\ \A i \in Port : Numbered(i)
    /\ \A i \in Port : Delivery(i)

-----------------------------------------------------------------------------
(* Facts about sequences.                                                  *)

(* What Filter selects when an element is added, or the first removed. *)
LEMMA FilterAdds ==
    ASSUME NEW T, NEW s \in Seq(T), NEW e \in T, NEW S, NEW r, Adds(s, e, r)
    PROVE  /\ e \in S => Adds(Filter(s, S), e, Filter(r, S))
           /\ e \notin S => Filter(r, S) = Filter(s, S)
<1>1. r = Append(s, e)
  BY DEF Adds
<1>2. QED
  BY <1>1, FilterAppend DEF Adds

(* The first element goes: if it was selected, it was selected first. *)
LEMMA FilterDrops ==
    ASSUME NEW T, NEW s \in Seq(T), s # <<>>, NEW S
    PROVE  /\ Head(s) \in S => /\ Filter(s, S) # <<>>
                               /\ Head(Filter(s, S)) = Head(s)
                               /\ Tail(Filter(s, S)) = Filter(Tail(s), S)
           /\ Head(s) \notin S => Filter(Tail(s), S) = Filter(s, S)
<1>1. Tail(s) \in Seq(T) /\ Head(s) \in T
  OBVIOUS
<1>2. Filter(Tail(s), S) \in Seq(T)
  BY <1>1, FilterType
<1>3. \A f \in Seq(T), e \in T :
          <<e>> \o f # <<>> /\ Head(<<e>> \o f) = e /\ Tail(<<e>> \o f) = f
  OBVIOUS
<1>4. Filter(s, S) = IF Head(s) \in S THEN <<Head(s)>> \o Filter(Tail(s), S)
                                       ELSE Filter(Tail(s), S)
  BY FilterTail
<1>5. QED
  BY <1>1, <1>2, <1>3, <1>4

(* A task that is added brings its frame. *)
LEMMA FramesOfAdds ==
    ASSUME NEW T, NEW s \in Seq(T), NEW e \in T, NEW r, Adds(s, e, r),
           \A t \in T : t.frame \in Frames
    PROVE  /\ FramesOf(s) \in Seq(Frames)
           /\ Adds(FramesOf(s), e.frame, FramesOf(r))
<1>1. r = Append(s, e)
  BY DEF Adds
<1>2. FramesOf(s) \in Seq(Frames) /\ e.frame \in Frames
  BY DEF FramesOf
<1>3. FramesOf(Append(s, e)) = Append(FramesOf(s), e.frame)
  BY DEF FramesOf
<1>4. QED
  BY <1>1, <1>2, <1>3 DEF Adds

(* A task that is done takes its frame away. *)
LEMMA FramesOfTail ==
    ASSUME NEW T, NEW s \in Seq(T), s # <<>>, \A t \in T : t.frame \in Frames
    PROVE  /\ FramesOf(s) \in Seq(Frames) /\ FramesOf(s) # <<>>
           /\ Head(FramesOf(s)) = Head(s).frame
           /\ FramesOf(Tail(s)) = Tail(FramesOf(s))
<1>1. FramesOf(s) \in Seq(Frames) /\ Len(FramesOf(s)) = Len(s)
  BY DEF FramesOf
<1>2. Head(FramesOf(s)) = Head(s).frame /\ FramesOf(s) # <<>>
  BY <1>1 DEF FramesOf
<1>3. FramesOf(Tail(s)) = Tail(FramesOf(s))
  BY DEF FramesOf
<1>4. QED
  BY <1>1, <1>2, <1>3

(* The first of what waits becomes the last of what was received. *)
LEMMA JoinedTake ==
    ASSUME NEW T, NEW p \in Seq(T), NEW s \in Seq(T), s # <<>>, NEW r, Adds(p, Head(s), r)
    PROVE  Joined(r, Tail(s)) = Joined(p, s)
<1>1. Append(p, Head(s)) \o Tail(s) = p \o s
  OBVIOUS
<1>2. QED
  BY <1>1 DEF Joined, Adds

(* What is added to the second part is added to the whole. *)
LEMMA JoinedFacts ==
    ASSUME NEW T, NEW p \in Seq(T), NEW s \in Seq(T)
    PROVE  /\ Joined(p, s) \in Seq(T)
           /\ \A f \in T : \A r : Adds(s, f, r) => Adds(Joined(p, s), f, Joined(p, r))
           /\ \A f \in T : Adds(s, f, Joined(s, <<f>>))
           /\ Joined(s, <<>>) = s
<1>1. Joined(p, s) \in Seq(T) /\ Joined(s, <<>>) = s
  BY DEF Joined
<1>2. ASSUME NEW f \in T PROVE /\ p \o Append(s, f) = Append(p \o s, f)
                               /\ s \o <<f>> = Append(s, f)
  OBVIOUS
<1>3. QED
  BY <1>1, <1>2 DEF Joined, Adds

(* What it means that an element was added. *)
LEMMA AddsFacts ==
    ASSUME NEW T, NEW s \in Seq(T), NEW e \in T, NEW r, Adds(s, e, r)
    PROVE  /\ r \in Seq(T) /\ r # <<>> /\ Len(r) = Len(s) + 1
           /\ Len(s) \in Nat /\ DOMAIN s = 1 .. Len(s) /\ DOMAIN r = 1 .. Len(s) + 1
           /\ r[Len(s) + 1] = e /\ \A n \in 1 .. Len(s) : r[n] = s[n]
<1> DEFINE a == Append(s, e)
<1>1. /\ a \in Seq(T) /\ a # <<>> /\ Len(a) = Len(s) + 1
      /\ Len(s) \in Nat /\ DOMAIN s = 1 .. Len(s) /\ DOMAIN a = 1 .. Len(s) + 1
      /\ a[Len(s) + 1] = e /\ \A n \in 1 .. Len(s) : a[n] = s[n]
  OBVIOUS
<1>2. r = a
  BY DEF Adds
<1> HIDE DEF a
<1>3. QED
  BY <1>1, <1>2

(* The bus forwards a frame that it has not forwarded before. *)
LEMMA OrderGrows ==
    ASSUME NEW T, NEW got \in Seq(T), NEW sent \in Seq(T), NEW f \in T,
           NEW more, Adds(sent, f, more),
           IsInjective(sent), InOrder(got, sent), \A m \in DOMAIN sent : sent[m] # f
    PROVE  IsInjective(more) /\ InOrder(got, more) /\ ComesLast(f, got, more)
<1> DEFINE L == Len(sent)
<1>1. /\ more # <<>> /\ Len(more) = L + 1 /\ more \in Seq(T)
      /\ L \in Nat /\ DOMAIN sent = 1 .. L /\ DOMAIN more = 1 .. L + 1
      /\ more[L + 1] = f /\ \A n \in 1 .. L : more[n] = sent[n]
  BY AddsFacts
<1> HIDE DEF L
<1>2. \A n \in 1 .. L + 1 : n \in 1 .. L \/ n = L + 1
  BY <1>1
<1>3. \A j, k \in 1 .. L : sent[j] = sent[k] => j = k
  BY <1>1 DEF IsInjective
<1>4. \A n \in DOMAIN got : got[n] # f
  BY DEF InOrder
<1>5. \A j, k \in 1 .. L + 1 : more[j] = more[k] => j = k
  BY <1>1, <1>2, <1>3
<1>6. IsInjective(more)
  BY <1>1, <1>5 DEF IsInjective
<1>7. \A n \in DOMAIN got : \A m \in DOMAIN more : more[m] = got[n] =>
          m \in DOMAIN sent /\ sent[m] = got[n]
  BY <1>1, <1>2, <1>4
<1>8. \A n \in DOMAIN got : \E m \in DOMAIN more : more[m] = got[n]
  BY <1>1, <1>2 DEF InOrder
<1>9. InOrder(got, more)
  BY <1>7, <1>8 DEF InOrder
<1>10. QED
  BY <1>1, <1>4, <1>6, <1>9 DEF ComesLast

(* The frame that comes last is handed over. *)
LEMMA OrderDelivers ==
    ASSUME NEW T, NEW got \in Seq(T), NEW sent \in Seq(T), NEW f \in T,
           NEW more, Adds(got, f, more),
           IsInjective(sent), InOrder(got, sent), ComesLast(f, got, sent)
    PROVE  InOrder(more, sent)
<1> DEFINE L == Len(sent)
           G == Len(got)
<1>1. /\ G \in Nat /\ DOMAIN got = 1 .. G /\ DOMAIN more = 1 .. G + 1
      /\ more[G + 1] = f /\ \A n \in 1 .. G : more[n] = got[n]
  BY AddsFacts
<1>2. L \in Nat \ {0} /\ DOMAIN sent = 1 .. L /\ sent[L] = f
  BY DEF ComesLast
<1>3. \A j, k \in 1 .. L : sent[j] = sent[k] => j = k
  BY <1>2 DEF IsInjective
<1> HIDE DEF L, G
<1>4. \A n \in 1 .. G + 1 : n \in 1 .. G \/ n = G + 1
  BY <1>1
<1>5. \A n \in 1 .. G : got[n] # f /\ \E m \in 1 .. L : sent[m] = got[n]
  BY <1>1, <1>2 DEF InOrder, ComesLast
<1>6. \A n \in 1 .. G + 1 : \E m \in 1 .. L : sent[m] = more[n]
  BY <1>1, <1>2, <1>4, <1>5
<1>7. ASSUME NEW n \in 1 .. G + 1, NEW m \in 1 .. G + 1, NEW k \in 1 .. L, NEW l \in 1 .. L,
             n < m, sent[k] = more[n], sent[l] = more[m]
      PROVE  k < l
  <2>1. n \in 1 .. G
    BY <1>1, <1>7
  <2>2. CASE m \in 1 .. G
    BY <1>1, <1>2, <1>7, <2>1, <2>2 DEF InOrder
  <2>3. CASE m = G + 1
    <3>1. l = L
      BY <1>1, <1>2, <1>3, <1>7, <2>3
    <3>2. k # L
      BY <1>1, <1>2, <1>5, <1>7, <2>1
    <3>3. QED
      BY <1>2, <3>1, <3>2
  <2>4. QED
    BY <1>4, <2>2, <2>3
<1>8. QED
  BY <1>1, <1>2, <1>6, <1>7 DEF InOrder

(* Numbers go on when a frame is added, and when the first one is taken. *)
LEMMA CountsFacts ==
    ASSUME NEW T, NEW s \in Seq(T), NEW n \in Nat, CountsFrom(n, s)
    PROVE  /\ \A e \in T : \A r :
                  Adds(s, e, r) /\ e.frame.nr = n + Len(s) + 1 => CountsFrom(n, r)
           /\ s # <<>> => Head(s).frame.nr = n + 1 /\ CountsFrom(n + 1, Tail(s))
<1>1. ASSUME NEW e \in T, NEW r, Adds(s, e, r), e.frame.nr = n + Len(s) + 1
      PROVE  CountsFrom(n, r)
  <2>1. /\ Len(s) \in Nat /\ DOMAIN s = 1 .. Len(s) /\ DOMAIN r = 1 .. Len(s) + 1
        /\ r[Len(s) + 1] = e /\ \A k \in 1 .. Len(s) : r[k] = s[k]
    BY <1>1, AddsFacts
  <2>2. \A k \in 1 .. Len(s) + 1 : k \in 1 .. Len(s) \/ k = Len(s) + 1
    BY <2>1
  <2>3. QED
    BY <1>1, <2>1, <2>2 DEF CountsFrom
<1>2. ASSUME s # <<>> PROVE Head(s).frame.nr = n + 1 /\ CountsFrom(n + 1, Tail(s))
  <2> DEFINE r == Tail(s)
  <2>1. /\ DOMAIN s = 1 .. Len(s) /\ DOMAIN r = 1 .. Len(s) - 1 /\ Len(s) \in Nat \ {0}
        /\ \A k \in 1 .. Len(s) - 1 : r[k] = s[k + 1]
        /\ Head(s) = s[1]
    BY <1>2
  <2> HIDE DEF r
  <2>2. \A k \in 1 .. Len(s) - 1 : k + 1 \in 1 .. Len(s) /\ n + (k + 1) = (n + 1) + k
    BY <2>1
  <2>3. CountsFrom(n + 1, r)
    BY <2>1, <2>2 DEF CountsFrom
  <2>4. Head(s).frame.nr = n + 1
    BY <2>1 DEF CountsFrom
  <2>5. QED
    BY <2>3, <2>4 DEF r
<1>3. QED
  BY <1>1, <1>2

-----------------------------------------------------------------------------
(* Which tasks and entries are selected.                                   *)

(* The inputs among the tasks of a host, and the interface each is for. *)
LEMMA SelectedTasks ==
    /\ \A i \in Port : InputTasks({i}) \subseteq InputTasks(Port)
    /\ \A t \in InputTasks(Port), i \in Port : t \in InputTasks({i}) <=> t.on = i
    /\ \A h \in Host : \A t \in TasksOf(h) :
           /\ t \in InputTasks(Port) <=> t.kind = "input"
           /\ t.kind = "input" => HostOf[t.on] = h
    /\ \A t \in InputTasks(Port) : t.frame \in Frames /\ t.on \in Port /\ t.kind = "input"
    /\ \A i \in Port, f \in Frames : InputTask(i, f) \in InputTasks(Port)
                                     /\ InputTask(i, f).on = i /\ InputTask(i, f).frame = f
<1>1. \A t \in InputTasks(Port) : t.frame \in Frames /\ t.on \in Port /\ t.kind = "input"
  BY DEF InputTasks
<1>2. \A t \in InputTasks(Port), i \in Port : t \in InputTasks({i}) <=> t.on = i
  BY DEF InputTasks
<1>3. \A i \in Port : InputTasks({i}) \subseteq InputTasks(Port)
  BY DEF InputTasks
<1>4. ASSUME NEW h \in Host, NEW t \in TasksOf(h)
      PROVE  /\ t \in InputTasks(Port) <=> t.kind = "input"
             /\ t.kind = "input" => HostOf[t.on] = h
  <2>0. t.kind = "input" => HostOf[t.on] = h
    BY TaskFields
  <2>1. \A u \in [kind : {"set_up"}, by : Caller \cup {NoOne}] : u.kind # "input"
    OBVIOUS
  <2>2. \A u \in UserTasks : u.kind # "input"
    BY DEF UserTasks, UserTask
  <2>3. InputTasks({i \in Port : HostOf[i] = h}) \subseteq InputTasks(Port)
    BY DEF InputTasks
  <2>4. t.kind = "input" => t \in InputTasks({i \in Port : HostOf[i] = h})
    BY <2>1, <2>2, NetworkAssumption DEF TasksOf, HostTasks
  <2>5. QED
    BY <1>1, <2>0, <2>3, <2>4
<1>5. \A i \in Port, f \in Frames : InputTask(i, f) \in InputTasks(Port)
                                    /\ InputTask(i, f).on = i /\ InputTask(i, f).frame = f
  BY DEF InputTask, InputTasks
<1>6. QED
  BY <1>1, <1>2, <1>3, <1>4, <1>5

(* The frames that an interface sent, among broadcasts and in the log. *)
LEMMA SelectedFrames ==
    /\ \A f \in Frames : f.from \in Port /\ f.nr \in Nat
    /\ \A t \in TasksOf(Bus), i \in Port : t \in BroadcastTasks({i}) <=> t.frame.from = i
    /\ \A e \in Entries(Port, BOOLEAN) : e.frame \in Frames
    /\ \A e \in Entries(Port, BOOLEAN), i \in Port :
           /\ e \in Entries({i}, BOOLEAN) <=> e.frame.from = i
           /\ e \in Entries(Port \ {i}, {TRUE}) <=> e.forward = TRUE /\ e.frame.from # i
<1>1. \A f \in Frames : f.from \in Port /\ f.nr \in Nat
  BY DEF Frames, FramesFrom
<1>2. \A f \in Frames, i \in Port :
          /\ f \in FramesFrom({i}) <=> f.from = i
          /\ f \in FramesFrom(Port \ {i}) <=> f.from # i
  BY DEF Frames, FramesFrom
<1>3. \A t \in BroadcastTasks(Port), i \in Port :
          t \in BroadcastTasks({i}) <=> t.frame \in FramesFrom({i})
  BY DEF BroadcastTasks
<1>4. \A t \in BroadcastTasks(Port) : t.frame \in Frames
  BY DEF BroadcastTasks, Frames
<1>5. \A e \in Entries(Port, BOOLEAN) : e.frame \in Frames
  BY DEF Entries, Frames
<1>6. \A e \in Entries(Port, BOOLEAN), i \in Port :
          /\ e \in Entries({i}, BOOLEAN) <=> e.frame \in FramesFrom({i})
          /\ e \in Entries(Port \ {i}, {TRUE})
                 <=> e.forward = TRUE /\ e.frame \in FramesFrom(Port \ {i})
  BY DEF Entries
<1>7. TasksOf(Bus) = BroadcastTasks(Port)
  BY DEF TasksOf
<1>8. ASSUME NEW t \in TasksOf(Bus), NEW i \in Port
      PROVE  t \in BroadcastTasks({i}) <=> t.frame.from = i
  <2>1. t \in BroadcastTasks(Port)
    BY <1>7
  <2>2. t.frame \in Frames /\ (t \in BroadcastTasks({i}) <=> t.frame \in FramesFrom({i}))
    BY <1>3, <1>4, <2>1, Zenon
  <2>3. t.frame \in FramesFrom({i}) <=> t.frame.from = i
    BY <1>2, <2>2, Zenon
  <2>4. QED
    BY <2>2, <2>3
<1>9. \A e \in Entries(Port, BOOLEAN), i \in Port :
          /\ e \in Entries({i}, BOOLEAN) <=> e.frame.from = i
          /\ e \in Entries(Port \ {i}, {TRUE}) <=> e.forward = TRUE /\ e.frame.from # i
  BY <1>2, <1>5, <1>6
<1>10. QED
  BY <1>1, <1>5, <1>8, <1>9, Zenon

(* The sequences have their types. *)
LEMMA DeliveryTypes ==
    ASSUME ControlInv, NEW i \in Port
    PROVE  /\ HostOf[i] \in Host /\ HostOf[i] \in Executor /\ HostOf[i] # Bus
           /\ Waiting(HostOf[i]) \in Seq(TasksOf(HostOf[i]))
           /\ Inputs(i) \in Seq(InputTasks(Port))
           /\ WaitingFor(i) = FramesOf(Inputs(i)) /\ WaitingFor(i) \in Seq(Frames)
           /\ received[i] \in Seq(Frames) /\ Got(i) \in Seq(Frames)
           /\ ForwardedTo(i) \in Seq(Frames)
           /\ Handled(i) \in Seq(Entries(Port, BOOLEAN))
           /\ Pending(i) \in Seq(TasksOf(Bus))
<1>1. HostOf[i] \in Host /\ HostOf[i] \in Executor /\ HostOf[i] # Bus
  BY NetworkAssumption, OrderFacts
<1>2. Waiting(HostOf[i]) \in Seq(TasksOf(HostOf[i])) /\ Waiting(Bus) \in Seq(TasksOf(Bus))
  BY <1>1, WaitingType, OrderFacts
<1>3. log \in Seq(Entries(Port, BOOLEAN)) /\ received[i] \in Seq(Frames)
  BY DEF ControlInv, EnvTypes
<1>4. /\ Inputs(i) \in Seq(TasksOf(HostOf[i]))
      /\ Range(Inputs(i)) = Range(Waiting(HostOf[i])) \cap InputTasks({i})
  BY <1>2, FilterType DEF Inputs
<1>5. ASSUME NEW T, NEW s \in Seq(T), NEW S, Range(s) \subseteq S PROVE s \in Seq(S)
  <2>1. s \in [1 .. Len(s) -> S] /\ Len(s) \in Nat
    BY <1>5 DEF Range
  <2>2. QED
    BY <2>1
<1>6. Inputs(i) \in Seq(InputTasks(Port))
  BY <1>4, <1>5, SelectedTasks
<1>7. ASSUME NEW T, NEW s \in Seq(T), \A t \in T : t.frame \in Frames
      PROVE  FramesOf(s) \in Seq(Frames)
  BY <1>7 DEF FramesOf
<1>8. WaitingFor(i) = FramesOf(Inputs(i))
  BY DEF WaitingFor, FramesOf, Inputs
<1>9. WaitingFor(i) \in Seq(Frames)
  BY <1>6, <1>7, <1>8, SelectedTasks
<1>10. Got(i) \in Seq(Frames)
  BY <1>3, <1>9, JoinedFacts DEF Got
<1>11. ForwardedTo(i) = FramesOf(Filter(log, Entries(Port \ {i}, {TRUE})))
  BY DEF ForwardedTo, FramesOf
<1>12. /\ Filter(log, Entries(Port \ {i}, {TRUE})) \in Seq(Entries(Port, BOOLEAN))
       /\ Handled(i) \in Seq(Entries(Port, BOOLEAN))
       /\ Pending(i) \in Seq(TasksOf(Bus))
  BY <1>2, <1>3, FilterType DEF Handled, Pending
<1>13. ForwardedTo(i) \in Seq(Frames)
  BY <1>7, <1>11, <1>12, SelectedFrames
<1>14. QED
  BY <1>1, <1>2, <1>3, <1>6, <1>8, <1>9, <1>10, <1>12, <1>13

-----------------------------------------------------------------------------
(* What the steps do to the sequences.                                     *)

(* A host begins a task that is no input of i, or gets another task. *)
LEMMA InputsKept ==
    ASSUME ControlInv, NEW i \in Port, UNCHANGED batch, NEW h, h = HostOf[i], Calm(h),
           NEW t, t \notin InputTasks({i}),
           \/ queue'[h] = queue[h]
           \/ t \in TasksOf(h) /\ Adds(queue[h], t, queue'[h]),
           Begins(h) => Head(batch[h]) \notin InputTasks({i})
    PROVE  Inputs(i)' = Inputs(i)
<1> DEFINE T == TasksOf(h)
           S == InputTasks({i})
           w == IF Begins(h) THEN Tail(Waiting(h)) ELSE Waiting(h)
<1>1. h \in Executor /\ Waiting(h) \in Seq(T)
  BY DeliveryTypes
<1>2. /\ Begins(h) => Waiting(h) # <<>> /\ Head(Waiting(h)) = Head(batch[h])
      /\ IF queue'[h] = queue[h] THEN Waiting(h)' = w ELSE Adds(w, t, Waiting(h)')
  BY <1>1, QueueEffect
<1>3. w \in Seq(T) /\ Filter(w, S) = Filter(Waiting(h), S)
  <2>1. CASE Begins(h)
    BY <1>1, <1>2, <2>1, FilterDrops
  <2>2. CASE ~ Begins(h)
    BY <1>1, <2>2
  <2>3. QED
    BY <2>1, <2>2
<1> HIDE DEF w
<1>4. Filter(Waiting(h)', S) = Filter(w, S)
  <2>1. CASE queue'[h] = queue[h]
    BY <1>2, <2>1
  <2>2. CASE queue'[h] # queue[h]
    BY <1>2, <1>3, <2>2, FilterAdds
  <2>3. QED
    BY <2>1, <2>2
<1>5. QED
  BY <1>3, <1>4 DEF Inputs

(* The bus hands a frame to a host, which runs. *)
LEMMA InputsAdded ==
    ASSUME ControlInv, NEW i \in Port, UNCHANGED batch, NEW h, h = HostOf[i], Calm(h),
           ~ Begins(h), NEW f \in Frames, Adds(queue[h], InputTask(i, f), queue'[h])
    PROVE  Adds(WaitingFor(i), f, WaitingFor(i)')
<1> DEFINE T == TasksOf(h)
           S == InputTasks({i})
           t == InputTask(i, f)
<1>1. h \in Executor /\ Waiting(h) \in Seq(T) /\ queue[h] \in Seq(T) /\ t \in T
  BY DeliveryTypes, TaskTypes DEF ControlInv, QueueTypes
<1>2. queue'[h] # queue[h]
  <2>0. Adds(queue[h], t, queue'[h])
    OBVIOUS
  <2> HIDE DEF t, T
  <2>1. Len(queue'[h]) = Len(queue[h]) + 1 /\ Len(queue[h]) \in Nat
    BY <1>1, <2>0, AddsFacts
  <2>2. QED
    BY <2>1
<1>3. Adds(Waiting(h), t, Waiting(h)')
  BY <1>1, <1>2, QueueEffect
<1>4. t \in S /\ t.frame = f /\ t \in InputTasks(Port)
  BY SelectedTasks
<1>5. Adds(Inputs(i), t, Inputs(i)')
  BY <1>1, <1>3, <1>4, FilterAdds DEF Inputs
<1>6. Inputs(i) \in Seq(InputTasks(Port)) /\ WaitingFor(i) = FramesOf(Inputs(i))
  BY DeliveryTypes
<1>7. WaitingFor(i)' = FramesOf(Inputs(i)')
  BY DEF WaitingFor, FramesOf, Inputs
<1>8. Adds(FramesOf(Inputs(i)), t.frame, FramesOf(Inputs(i)'))
  BY <1>4, <1>5, <1>6, FramesOfAdds, SelectedTasks
<1>9. QED
  BY <1>4, <1>6, <1>7, <1>8

(* A host begins with an input for i. *)
LEMMA InputsTaken ==
    ASSUME ControlInv, NEW i \in Port, UNCHANGED batch, NEW h, h = HostOf[i], Calm(h),
           Begins(h), queue'[h] = queue[h], Head(batch[h]) \in InputTasks({i})
    PROVE  /\ WaitingFor(i) # <<>> /\ Head(WaitingFor(i)) = Head(batch[h]).frame
           /\ WaitingFor(i)' = Tail(WaitingFor(i))
<1> DEFINE T == TasksOf(h)
           S == InputTasks({i})
<1>1. h \in Executor /\ Waiting(h) \in Seq(T)
  BY DeliveryTypes
<1>2. /\ Waiting(h) # <<>> /\ Head(Waiting(h)) = Head(batch[h])
      /\ Waiting(h)' = Tail(Waiting(h))
  BY <1>1, QueueEffect
<1>3. /\ Inputs(i) # <<>> /\ Head(Inputs(i)) = Head(batch[h])
      /\ Inputs(i)' = Tail(Inputs(i))
  BY <1>1, <1>2, FilterDrops DEF Inputs
<1>4. Inputs(i) \in Seq(InputTasks(Port)) /\ WaitingFor(i) = FramesOf(Inputs(i))
  BY DeliveryTypes
<1>5. WaitingFor(i)' = FramesOf(Inputs(i)')
  BY DEF WaitingFor, FramesOf, Inputs
<1>6. /\ FramesOf(Inputs(i)) # <<>>
      /\ Head(FramesOf(Inputs(i))) = Head(Inputs(i)).frame
      /\ FramesOf(Tail(Inputs(i))) = Tail(FramesOf(Inputs(i)))
  BY <1>3, <1>4, FramesOfTail, SelectedTasks
<1>7. QED
  BY <1>3, <1>4, <1>5, <1>6

(* Only the bus schedules inputs. *)
LEMMA NoInputScheduled ==
    ASSUME ControlInv, NEW h \in Host,
           Main \/ StartBroadcast \/ \E g \in Host : Visible(g)
    PROVE  \E t : /\ t \notin InputTasks(Port)
                  /\ \/ queue'[h] = queue[h]
                     \/ t \in TasksOf(h) /\ Adds(queue[h], t, queue'[h])
<1>0. h \in Executor /\ Bus \in Executor /\ h # Bus /\ UserTask \in TasksOf(h)
  BY OrderFacts, TaskTypes
<1>1. UserTask \notin InputTasks(Port)
  BY SelectedTasks DEF UserTask
<1>2. ASSUME UNCHANGED queue PROVE queue'[h] = queue[h]
  BY <1>2
<1>3. ASSUME NEW i, NEW data, Send(i, data) PROVE queue'[h] = queue[h]
  BY <1>0, <1>3, ScheduleCases DEF Send
<1>4. ASSUME NEW k \in Host, NEW c \in Caller \cup {NoOne}, CallSetUp(k, c)
      PROVE  \/ queue'[h] = queue[h]
             \/ /\ SetUpTask(c) \in TasksOf(h) /\ SetUpTask(c) \notin InputTasks(Port)
                /\ Adds(queue[h], SetUpTask(c), queue'[h])
  <2>1. k \in Executor
    BY OrderFacts
  <2>2. SetUpTask(c) \in TasksOf(h)
    BY TaskTypes
  <2>3. SetUpTask(c) \notin InputTasks(Port)
    BY SelectedTasks DEF SetUpTask
  <2>4. QED
    BY <1>0, <1>4, <2>1, <2>2, <2>3, ScheduleCases DEF CallSetUp
<1>5. CASE Main
  <2>1. CASE SetUp
    <3>1. Hosts[turn] \in Host /\ MainThread \in Caller
      BY <2>1, OrderFacts DEF SetUp, ControlInv, MainInv, MainTypes, Caller
    <3>2. QED
      BY <1>1, <1>4, <2>1, <3>1 DEF SetUp
  <2>2. CASE ~ SetUp
    BY <1>1, <1>2, <1>5, <2>2
       DEF Main, Start, Result, CallStop, StopExecutor, Join, execVars
  <2>3. QED
    BY <2>1, <2>2
<1>6. CASE StartBroadcast
  BY <1>1, <1>2, <1>6 DEF StartBroadcast
<1>7. ASSUME NEW g \in Host, Visible(g)
      PROVE  \E t : /\ t \notin InputTasks(Port)
                    /\ \/ queue'[h] = queue[h]
                       \/ t \in TasksOf(h) /\ Adds(queue[h], t, queue'[h])
  <2>1. CASE StartSetUp(g) \/ Resume(g)
    BY <1>1, <1>2, <2>1 DEF StartSetUp, Resume
  <2>2. CASE SetUpInterface(g)
    BY <1>1, <1>2, <1>3, <2>2 DEF SetUpInterface
  <2>3. CASE Input(g)
    BY <1>1, <1>2, <1>3, <2>3 DEF Input, MaySend
  <2>4. CASE UserAction(g)
    BY <1>1, <1>2, <1>3, <1>4, <2>4 DEF UserAction, Caller
  <2>5. CASE Execute(g)
    BY <1>0, <1>1, <2>5, ScheduleCases, OrderFacts DEF Execute
  <2>6. QED
    BY <1>7, <2>1, <2>2, <2>3, <2>4, <2>5 DEF Visible
<1>8. QED
  BY <1>5, <1>6, <1>7

(* Nothing of what concerns interface i moves. *)
Unmoved(i) ==
    /\ Got(i)' = Got(i)
    /\ UNCHANGED <<log, aborted>>
    /\ todo'[Bus] = todo[Bus]
    /\ todo[Bus] # <<>> => batch'[Bus] = batch[Bus]

(* A step that moves nothing of what goes to an interface. *)
LEMMA UnmovedDelivery ==
    ASSUME NEW i, Delivery(i), Unmoved(i)
    PROVE  Delivery(i)'
<1>1. ForwardedTo(i)' = ForwardedTo(i)
  BY DEF Unmoved, ForwardedTo
<1>2. i \in Range(todo[Bus]) => todo[Bus] # <<>>
  BY DEF Range
<1>3. Underway(i)' = Underway(i)
  BY <1>2 DEF Unmoved, Underway
<1>4. i \in Range(todo[Bus]) => Current' = Current
  BY <1>2 DEF Unmoved, Current
<1>5. Got(i)' = Got(i) /\ todo'[Bus] = todo[Bus] /\ aborted' = aborted
  BY DEF Unmoved
<1>6. QED
  BY <1>1, <1>3, <1>4, <1>5 DEF Delivery

(* The loop of an executor moves tasks from queue to batch, but none away. *)
LEMMA LoopUnmoved ==
    ASSUME ControlInv, NEW x \in Executor, Loop(x), NEW i \in Port
    PROVE  Unmoved(i)
<1>0. HostOf[i] \in Executor /\ Bus \in Executor
  BY DeliveryTypes, OrderFacts
<1>1. Waiting(HostOf[i])' = Waiting(HostOf[i])
  BY <1>0, LoopEffect
<1>2. UNCHANGED <<envVars, histVars, todo>>
  BY DEF Loop, Run, LeaveLoop, PopExpired, EndBatch, EndTask, Finally
<1>3. Got(i)' = Got(i)
  BY <1>1, <1>2 DEF Got, WaitingFor, envVars
<1>4. ASSUME todo[Bus] # <<>> PROVE batch'[Bus] = batch[Bus]
  <2>1. thread[Bus] = "busy"
    BY <1>0, <1>4 DEF ControlInv, WorkerInv
  <2>2. QED
    BY <1>0, <1>4, <2>1
       DEF Loop, Run, LeaveLoop, PopExpired, EndBatch, EndTask, Finally, ControlInv,
           QueueTypes
<1>5. QED
  BY <1>2, <1>3, <1>4 DEF Unmoved, envVars, histVars

(* The main thread and the tasks of the hosts. *)
LEMMA OthersUnmoved ==
    ASSUME ControlInv, Main \/ \E g \in Host : Visible(g), NEW i \in Port
    PROVE  Unmoved(i)
<1>0. PICK h \in Host : h = HostOf[i] /\ h \in Executor /\ h # Bus /\ Bus \in Executor
  BY DeliveryTypes, OrderFacts
<1>1. UNCHANGED batch /\ Calm(h)
  BY <1>0, VisibleIsCalm
<1>2. PICK t : /\ t \notin InputTasks(Port)
               /\ \/ queue'[h] = queue[h]
                  \/ t \in TasksOf(h) /\ Adds(queue[h], t, queue'[h])
  BY NoInputScheduled
<1>3. t \notin InputTasks({i})
  BY <1>2, SelectedTasks
<1>4. UNCHANGED <<log, aborted>> /\ todo'[Bus] = todo[Bus]
  <2>1. CASE Main
    BY <2>1 DEF Main, Start, SetUp, Result, CallStop, StopExecutor, Join, envVars, histVars,
                execVars
  <2>2. ASSUME NEW g \in Host, Visible(g)
        PROVE  UNCHANGED <<log, aborted>> /\ todo'[Bus] = todo[Bus]
    <3>1. g # Bus
      BY OrderFacts
    <3>2. QED
      BY <1>0, <2>2, <3>1
         DEF Visible, StartSetUp, SetUpInterface, Input, InputData, UserAction, Resume,
             Execute, envVars, histVars, ControlInv, WorkerTypes
  <2>3. QED
    BY <2>1, <2>2
<1>5. CASE ~ (Input(h) /\ Head(batch[h]).on = i)
  <2>1. Begins(h) => Head(batch[h]) \notin InputTasks({i})
    <3> SUFFICES ASSUME Begins(h) PROVE Head(batch[h]) \notin InputTasks({i})
      OBVIOUS
    <3>1. batch[h] # <<>> /\ Head(batch[h]) \in TasksOf(h) /\ thread[h] # thread'[h]
          /\ thread'[h] \in {"busy", "blocked"}
      BY <1>0 DEF Begins, ControlInv, QueueTypes
    <3>2. CASE Main
      BY <1>0, <3>1, <3>2, OrderFacts
         DEF Main, Start, SetUp, Result, CallStop, StopExecutor, Join, execVars, ControlInv,
             WorkerTypes
    <3>3. ASSUME NEW g \in Host, Visible(g), g # h PROVE FALSE
      BY <1>0, <3>1, <3>3
         DEF Visible, StartSetUp, SetUpInterface, Input, InputData, UserAction, Resume,
             Execute, ControlInv, WorkerTypes
    <3>4. CASE Visible(h) /\ ~ Input(h)
      <4>1. Head(batch[h]).kind # "input"
        BY <3>4 DEF Begins, Visible, StartSetUp, SetUpInterface, UserAction, Resume,
                    Execute, Begin
      <4>2. QED
        BY <4>1, SelectedTasks
    <3>5. CASE Input(h)
      <4>1. Head(batch[h]) \in InputTasks({i}) => Head(batch[h]).on = i
        BY SelectedTasks
      <4>2. QED
        BY <1>5, <3>5, <4>1
    <3>6. QED
      BY <3>2, <3>3, <3>4, <3>5
  <2>2. Inputs(i)' = Inputs(i)
    BY <1>0, <1>1, <1>2, <1>3, <2>1, InputsKept
  <2>3. WaitingFor(i)' = WaitingFor(i)
    BY <2>2 DEF WaitingFor, Inputs
  <2>4. received'[i] = received[i]
    <3>1. CASE Main
      BY <3>1 DEF Main, Start, SetUp, Result, CallStop, StopExecutor, Join, envVars
    <3>2. ASSUME NEW g \in Host, Visible(g), ~ Input(g) PROVE received'[i] = received[i]
      BY <3>2 DEF Visible, StartSetUp, SetUpInterface, UserAction, Resume, Execute, envVars
    <3>3. ASSUME NEW g \in Host, Input(g) PROVE received'[i] = received[i]
      <4>1. batch[g] # <<>> /\ Head(batch[g]) \in TasksOf(g) /\ Head(batch[g]).kind = "input"
        BY <3>3, OrderFacts DEF Input, InputData, Begin, ControlInv, QueueTypes
      <4>2. HostOf[Head(batch[g]).on] = g
        BY <4>1, SelectedTasks
      <4>3. Head(batch[g]).on # i
        BY <1>0, <1>5, <3>3, <4>2
      <4>4. QED
        BY <3>3, <4>3 DEF Input, InputData, ControlInv, EnvTypes
    <3>4. QED
      BY <3>1, <3>2, <3>3
  <2>5. QED
    BY <1>1, <1>4, <2>3, <2>4 DEF Unmoved, Got
<1>6. CASE Input(h) /\ Head(batch[h]).on = i
  <2>0. received'[i] = Append(received[i], Head(batch[h]).frame)
    BY <1>6 DEF Input, InputData, ControlInv, EnvTypes
  <2>1. Begins(h) /\ Head(batch[h]) \in TasksOf(h) /\ Head(batch[h]).kind = "input"
    BY <1>0, <1>6 DEF Input, InputData, Begin, Begins, ControlInv, WorkerTypes, QueueTypes
  <2>2. Head(batch[h]) \in InputTasks({i}) /\ Head(batch[h]).frame \in Frames
    BY <1>6, <2>1, SelectedTasks
  <2>3. queue'[h] = queue[h]
    BY <1>0, <1>6, ScheduleCases DEF Input, MaySend, Send
  <2>4. /\ WaitingFor(i) # <<>> /\ Head(WaitingFor(i)) = Head(batch[h]).frame
        /\ WaitingFor(i)' = Tail(WaitingFor(i))
    BY <1>0, <1>1, <2>1, <2>2, <2>3, InputsTaken
  <2>5. Adds(received[i], Head(WaitingFor(i)), received'[i])
    BY <2>0, <2>4 DEF Adds
  <2>6. Joined(received'[i], Tail(WaitingFor(i))) = Joined(received[i], WaitingFor(i))
    <3>1. received[i] \in Seq(Frames) /\ WaitingFor(i) \in Seq(Frames)
      BY DeliveryTypes
    <3>2. QED
      BY <2>4, <2>5, <3>1, JoinedTake
  <2>7. Got(i)' = Got(i)
    BY <2>4, <2>6 DEF Got
  <2>8. QED
    BY <1>1, <1>4, <2>7 DEF Unmoved
<1>7. QED
  BY <1>5, <1>6

-----------------------------------------------------------------------------
(* The numbers of the frames.                                              *)

(* A frame that is sent carries the number after those sent before. *)
IsNext(f) == /\ f \in Frames
             /\ f.nr = Len(Handled(f.from)) + Len(Pending(f.from)) + 1

(* An announcement gets the number after the last one of its interface. *)
LEMMA SendNumbers ==
    ASSUME ControlInv, NEW j \in Port, Send(j, Announcement)
    PROVE  \/ queue'[Bus] = queue[Bus]
           \/ \E f : IsNext(f) /\ Adds(queue[Bus], BroadcastTask(f), queue'[Bus])
<1> DEFINE f == [from |-> j, nr |-> FrameCount(j) + 1, data |-> Announcement]
<1>1. f \in Frames
  BY FrameCountType DEF Frames, FramesFrom, Announcement, Payloads
<1>2. f.nr = Len(Handled(f.from)) + Len(Pending(f.from)) + 1
  BY DEF FrameCount, Handled, Pending
<1>3. Schedule(Bus, BroadcastTask(f))
  BY DEF Send
<1>4. IsNext(f)
  BY <1>1, <1>2 DEF IsNext
<1> HIDE DEF f
<1>5. QED
  BY <1>3, <1>4, ScheduleCases, OrderFacts

(* Only the hosts send, and only the bus begins a broadcast. *)
LEMMA BusQueue ==
    ASSUME ControlInv, Main \/ Forward \/ \E g \in Host : Visible(g)
    PROVE  /\ ~ Begins(Bus) /\ UNCHANGED log
           /\ \/ queue'[Bus] = queue[Bus]
              \/ \E f : IsNext(f) /\ Adds(queue[Bus], BroadcastTask(f), queue'[Bus])
<1>0. Bus \in Executor /\ \A k \in Host : k \in Executor /\ k # Bus
  BY OrderFacts
<1>1. CASE Main
  <2>1. CASE SetUp
    <3>1. Hosts[turn] \in Host
      BY <2>1, OrderFacts DEF SetUp, ControlInv, MainInv, MainTypes
    <3>2. queue'[Bus] = queue[Bus]
      BY <1>0, <2>1, <3>1, ScheduleCases DEF SetUp, CallSetUp
    <3>3. QED
      BY <2>1, <3>2 DEF SetUp, Begins, envVars
  <2>2. CASE Start
    <3>1. Order[turn] \in Executor
      BY OrderFacts DEF ControlInv, MainTypes
    <3>2. QED
      BY <1>0, <2>2, <3>1 DEF Start, Begins, envVars, ControlInv, WorkerTypes
  <2>3. CASE ~ SetUp /\ ~ Start
    BY <1>1, <2>3 DEF Main, Result, CallStop, StopExecutor, Join, execVars, envVars, Begins
  <2>4. QED
    BY <2>1, <2>2, <2>3
<1>2. CASE Forward
  <2>1. Head(todo[Bus]) \in Port
    BY <1>0, <1>2 DEF Forward, ControlInv, WorkerTypes
  <2>2. HostOf[Head(todo[Bus])] \in Host
    BY <2>1, NetworkAssumption
  <2>3. \E t : Schedule(HostOf[Head(todo[Bus])], t)
    BY <1>2 DEF Forward
  <2>4. queue'[Bus] = queue[Bus]
    BY <1>0, <2>2, <2>3, ScheduleCases
  <2>5. QED
    BY <1>2, <2>4 DEF Forward, Begins, envVars
<1>3. ASSUME NEW g \in Host, Visible(g)
      PROVE  /\ ~ Begins(Bus) /\ UNCHANGED log
             /\ \/ queue'[Bus] = queue[Bus]
                \/ \E f : IsNext(f) /\ Adds(queue[Bus], BroadcastTask(f), queue'[Bus])
  <2>1. ~ Begins(Bus) /\ UNCHANGED log
    BY <1>0, <1>3
       DEF Visible, StartSetUp, SetUpInterface, Input, InputData, UserAction, Resume,
           Execute, envVars, Begins, ControlInv, WorkerTypes
  <2>2. \/ queue'[Bus] = queue[Bus]
        \/ \E j \in Port : Send(j, Announcement)
    <3>1. CASE StartSetUp(g) \/ Resume(g)
      BY <3>1 DEF StartSetUp, Resume
    <3>2. CASE SetUpInterface(g)
      <4>1. Head(todo[g]) \in Port
        BY <1>0, <3>2 DEF SetUpInterface, ControlInv, WorkerTypes
      <4>2. QED
        BY <3>2, <4>1 DEF SetUpInterface
    <3>3. CASE Input(g)
      BY <3>3, PortsOfFacts DEF Input, MaySend
    <3>4. CASE UserAction(g)
      <4>1. ASSUME NEW k \in Host, NEW c, CallSetUp(k, c) PROVE queue'[Bus] = queue[Bus]
        BY <1>0, <4>1, ScheduleCases DEF CallSetUp
      <4>2. QED
        BY <3>4, <4>1, PortsOfFacts DEF UserAction
    <3>5. CASE Execute(g)
      BY <1>0, <3>5, ScheduleCases DEF Execute
    <3>6. QED
      BY <1>3, <3>1, <3>2, <3>3, <3>4, <3>5 DEF Visible
  <2>3. QED
    BY <2>1, <2>2, SendNumbers
<1>4. QED
  BY <1>1, <1>2, <1>3

(* What the bus takes from its batch, tells its observers and forwards. *)
LEMMA BroadcastStarts ==
    ASSUME ControlInv, StartBroadcast
    PROVE  /\ Waiting(Bus) # <<>> /\ Head(Waiting(Bus)) = Head(batch[Bus])
           /\ Waiting(Bus)' = Tail(Waiting(Bus))
           /\ Head(batch[Bus]) \in TasksOf(Bus) /\ Current \in Frames
           /\ todo[Bus] = <<>>
           /\ \E e \in Entries(Port, BOOLEAN) :
                  /\ e.frame = Current /\ Adds(log, e, log')
                  /\ e.forward = TRUE => todo'[Bus] = Receivers(Current)
                  /\ e.forward = FALSE => todo'[Bus] = <<>>
<1>0. Bus \in Executor
  BY OrderFacts
<1>1. /\ batch[Bus] # <<>> /\ Head(batch[Bus]) \in TasksOf(Bus)
      /\ Begins(Bus) /\ queue'[Bus] = queue[Bus] /\ todo[Bus] = <<>>
  BY <1>0 DEF StartBroadcast, Begin, Begins, ControlInv, QueueTypes, WorkerTypes, WorkerInv
<1>2. UNCHANGED batch /\ Calm(Bus)
  BY <1>0, VisibleIsCalm
<1>3. /\ Waiting(Bus) # <<>> /\ Head(Waiting(Bus)) = Head(batch[Bus])
      /\ Waiting(Bus)' = Tail(Waiting(Bus))
  BY <1>0, <1>1, <1>2, QueueEffect
<1>4. Current \in Frames
  BY <1>1, TaskFields DEF Current
<1>5. PICK forward \in Verdicts :
          /\ log' = Append(log, [frame |-> Current, forward |-> forward])
          /\ todo' = [todo EXCEPT ![Bus] = IF forward THEN Receivers(Current) ELSE <<>>]
  BY DEF StartBroadcast, Observe, Current
<1> DEFINE e == [frame |-> Current, forward |-> forward]
<1>6. e \in Entries(Port, BOOLEAN)
  BY <1>4, NetworkAssumption DEF Entries, Frames
<1>7. e.frame = Current /\ Adds(log, e, log')
  BY <1>5 DEF Adds
<1>8. todo'[Bus] = IF forward THEN Receivers(Current) ELSE <<>>
  BY <1>0, <1>5 DEF ControlInv, WorkerTypes
<1>9. /\ e.forward = TRUE => todo'[Bus] = Receivers(Current)
      /\ e.forward = FALSE => todo'[Bus] = <<>>
  BY <1>8
<1> HIDE DEF e
<1>10. QED
  BY <1>1, <1>3, <1>4, <1>6, <1>7, <1>9

(* The number of the frame that the bus takes next is a new one. *)
LEMMA NextNumber ==
    ASSUME ControlInv, StartBroadcast, NEW i \in Port, i = Current.from, Numbered(i)
    PROVE  /\ Current.nr = Len(Handled(i)) + 1
           /\ CountsFrom(Len(Handled(i)) + 1, Pending(i)')
           /\ \A e \in Range(log) : e.frame # Current
<1> DEFINE t == Head(batch[Bus])
           n == Len(Handled(i))
<1>1. /\ Waiting(Bus) # <<>> /\ Head(Waiting(Bus)) = t
      /\ Waiting(Bus)' = Tail(Waiting(Bus)) /\ t \in TasksOf(Bus) /\ t.frame = Current
  BY BroadcastStarts DEF Current
<1>2. Waiting(Bus) \in Seq(TasksOf(Bus)) /\ t \in BroadcastTasks({i})
  BY <1>1, WaitingType, OrderFacts, SelectedFrames
<1>3. Pending(i) # <<>> /\ Head(Pending(i)) = t /\ Pending(i)' = Tail(Pending(i))
  BY <1>1, <1>2, FilterDrops DEF Pending
<1>4. /\ Pending(i) \in Seq(TasksOf(Bus)) /\ Handled(i) \in Seq(Entries(Port, BOOLEAN))
      /\ n \in Nat /\ DOMAIN Handled(i) = 1 .. n
  BY DeliveryTypes
<1>5. CountsFrom(n, Pending(i)) /\ CountsFrom(0, Handled(i))
  BY DEF Numbered
<1>6. Head(Pending(i)).frame.nr = n + 1 /\ CountsFrom(n + 1, Tail(Pending(i)))
  <2> HIDE DEF n
  <2>1. QED
    BY <1>3, <1>4, <1>5, CountsFacts
<1>7. Current.nr = n + 1
  BY <1>1, <1>3, <1>6
<1>8. ASSUME NEW e \in Range(log), e.frame = Current PROVE FALSE
  <2>1. log \in Seq(Entries(Port, BOOLEAN))
    BY DEF ControlInv, EnvTypes
  <2>2. e \in Entries(Port, BOOLEAN)
    BY <2>1 DEF Range
  <2>3. e \in Entries({i}, BOOLEAN)
    BY <1>8, <2>2, SelectedFrames
  <2>4. e \in Range(Handled(i))
    BY <2>1, <2>3, FilterType DEF Handled
  <2>5. PICK k \in 1 .. n : Handled(i)[k] = e
    BY <1>4, <2>4 DEF Range
  <2>6. Handled(i)[k].frame.nr = 0 + k
    BY <1>4, <1>5 DEF CountsFrom
  <2>7. QED
    BY <1>4, <1>7, <1>8, <2>5, <2>6
<1>9. QED
  BY <1>3, <1>6, <1>7, <1>8

(* Every step keeps the frames of an interface numbered in order. *)
LEMMA NumberedStep ==
    ASSUME ControlInv, [Next]_vars, NEW i \in Port, Numbered(i)
    PROVE  Numbered(i)'
<1>0. Bus \in Executor /\ Waiting(Bus) \in Seq(TasksOf(Bus))
  BY OrderFacts, WaitingType
<1>1. /\ Pending(i) \in Seq(TasksOf(Bus)) /\ Handled(i) \in Seq(Entries(Port, BOOLEAN))
      /\ Len(Handled(i)) \in Nat /\ Len(Pending(i)) \in Nat /\ 0 \in Nat
      /\ CountsFrom(Len(Handled(i)), Pending(i)) /\ CountsFrom(0, Handled(i))
  BY DeliveryTypes DEF Numbered
<1>2. ASSUME Waiting(Bus)' = Waiting(Bus), UNCHANGED log PROVE Numbered(i)'
  BY <1>2 DEF Numbered, Handled, Pending
<1>3. ASSUME NEW x \in Executor, Loop(x) PROVE Numbered(i)'
  <2>1. Waiting(Bus)' = Waiting(Bus)
    BY <1>0, <1>3, LoopEffect
  <2>2. UNCHANGED log
    BY <1>3 DEF Loop, Run, LeaveLoop, PopExpired, EndBatch, EndTask, Finally, envVars
  <2>3. QED
    BY <1>2, <2>1, <2>2
<1>4. ASSUME Main \/ Forward \/ \E g \in Host : Visible(g) PROVE Numbered(i)'
  <2>1. /\ ~ Begins(Bus) /\ UNCHANGED log
        /\ \/ queue'[Bus] = queue[Bus]
           \/ \E f : IsNext(f) /\ Adds(queue[Bus], BroadcastTask(f), queue'[Bus])
    BY <1>4, BusQueue
  <2>2. UNCHANGED batch /\ Calm(Bus)
    BY <1>0, <1>4, VisibleIsCalm
  <2>3. CASE queue'[Bus] = queue[Bus]
    <3>1. Waiting(Bus)' = Waiting(Bus)
      BY <1>0, <2>1, <2>2, <2>3, QueueEffect
    <3>2. QED
      BY <1>2, <2>1, <3>1
  <2>4. CASE queue'[Bus] # queue[Bus]
    <3>1. PICK f : IsNext(f) /\ Adds(queue[Bus], BroadcastTask(f), queue'[Bus])
      BY <2>1, <2>4
    <3> DEFINE t == BroadcastTask(f)
    <3>2. t \in TasksOf(Bus) /\ t.frame = f
      BY <3>1, TaskTypes DEF IsNext, BroadcastTask
    <3>3. Adds(Waiting(Bus), t, Waiting(Bus)')
      BY <1>0, <2>1, <2>2, <2>4, <3>1, <3>2, QueueEffect
    <3>4. Handled(i)' = Handled(i)
      BY <2>1 DEF Handled
    <3>5. CASE f.from = i
      <4>1. t \in BroadcastTasks({i})
        BY <3>2, <3>5, SelectedFrames
      <4>2. Adds(Pending(i), t, Pending(i)')
        BY <1>0, <3>2, <3>3, <4>1, FilterAdds DEF Pending
      <4>3. t.frame.nr = Len(Handled(i)) + Len(Pending(i)) + 1
        BY <3>1, <3>2, <3>5 DEF IsNext
      <4> HIDE DEF t
      <4>4. CountsFrom(Len(Handled(i)), Pending(i)')
        BY <1>1, <3>2, <4>2, <4>3, CountsFacts
      <4>5. QED
        BY <1>1, <3>4, <4>4 DEF Numbered
    <3>6. CASE f.from # i
      <4>1. t \notin BroadcastTasks({i})
        BY <3>2, <3>6, SelectedFrames
      <4> HIDE DEF t
      <4>2. Pending(i)' = Pending(i)
        BY <1>0, <3>2, <3>3, <4>1, FilterAdds DEF Pending
      <4>3. QED
        BY <1>1, <3>4, <4>2 DEF Numbered
    <3>7. QED
      BY <3>5, <3>6
  <2>5. QED
    BY <2>3, <2>4
<1>5. CASE StartBroadcast
  <2>1. PICK e \in Entries(Port, BOOLEAN) : e.frame = Current /\ Adds(log, e, log')
    BY <1>5, BroadcastStarts
  <2>2. /\ Waiting(Bus) # <<>> /\ Head(Waiting(Bus)) = Head(batch[Bus])
        /\ Waiting(Bus)' = Tail(Waiting(Bus)) /\ Head(batch[Bus]) \in TasksOf(Bus)
        /\ Head(batch[Bus]).frame = Current
    BY <1>5, BroadcastStarts DEF Current
  <2>3. log \in Seq(Entries(Port, BOOLEAN))
    BY DEF ControlInv, EnvTypes
  <2>4. CASE Current.from = i
    <3>1. e \in Entries({i}, BOOLEAN)
      BY <2>1, <2>4, SelectedFrames
    <3>2. Adds(Handled(i), e, Handled(i)')
      BY <2>1, <2>3, <3>1, FilterAdds DEF Handled
    <3>3. Current.nr = Len(Handled(i)) + 1 /\ CountsFrom(Len(Handled(i)) + 1, Pending(i)')
      BY <1>5, <2>4, NextNumber
    <3>4. CountsFrom(0, Handled(i)')
      <4>1. e.frame.nr = 0 + Len(Handled(i)) + 1
        BY <1>1, <2>1, <3>3
      <4>2. QED
        BY <1>1, <3>2, <4>1, CountsFacts
    <3>5. Len(Handled(i)') = Len(Handled(i)) + 1
      BY <1>1, <3>2, AddsFacts
    <3>6. QED
      BY <3>3, <3>4, <3>5 DEF Numbered
  <2>5. CASE Current.from # i
    <3>0. e \notin Entries({i}, BOOLEAN)
      BY <2>1, <2>5, SelectedFrames
    <3>1. Head(Waiting(Bus)) \notin BroadcastTasks({i})
      BY <2>2, <2>5, SelectedFrames
    <3>2. Handled(i)' = Handled(i)
      BY <2>1, <2>3, <3>0, FilterAdds DEF Handled
    <3>3. Pending(i)' = Pending(i)
      BY <1>0, <2>2, <3>1, FilterDrops DEF Pending
    <3>4. QED
      BY <1>1, <3>2, <3>3 DEF Numbered
  <2>6. QED
    BY <2>4, <2>5
<1>6. CASE UNCHANGED vars
  BY <1>2, <1>6 DEF vars, execVars, envVars, Waiting, Accepted
<1>7. QED
  BY <1>3, <1>4, <1>5, <1>6, OrderFacts DEF Next, BusThread, HostThread, Visible

-----------------------------------------------------------------------------
(* What the interfaces get.                                                *)

(* The observers are told of a frame, which may be forwarded. *)
LEMMA BroadcastDelivery ==
    ASSUME ControlInv, StartBroadcast, NEW i \in Port, Delivery(i), Numbered(Current.from)
    PROVE  Delivery(i)'
<1> DEFINE S == Entries(Port \ {i}, {TRUE})
           sel == Filter(log, S)
<1>0. PICK h \in Host : h = HostOf[i] /\ h \in Executor /\ h # Bus /\ Bus \in Executor
  BY DeliveryTypes, OrderFacts
<1>1. PICK e \in Entries(Port, BOOLEAN) :
          /\ e.frame = Current /\ Adds(log, e, log')
          /\ e.forward = TRUE => todo'[Bus] = Receivers(Current)
          /\ e.forward = FALSE => todo'[Bus] = <<>>
  BY BroadcastStarts
<1>2. Current \in Frames /\ todo[Bus] = <<>> /\ Current.from \in Port
  BY BroadcastStarts, SelectedFrames
<1>3. Current' = Current /\ UNCHANGED <<batch, received, aborted>>
  BY DEF StartBroadcast, Current, histVars
<1>4. Got(i)' = Got(i)
  <2>1. UNCHANGED batch /\ Calm(h) /\ ~ Begins(h)
    <3>1. thread'[h] = thread[h]
      BY <1>0 DEF StartBroadcast, ControlInv, WorkerTypes
    <3>2. QED
      BY <1>0, <3>1, VisibleIsCalm DEF Begins
  <2>2. PICK t : /\ t \notin InputTasks(Port)
                 /\ \/ queue'[h] = queue[h]
                    \/ t \in TasksOf(h) /\ Adds(queue[h], t, queue'[h])
    BY NoInputScheduled
  <2>3. t \notin InputTasks({i})
    BY <2>2, SelectedTasks
  <2>4. Inputs(i)' = Inputs(i)
    BY <1>0, <2>1, <2>2, <2>3, InputsKept
  <2>5. QED
    BY <1>3, <2>4 DEF Got, WaitingFor, Inputs
<1>5. /\ log \in Seq(Entries(Port, BOOLEAN)) /\ sel \in Seq(Entries(Port, BOOLEAN))
      /\ Got(i) \in Seq(Frames) /\ ForwardedTo(i) \in Seq(Frames)
      /\ Range(sel) \subseteq Range(log)
  <2>1. log \in Seq(Entries(Port, BOOLEAN))
    BY DEF ControlInv, EnvTypes
  <2>2. sel \in Seq(Entries(Port, BOOLEAN)) /\ Range(sel) = Range(log) \cap S
    BY <2>1, FilterType
  <2>3. Got(i) \in Seq(Frames) /\ ForwardedTo(i) \in Seq(Frames)
    BY DeliveryTypes
  <2>4. QED
    BY <2>1, <2>2, <2>3
<1>6. /\ ForwardedTo(i) = FramesOf(sel)
      /\ ForwardedTo(i)' = FramesOf(Filter(log', S))
  BY DEF ForwardedTo, FramesOf
<1>7. Underway(i) = <<>> /\ Joined(Got(i), <<>>) = Got(i) /\ Range(<<>>) = {}
  <2>1. Range(<<>>) = {}
    BY DEF Range
  <2>2. QED
    BY <1>2, <1>5, <2>1, JoinedFacts DEF Underway
<1>8. aborted = {} => Got(i) = ForwardedTo(i)
  BY <1>7 DEF Delivery
<1>9. CASE e \in S
  <2>1. Adds(sel, e, Filter(log', S))
    BY <1>1, <1>5, <1>9, FilterAdds
  <2>2. e.forward = TRUE /\ Current.from # i
    BY <1>1, <1>9, SelectedFrames
  <2>3. i \in Range(todo'[Bus])
    BY <1>1, <2>2, ReceiversFacts
  <2>4. Adds(ForwardedTo(i), Current, ForwardedTo(i)')
    <3>1. \A u \in Entries(Port, BOOLEAN) : u.frame \in Frames
      BY SelectedFrames
    <3> HIDE DEF sel
    <3>2. Adds(FramesOf(sel), e.frame, FramesOf(Filter(log', S)))
      BY <1>5, <2>1, <3>1, FramesOfAdds
    <3>3. QED
      BY <1>1, <1>6, <3>2
  <2>5. \A m \in DOMAIN ForwardedTo(i) : ForwardedTo(i)[m] # Current
    <3>1. \A u \in Range(log) : u.frame # Current
      BY <1>2, NextNumber
    <3>2. \A m \in DOMAIN FramesOf(sel) : sel[m] \in Range(sel) /\ FramesOf(sel)[m] = sel[m].frame
      <4> HIDE DEF sel
      <4>1. DOMAIN sel = 1 .. Len(sel)
        BY <1>5
      <4>2. \A m \in DOMAIN sel : sel[m] \in Range(sel)
        BY DEF Range
      <4>3. QED
        BY <4>1, <4>2 DEF FramesOf
    <3>3. QED
      BY <1>5, <1>6, <3>1, <3>2
  <2>6. /\ IsInjective(ForwardedTo(i)') /\ InOrder(Got(i), ForwardedTo(i)')
        /\ ComesLast(Current, Got(i), ForwardedTo(i)')
    BY <1>2, <1>5, <2>4, <2>5, OrderGrows DEF Delivery
  <2>7. Underway(i)' = <<Current>>
    BY <1>3, <2>3 DEF Underway, Current
  <2>8. aborted = {} => Joined(Got(i), <<Current>>) = ForwardedTo(i)'
    <3>1. Adds(Got(i), Current, Joined(Got(i), <<Current>>))
      BY <1>2, <1>5, JoinedFacts
    <3>2. QED
      BY <1>8, <2>4, <3>1 DEF Adds
  <2>9. QED
    BY <1>3, <1>4, <2>6, <2>7, <2>8 DEF Delivery
<1>10. CASE e \notin S
  <2>1. Filter(log', S) = sel
    BY <1>1, <1>5, <1>10, FilterAdds
  <2>2. ForwardedTo(i)' = ForwardedTo(i)
    BY <1>6, <2>1
  <2>3. i \notin Range(todo'[Bus])
    <3>1. e.forward \in BOOLEAN
      BY DEF Entries
    <3>2. CASE e.forward = TRUE
      <4>1. Current.from = i
        BY <1>1, <1>10, <3>2, SelectedFrames
      <4>2. QED
        BY <1>1, <3>2, <4>1, ReceiversFacts
    <3>3. CASE e.forward = FALSE
      BY <1>1, <1>7, <3>3
    <3>4. QED
      BY <3>1, <3>2, <3>3, Zenon
  <2>4. Underway(i)' = <<>>
    BY <2>3 DEF Underway
  <2>5. QED
    BY <1>3, <1>4, <1>7, <2>2, <2>3, <2>4 DEF Delivery
<1>11. QED
  BY <1>9, <1>10

(* The bus calls the callback of the interface that is next. *)
LEMMA ForwardDelivery ==
    ASSUME ControlInv, Forward, IsInjective(todo[Bus]), NEW i \in Port, Delivery(i)
    PROVE  Delivery(i)'
<1>0. PICK h \in Host : h = HostOf[i] /\ h \in Executor /\ h # Bus /\ Bus \in Executor
  BY DeliveryTypes, OrderFacts
<1>1. PICK j \in Port : j = Head(todo[Bus])
  BY <1>0 DEF Forward, ControlInv, WorkerTypes
<1>2. /\ Current \in Frames /\ todo[Bus] # <<>> /\ todo[Bus] \in Seq(Port)
      /\ HostOf[j] \in Executor
  <2>1. batch[Bus] # <<>> /\ batch[Bus] \in Seq(TasksOf(Bus))
    BY <1>0 DEF Forward, ControlInv, WorkerInv, Active, QueueTypes
  <2>2. Current \in Frames
    BY <2>1, TaskFields DEF Current
  <2>3. QED
    BY <1>0, <2>2, NetworkAssumption, OrderFacts DEF Forward, ControlInv, WorkerTypes
<1>3. /\ Schedule(HostOf[j], InputTask(j, Current))
      /\ Current' = Current /\ UNCHANGED <<batch, received, log, thread>>
  BY <1>1 DEF Forward, Current, envVars
<1>4. \/ /\ status[HostOf[j]] = "Running" /\ todo'[Bus] = Tail(todo[Bus])
         /\ aborted' = aborted
      \/ /\ status[HostOf[j]] # "Running" /\ todo'[Bus] = <<>>
         /\ aborted' # {}
  BY <1>0, <1>1 DEF Forward, ControlInv, WorkerTypes
<1>5. ForwardedTo(i)' = ForwardedTo(i)
  BY <1>3 DEF ForwardedTo
<1>6. /\ UNCHANGED batch /\ Calm(h) /\ ~ Begins(h)
      /\ Got(i) \in Seq(Frames) /\ ForwardedTo(i) \in Seq(Frames)
      /\ received[i] \in Seq(Frames) /\ WaitingFor(i) \in Seq(Frames)
  BY <1>0, <1>3, VisibleIsCalm, DeliveryTypes DEF Begins
<1>7. /\ \A k \in Range(todo[Bus]) : k = j \/ k \in Range(Tail(todo[Bus]))
      /\ j \in Range(todo[Bus]) /\ j \notin Range(Tail(todo[Bus]))
      /\ Range(Tail(todo[Bus])) \subseteq Range(todo[Bus])
  <2> DEFINE s == todo[Bus]
             r == Tail(s)
  <2>1. /\ DOMAIN s = 1 .. Len(s) /\ DOMAIN r = 1 .. Len(s) - 1 /\ Len(s) \in Nat \ {0}
        /\ \A n \in 1 .. Len(s) - 1 : r[n] = s[n + 1]
        /\ j = s[1]
    BY <1>1, <1>2
  <2>2. \A m, n \in 1 .. Len(s) : s[m] = s[n] => m = n
    BY <2>1 DEF IsInjective
  <2> HIDE DEF s, r
  <2>3. /\ \A n \in 1 .. Len(s) - 1 : n + 1 \in 1 .. Len(s) /\ n + 1 # 1
        /\ \A n \in 1 .. Len(s) : n = 1 \/ (n - 1 \in 1 .. Len(s) - 1 /\ (n - 1) + 1 = n)
        /\ 1 \in 1 .. Len(s)
    BY <2>1
  <2>4. ASSUME NEW k \in Range(s) PROVE k = j \/ k \in Range(r)
    <3>1. PICK n \in 1 .. Len(s) : k = s[n]
      BY <2>1 DEF Range
    <3>2. n # 1 => n - 1 \in DOMAIN r /\ r[n - 1] = k
      BY <2>1, <2>3, <3>1
    <3>3. n # 1 => k \in Range(r)
      BY <3>2 DEF Range
    <3>4. QED
      BY <2>1, <3>1, <3>3
  <2>5. j \in Range(s) /\ j \notin Range(r) /\ Range(r) \subseteq Range(s)
    BY <2>1, <2>2, <2>3 DEF Range
  <2>6. QED
    BY <2>4, <2>5 DEF s, r
<1>8. CASE status[HostOf[j]] = "Running" /\ j = i
  <2>1. Adds(queue[h], InputTask(i, Current), queue'[h])
    BY <1>0, <1>2, <1>3, <1>8, ScheduleCases
  <2>2. Adds(WaitingFor(i), Current, WaitingFor(i)')
    BY <1>0, <1>2, <1>6, <2>1, InputsAdded
  <2>3. Adds(Got(i), Current, Got(i)')
    <3>1. Adds(Joined(received[i], WaitingFor(i)), Current,
               Joined(received[i], WaitingFor(i)'))
      BY <1>2, <1>6, <2>2, JoinedFacts
    <3>2. QED
      BY <1>3, <3>1 DEF Got
  <2>4. i \in Range(todo[Bus]) /\ i \notin Range(todo'[Bus]) /\ aborted' = aborted
    BY <1>4, <1>7, <1>8
  <2>5. InOrder(Got(i)', ForwardedTo(i))
    BY <1>2, <1>6, <2>3, <2>4, OrderDelivers DEF Delivery
  <2>6. Underway(i)' = <<>> /\ Underway(i) = <<Current>>
    BY <2>4 DEF Underway, Current
  <2>7. aborted = {} => Joined(Got(i)', <<>>) = ForwardedTo(i)
    <3>1. Adds(Got(i), Current, Joined(Got(i), <<Current>>))
      BY <1>2, <1>6, JoinedFacts
    <3>2. Got(i)' = Joined(Got(i), <<Current>>)
      BY <2>3, <3>1 DEF Adds
    <3>3. Got(i)' \in Seq(Frames)
      BY <1>2, <1>6, <2>3, AddsFacts
    <3>4. Joined(Got(i)', <<>>) = Got(i)'
      BY <3>3, JoinedFacts
    <3>5. QED
      BY <2>6, <3>2, <3>4 DEF Delivery
  <2>8. QED
    BY <1>5, <2>4, <2>5, <2>6, <2>7 DEF Delivery
<1>9. CASE ~ (status[HostOf[j]] = "Running" /\ j = i)
  <2>1. Got(i)' = Got(i)
    <3>1. PICK t : /\ t \notin InputTasks({i})
                   /\ \/ queue'[h] = queue[h]
                      \/ t \in TasksOf(h) /\ Adds(queue[h], t, queue'[h])
      <4>1. UserTask \notin InputTasks({i})
        BY SelectedTasks DEF UserTask
      <4>2. j # i => InputTask(j, Current) \notin InputTasks({i})
        BY <1>2, SelectedTasks
      <4>3. InputTask(j, Current) \in TasksOf(HostOf[j])
        BY <1>2, TaskTypes
      <4>4. CASE h = HostOf[j] /\ status[HostOf[j]] = "Running"
        <5>1. Adds(queue[h], InputTask(j, Current), queue'[h])
          BY <1>0, <1>3, <4>4, ScheduleCases
        <5>2. QED
          BY <1>9, <4>2, <4>3, <4>4, <5>1
      <4>5. CASE ~ (h = HostOf[j] /\ status[HostOf[j]] = "Running")
        <5>1. queue'[h] = queue[h]
          BY <1>0, <1>2, <1>3, <4>5, ScheduleCases
        <5>2. QED
          BY <4>1, <5>1
      <4>6. QED
        BY <4>4, <4>5
    <3>2. Inputs(i)' = Inputs(i)
      BY <1>0, <1>6, <3>1, InputsKept
    <3>3. QED
      BY <1>3, <3>2 DEF Got, WaitingFor, Inputs
  <2>2. CASE status[HostOf[j]] = "Running"
    <3>1. i \in Range(todo'[Bus]) <=> i \in Range(todo[Bus])
      BY <1>4, <1>7, <1>9, <2>2
    <3>2. Underway(i)' = Underway(i)
      BY <1>3, <3>1 DEF Underway, Current
    <3>3. QED
      BY <1>3, <1>4, <1>5, <2>1, <2>2, <3>1, <3>2 DEF Delivery
  <2>3. CASE status[HostOf[j]] # "Running"
    <3>1. i \notin Range(todo'[Bus]) /\ aborted' # {}
      BY <1>4, <2>3 DEF Range
    <3>2. QED
      BY <1>5, <2>1, <3>1 DEF Delivery
  <2>4. QED
    BY <2>2, <2>3
<1>10. QED
  BY <1>8, <1>9

-----------------------------------------------------------------------------
(* Nothing is under way at first. *)
LEMMA InitDelivery == Init => DeliveryInv
<1> SUFFICES ASSUME Init PROVE DeliveryInv
  OBVIOUS
<1> USE DEF Init
<1>0. Bus \in Executor /\ Range(<<>>) = {} /\ DOMAIN <<>> = {} /\ <<>> \o <<>> = <<>>
      /\ Len(<<>>) = 0
  BY OrderFacts DEF Range
<1>1. \A x \in Executor : Waiting(x) = <<>>
  BY DEF Waiting, Accepted
<1>2. todo[Bus] = <<>> /\ IsInjective(<<>>)
  BY <1>0 DEF IsInjective
<1>3. ASSUME NEW i \in Port PROVE Numbered(i) /\ Delivery(i)
  <2>1. Handled(i) = <<>> /\ Pending(i) = <<>>
    BY <1>0, <1>1, FilterEmpty DEF Handled, Pending
  <2>2. Numbered(i)
    BY <1>0, <2>1 DEF Numbered, CountsFrom
  <2>3. FramesOf(<<>>) = <<>>
    BY DEF FramesOf
  <2>4. HostOf[i] \in Executor
    BY NetworkAssumption, OrderFacts
  <2>5. ForwardedTo(i) = FramesOf(Filter(log, Entries(Port \ {i}, {TRUE})))
        /\ WaitingFor(i) = FramesOf(Inputs(i))
    BY DEF ForwardedTo, WaitingFor, FramesOf, Inputs
  <2>6. ForwardedTo(i) = <<>> /\ WaitingFor(i) = <<>>
    BY <1>1, <2>3, <2>4, <2>5, FilterEmpty DEF Inputs
  <2>7. Got(i) = <<>> /\ Underway(i) = <<>> /\ i \notin Range(todo[Bus])
    BY <1>0, <1>2, <2>6 DEF Got, Joined, Underway
  <2>8. Joined(<<>>, <<>>) = <<>> /\ InOrder(<<>>, <<>>)
    BY <1>0 DEF Joined, InOrder
  <2>9. QED
    BY <1>2, <2>2, <2>6, <2>7, <2>8 DEF Delivery
<1>4. QED
  BY <1>2, <1>3 DEF DeliveryInv

(* The interfaces that the bus has to visit are different ones. *)
LEMMA TodoStep ==
    ASSUME ControlInv, [Next]_vars, IsInjective(todo[Bus])
    PROVE  IsInjective(todo'[Bus])
<1>0. Bus \in Executor /\ todo[Bus] \in Seq(Port)
  BY OrderFacts DEF ControlInv, WorkerTypes
<1>1. IsInjective(<<>>)
  BY DEF IsInjective
<1>2. ASSUME todo'[Bus] = todo[Bus] PROVE IsInjective(todo'[Bus])
  BY <1>2
<1>3. CASE StartBroadcast
  <2>1. PICK e \in Entries(Port, BOOLEAN) :
            /\ e.forward = TRUE => todo'[Bus] = Receivers(Current)
            /\ e.forward = FALSE => todo'[Bus] = <<>>
    BY <1>3, BroadcastStarts
  <2>2. e.forward \in BOOLEAN
    BY DEF Entries
  <2>3. IsInjective(Receivers(Current))
    BY ReceiversFacts
  <2>4. CASE e.forward = TRUE
    BY <2>1, <2>3, <2>4
  <2>5. CASE e.forward = FALSE
    BY <1>1, <2>1, <2>5
  <2>6. QED
    BY <2>2, <2>4, <2>5, Zenon
<1>4. CASE Forward
  <2>1. todo[Bus] # <<>> /\ (todo'[Bus] = Tail(todo[Bus]) \/ todo'[Bus] = <<>>)
    BY <1>0, <1>4 DEF Forward, ControlInv, WorkerTypes
  <2>2. ASSUME NEW s \in Seq(Port), s # <<>>, IsInjective(s) PROVE IsInjective(Tail(s))
    <3> DEFINE r == Tail(s)
    <3>1. /\ DOMAIN s = 1 .. Len(s) /\ DOMAIN r = 1 .. Len(s) - 1 /\ Len(s) \in Nat \ {0}
          /\ \A n \in 1 .. Len(s) - 1 : r[n] = s[n + 1]
      BY <2>2
    <3>2. \A m, n \in 1 .. Len(s) : s[m] = s[n] => m = n
      BY <2>2, <3>1 DEF IsInjective
    <3> HIDE DEF r
    <3>3. \A n \in 1 .. Len(s) - 1 : n + 1 \in 1 .. Len(s)
      BY <3>1
    <3>4. \A m, n \in 1 .. Len(s) - 1 : r[m] = r[n] => m + 1 = n + 1
      BY <3>1, <3>2, <3>3
    <3>5. \A m, n \in 1 .. Len(s) - 1 : r[m] = r[n] => m = n
      BY <3>1, <3>4
    <3>6. QED
      BY <3>1, <3>5 DEF IsInjective, r
  <2>3. QED
    BY <1>0, <1>1, <2>1, <2>2
<1>5. CASE Main
  BY <1>2, <1>5 DEF Main, Start, SetUp, Result, CallStop, StopExecutor, Join, execVars
<1>6. ASSUME NEW x \in Executor, Loop(x) PROVE IsInjective(todo'[Bus])
  BY <1>2, <1>6 DEF Loop, Run, LeaveLoop, PopExpired, EndBatch, EndTask, Finally
<1>7. ASSUME NEW g \in Host, Visible(g) PROVE IsInjective(todo'[Bus])
  <2>1. g # Bus
    BY OrderFacts
  <2>2. todo'[Bus] = todo[Bus]
    BY <1>0, <1>7, <2>1
       DEF Visible, StartSetUp, SetUpInterface, Input, InputData, UserAction, Resume,
           Execute, ControlInv, WorkerTypes
  <2>3. QED
    BY <1>2, <2>2
<1>8. CASE UNCHANGED vars
  BY <1>2, <1>8 DEF vars, execVars
<1>9. QED
  BY <1>3, <1>4, <1>5, <1>6, <1>7, <1>8, OrderFacts DEF Next, BusThread, HostThread, Visible

(* Every step keeps the invariant of delivery. *)
LEMMA NextDelivery == ControlInv /\ DeliveryInv /\ [Next]_vars => DeliveryInv'
<1> SUFFICES ASSUME ControlInv, DeliveryInv, [Next]_vars PROVE DeliveryInv'
  OBVIOUS
<1> USE DEF DeliveryInv
<1>1. IsInjective(todo'[Bus]) /\ \A i \in Port : Numbered(i)'
  BY TodoStep, NumberedStep
<1>2. ASSUME NEW i \in Port PROVE Delivery(i)'
  <2>1. ASSUME NEW x \in Executor, Loop(x) PROVE Delivery(i)'
    BY <2>1, LoopUnmoved, UnmovedDelivery
  <2>2. CASE Main \/ \E g \in Host : Visible(g)
    BY <2>2, OthersUnmoved, UnmovedDelivery
  <2>3. CASE StartBroadcast
    <3>1. Current.from \in Port
      BY <2>3, BroadcastStarts, SelectedFrames
    <3>2. QED
      BY <2>3, <3>1, BroadcastDelivery
  <2>4. CASE Forward
    BY <2>4, ForwardDelivery
  <2>5. CASE UNCHANGED vars
    <3>1. Unmoved(i)
      BY <2>5 DEF vars, execVars, envVars, histVars, Unmoved, Got, WaitingFor, Waiting,
                  Accepted
    <3>2. QED
      BY <3>1, UnmovedDelivery
  <2>6. QED
    BY <2>1, <2>2, <2>3, <2>4, <2>5, OrderFacts DEF Next, BusThread, HostThread, Visible
<1>3. QED
  BY <1>1, <1>2

(* So it holds throughout. *)
LEMMA AlwaysDelivery == Spec => []DeliveryInv
  BY InitDelivery, NextDelivery, AlwaysControl, PTL DEF Spec

(***************************************************************************)
(* Whatever the pace of the bus and of the hosts, and also after callbacks *)
(* that raised Stopped: what an interface receives is what the observers   *)
(* of the bus saw forwarded, in that order, never twice.                   *)
(***************************************************************************)
THEOREM BusKeepsTheOrder == Spec => []ReceiversFollowTheBus
<1>1. DeliveryInv => ReceiversFollowTheBus
  BY DEF DeliveryInv, Delivery, InOrder, Got, Joined, ReceiversFollowTheBus
<1>2. QED
  BY <1>1, AlwaysDelivery, PTL

(***************************************************************************)
(* As long as no callback has raised Stopped, an interface has received,   *)
(* or is about to receive, all that was forwarded.                         *)
(***************************************************************************)
THEOREM BusDeliversAll == Spec => []NothingIsMissing
<1>1. DeliveryInv => NothingIsMissing
  BY DEF DeliveryInv, Delivery, Got, Joined, NothingIsMissing
<1>2. QED
  BY <1>1, AlwaysDelivery, PTL
=============================================================================
