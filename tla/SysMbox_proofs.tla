--------------------------- MODULE SysMbox_proofs ---------------------------
(***************************************************************************)
(* Theorems about the mailbox of sys_arch.c, for every size of at least 2, *)
(* every number of posting and fetching threads and of messages.           *)
(***************************************************************************)
EXTENDS SysMbox, FiniteSetTheorems, TLAPS

(* At most one thread is between the wait and the signal of "mutex". *)
MutualExclusion ==
    \A t \in Threads :
        pc[t] = "in" => mutex = 0 /\ \A u \in Threads : pc[u] = "in" => u = t

(* wait_send counts the posters that wait for space, or just did. *)
Waiting == {p \in Posters : pc[p] \in {"wait", "relock"}}

WaitSendCounts ==
    /\ waitSend = Cardinality(Waiting)
    /\ \A p \in Waiting : op[p] = "post"

(* A thread inside posts a message or fetches with the call it is in. *)
CallsAreCalls ==
    /\ \A p \in Posters :
           pc[p] # "idle" => op[p] \in PostOps /\ msg[p] \in Msgs
    /\ \A f \in Fetchers : pc[f] # "relock"

IInv ==
    /\ TypeOK
    /\ MutualExclusion
    /\ CallsAreCalls
    /\ FirstInFirstOut

-----------------------------------------------------------------------------
(* Slots of the ring that are less than Size apart are different. *)
LEMMA SlotsDiffer ==
    ASSUME NEW a \in Nat, NEW b \in Nat, a < b, b < a + Size
    PROVE  Slot(a) # Slot(b)
<1> USE MboxAssumption DEF Slot
<1>1. /\ a = Size * (a \div Size) + (a % Size)
      /\ b = Size * (b \div Size) + (b % Size)
      /\ a \div Size \in Int /\ b \div Size \in Int
      /\ a % Size \in Int /\ b % Size \in Int
  OBVIOUS
<1> SUFFICES ASSUME a % Size = b % Size PROVE FALSE
  OBVIOUS
<1> DEFINE d == (b \div Size) - (a \div Size)
<1>2. d \in Int /\ b - a = Size * d
  BY <1>1
<1> HIDE DEF d
<1>3. d >= 1 => Size * d >= Size
  BY <1>2
<1>4. d <= 0 => Size * d <= 0
  BY <1>2
<1>5. QED
  BY <1>2, <1>3, <1>4
(* The slot written or read is one of the ring. *)
LEMMA SlotInRing ==
    ASSUME NEW k \in Nat
    PROVE  Slot(k) \in 0 .. Size - 1
  BY MboxAssumption DEF Slot

-----------------------------------------------------------------------------
(* A new mailbox. *)
LEMMA InitIInv == Init => IInv
<1> SUFFICES ASSUME Init PROVE IInv
  OBVIOUS
<1> USE MboxAssumption DEF Init
<1>1. TypeOK
  BY DEF TypeOK
<1>2. MutualExclusion /\ CallsAreCalls
  BY DEF MutualExclusion, CallsAreCalls, Threads
<1>3. FirstInFirstOut
  BY DEF FirstInFirstOut
<1>4. QED
  BY <1>1, <1>2, <1>3 DEF IInv

(* Putting a message writes a slot that holds none of those not fetched. *)
LEMMA PutKeepsOrder ==
    ASSUME IInv, NEW p \in Posters, Put(p)
    PROVE  FirstInFirstOut'
<1> USE MboxAssumption DEF IInv
<1>1. /\ first \in Nat /\ last \in Nat /\ first <= last /\ last < first + Size
      /\ last + 1 < first + Size
      /\ last' = last + 1 /\ first' = first /\ got' = got
      /\ msg[p] \in Msgs
      /\ put \in Seq(Msgs) /\ Len(put) = last
  BY DEF Put, TypeOK, FirstInFirstOut, Full, CallsAreCalls
<1>2. put' = Append(put, msg[p]) /\ Len(put') = last'
  BY <1>1 DEF Put
<1>3. \A k \in 1 .. last : put'[k] = put[k]
  BY <1>1, <1>2
<1>4. put'[last + 1] = msg[p]
  BY <1>1, <1>2
<1>5. \A k \in 1 .. first' : got'[k] = put'[k]
  BY <1>1, <1>3 DEF FirstInFirstOut
<1>6. ASSUME NEW k \in first' .. last' - 1 PROVE msgs'[Slot(k)] = put'[k + 1]
  <2>0. k \in Nat /\ Slot(k) \in 0 .. Size - 1 /\ Slot(last) \in 0 .. Size - 1
    <3>1. k \in Nat /\ last \in Nat
      BY <1>1, <1>6
    <3>2. QED
      BY <3>1, SlotInRing
  <2>1. CASE k = last
    BY <1>4, <2>0, <2>1 DEF Put, TypeOK
  <2>2. CASE k < last
    <3>1. Slot(k) # Slot(last)
      BY <1>1, <1>6, <2>0, <2>2, SlotsDiffer
    <3>2. msgs'[Slot(k)] = msgs[Slot(k)]
      BY <2>0, <3>1 DEF Put, TypeOK
    <3>3. msgs[Slot(k)] = put[k + 1] /\ put'[k + 1] = put[k + 1]
      <4>1. k \in first .. last - 1 /\ k + 1 \in 1 .. last
        BY <1>1, <1>6, <2>0, <2>2
      <4>2. QED
        BY <1>3, <4>1 DEF FirstInFirstOut
    <3>4. QED
      BY <3>2, <3>3
  <2>3. QED
    BY <1>1, <1>6, <2>0, <2>1, <2>2
<1>7. Len(got') = first'
  BY <1>1 DEF FirstInFirstOut
<1>8. QED
  BY <1>1, <1>2, <1>5, <1>6, <1>7 DEF FirstInFirstOut

(* Fetching takes the oldest message. *)
LEMMA TakeKeepsOrder ==
    ASSUME IInv, NEW f \in Fetchers, Take(f)
    PROVE  FirstInFirstOut'
<1> USE MboxAssumption DEF IInv
<1>1. /\ first \in Nat /\ last \in Nat /\ first < last /\ last < first + Size
      /\ first' = first + 1 /\ last' = last /\ put' = put /\ msgs' = msgs
      /\ got \in Seq(Msgs \cup {NoMsg}) /\ Len(got) = first
      /\ Slot(first) \in 0 .. Size - 1
  BY SlotInRing DEF Take, TypeOK, FirstInFirstOut, Empty
<1>2. msgs[Slot(first)] = put[first + 1]
  BY <1>1 DEF FirstInFirstOut
<1>3. got' = Append(got, put[first + 1])
  BY <1>2 DEF Take
<1>4. msgs[Slot(first)] \in Msgs \cup {NoMsg}
  BY <1>1 DEF TypeOK
<1>5. Len(got') = first' /\ \A k \in 1 .. first : got'[k] = got[k]
  BY <1>1, <1>2, <1>3, <1>4
<1>6. got'[first + 1] = put[first + 1]
  BY <1>1, <1>2, <1>3, <1>4
<1>7. \A k \in 1 .. first' : got'[k] = put'[k]
  BY <1>1, <1>5, <1>6 DEF FirstInFirstOut
<1>8. \A k \in first' .. last' - 1 : msgs'[Slot(k)] = put'[k + 1]
  BY <1>1 DEF FirstInFirstOut
<1>9. QED
  BY <1>1, <1>5, <1>7, <1>8 DEF FirstInFirstOut

(* Every step keeps the invariant. *)
LEMMA NextIInv == IInv /\ [Next]_vars => IInv'
<1> SUFFICES ASSUME IInv, [Next]_vars PROVE IInv'
  OBVIOUS
<1> USE MboxAssumption DEF IInv, ring, sems, GoTo, Threads, Signal, Acquired
<1>1. ASSUME NEW p \in Posters, NEW o \in PostOps, NEW m \in Msgs, CallPost(p, o, m)
      PROVE  IInv'
  <2>1. TypeOK'
    BY <1>1 DEF TypeOK, CallPost
  <2>2. MutualExclusion'
    BY <1>1 DEF MutualExclusion, TypeOK, CallPost
  <2>3. CallsAreCalls'
    BY <1>1 DEF CallsAreCalls, TypeOK, CallPost
  <2>4. FirstInFirstOut'
    BY <1>1 DEF FirstInFirstOut, CallPost
  <2>5. QED
    BY <2>1, <2>2, <2>3, <2>4
<1>2. ASSUME NEW t \in Threads, Lock(t)
      PROVE  IInv'
  <2>1. TypeOK'
    BY <1>2 DEF TypeOK, Lock
  <2>2. MutualExclusion'
    BY <1>2 DEF MutualExclusion, TypeOK, Lock
  <2>3. CallsAreCalls'
    BY <1>2 DEF CallsAreCalls, TypeOK, Lock
  <2>4. FirstInFirstOut'
    BY <1>2 DEF FirstInFirstOut, Lock
  <2>5. QED
    BY <2>1, <2>2, <2>3, <2>4
<1>3. ASSUME NEW p \in Posters, TryPostFull(p)
      PROVE  IInv'
  <2>1. TypeOK'
    BY <1>3 DEF TypeOK, TryPostFull
  <2>2. MutualExclusion'
    BY <1>3 DEF MutualExclusion, TypeOK, TryPostFull
  <2>3. CallsAreCalls'
    BY <1>3 DEF CallsAreCalls, TypeOK, TryPostFull
  <2>4. FirstInFirstOut'
    BY <1>3 DEF FirstInFirstOut, TryPostFull
  <2>5. QED
    BY <2>1, <2>2, <2>3, <2>4
<1>4. ASSUME NEW p \in Posters, PostFull(p)
      PROVE  IInv'
  <2>1. TypeOK'
    BY <1>4 DEF TypeOK, PostFull
  <2>2. MutualExclusion'
    BY <1>4 DEF MutualExclusion, TypeOK, PostFull
  <2>3. CallsAreCalls'
    BY <1>4 DEF CallsAreCalls, TypeOK, PostFull
  <2>4. FirstInFirstOut'
    BY <1>4 DEF FirstInFirstOut, PostFull
  <2>5. QED
    BY <2>1, <2>2, <2>3, <2>4
<1>5. ASSUME NEW p \in Posters, WaitNotFull(p)
      PROVE  IInv'
  <2>1. TypeOK'
    BY <1>5 DEF TypeOK, WaitNotFull
  <2>2. MutualExclusion'
    BY <1>5 DEF MutualExclusion, TypeOK, WaitNotFull
  <2>3. CallsAreCalls'
    BY <1>5 DEF CallsAreCalls, TypeOK, WaitNotFull
  <2>4. FirstInFirstOut'
    BY <1>5 DEF FirstInFirstOut, WaitNotFull
  <2>5. QED
    BY <2>1, <2>2, <2>3, <2>4
<1>6. ASSUME NEW p \in Posters, RelockPoster(p)
      PROVE  IInv'
  <2>1. TypeOK'
    BY <1>6 DEF TypeOK, RelockPoster
  <2>2. MutualExclusion'
    BY <1>6 DEF MutualExclusion, TypeOK, RelockPoster
  <2>3. CallsAreCalls'
    BY <1>6 DEF CallsAreCalls, TypeOK, RelockPoster
  <2>4. FirstInFirstOut'
    BY <1>6 DEF FirstInFirstOut, RelockPoster
  <2>5. QED
    BY <2>1, <2>2, <2>3, <2>4
<1>7. ASSUME NEW p \in Posters, Put(p)
      PROVE  IInv'
  <2>1. TypeOK'
    <3>1. Slot(last) \in 0 .. Size - 1 /\ msg[p] \in Msgs
      BY <1>7, SlotInRing DEF TypeOK, Put, CallsAreCalls
    <3>2. msgs' \in [0 .. Size - 1 -> Msgs \cup {NoMsg}] /\ put' \in Seq(Msgs)
      BY <1>7, <3>1 DEF TypeOK, Put
    <3>3. QED
      BY <1>7, <3>2 DEF TypeOK, Put
  <2>2. MutualExclusion'
    BY <1>7 DEF MutualExclusion, TypeOK, Put
  <2>3. CallsAreCalls'
    BY <1>7 DEF CallsAreCalls, TypeOK, Put
  <2>4. FirstInFirstOut'
    BY <1>7, PutKeepsOrder
  <2>5. QED
    BY <2>1, <2>2, <2>3, <2>4
<1>8. ASSUME NEW f \in Fetchers, NEW o \in FetchOps, CallFetch(f, o)
      PROVE  IInv'
  <2>1. TypeOK'
    BY <1>8 DEF TypeOK, CallFetch
  <2>2. MutualExclusion'
    BY <1>8 DEF MutualExclusion, TypeOK, CallFetch
  <2>3. CallsAreCalls'
    BY <1>8 DEF CallsAreCalls, TypeOK, CallFetch
  <2>4. FirstInFirstOut'
    BY <1>8 DEF FirstInFirstOut, CallFetch
  <2>5. QED
    BY <2>1, <2>2, <2>3, <2>4
<1>9. ASSUME NEW f \in Fetchers, TryFetchEmpty(f)
      PROVE  IInv'
  <2>1. TypeOK'
    BY <1>9 DEF TypeOK, TryFetchEmpty
  <2>2. MutualExclusion'
    BY <1>9 DEF MutualExclusion, TypeOK, TryFetchEmpty
  <2>3. CallsAreCalls'
    BY <1>9 DEF CallsAreCalls, TypeOK, TryFetchEmpty
  <2>4. FirstInFirstOut'
    BY <1>9 DEF FirstInFirstOut, TryFetchEmpty
  <2>5. QED
    BY <2>1, <2>2, <2>3, <2>4
<1>10. ASSUME NEW f \in Fetchers, FetchEmpty(f)
      PROVE  IInv'
  <2>1. TypeOK'
    BY <1>10 DEF TypeOK, FetchEmpty
  <2>2. MutualExclusion'
    BY <1>10 DEF MutualExclusion, TypeOK, FetchEmpty
  <2>3. CallsAreCalls'
    BY <1>10 DEF CallsAreCalls, TypeOK, FetchEmpty
  <2>4. FirstInFirstOut'
    BY <1>10 DEF FirstInFirstOut, FetchEmpty
  <2>5. QED
    BY <2>1, <2>2, <2>3, <2>4
<1>11. ASSUME NEW f \in Fetchers, WaitNotEmpty(f)
      PROVE  IInv'
  <2>1. TypeOK'
    BY <1>11 DEF TypeOK, WaitNotEmpty
  <2>2. MutualExclusion'
    BY <1>11 DEF MutualExclusion, TypeOK, WaitNotEmpty
  <2>3. CallsAreCalls'
    BY <1>11 DEF CallsAreCalls, TypeOK, WaitNotEmpty
  <2>4. FirstInFirstOut'
    BY <1>11 DEF FirstInFirstOut, WaitNotEmpty
  <2>5. QED
    BY <2>1, <2>2, <2>3, <2>4
<1>12. ASSUME NEW f \in Fetchers, FetchTimeout(f)
      PROVE  IInv'
  <2>1. TypeOK'
    BY <1>12 DEF TypeOK, FetchTimeout
  <2>2. MutualExclusion'
    BY <1>12 DEF MutualExclusion, TypeOK, FetchTimeout
  <2>3. CallsAreCalls'
    BY <1>12 DEF CallsAreCalls, TypeOK, FetchTimeout
  <2>4. FirstInFirstOut'
    BY <1>12 DEF FirstInFirstOut, FetchTimeout
  <2>5. QED
    BY <2>1, <2>2, <2>3, <2>4
<1>13. ASSUME NEW f \in Fetchers, Take(f)
      PROVE  IInv'
  <2>1. TypeOK'
    <3>1. Slot(first) \in 0 .. Size - 1
      BY SlotInRing DEF TypeOK
    <3>2. got' \in Seq(Msgs \cup {NoMsg})
      BY <1>13, <3>1 DEF TypeOK, Take
    <3>3. QED
      BY <1>13, <3>2 DEF TypeOK, Take
  <2>2. MutualExclusion'
    BY <1>13 DEF MutualExclusion, TypeOK, Take
  <2>3. CallsAreCalls'
    BY <1>13 DEF CallsAreCalls, TypeOK, Take
  <2>4. FirstInFirstOut'
    BY <1>13, TakeKeepsOrder
  <2>5. QED
    BY <2>1, <2>2, <2>3, <2>4
<1>14. CASE UNCHANGED vars
  BY <1>14 DEF vars, TypeOK, MutualExclusion, CallsAreCalls, FirstInFirstOut
<1>15. QED
  BY <1>1, <1>2, <1>3, <1>4, <1>5, <1>6, <1>7, <1>8, <1>9, <1>10, <1>11, <1>12, <1>13, <1>14
  DEF Next, Post, Fetch

(* Every reachable state of the mailbox satisfies the invariant. *)
THEOREM Invariance == Spec => []IInv
<1>1. QED
  BY InitIInv, NextIInv, PTL DEF Spec

(* The fields of struct sys_mbox and its semaphores keep their types. *)
THEOREM TypeCorrectness == Spec => []TypeOK
<1>1. IInv => TypeOK
  BY DEF IInv
<1>2. QED
  BY <1>1, Invariance, PTL

(***************************************************************************)
(* sys_mbox_post, trypost, fetch and tryfetch together are a queue: no     *)
(* message is lost, duplicated, reordered or overwritten.                  *)
(***************************************************************************)
THEOREM MailboxIsAQueue == Spec => []FirstInFirstOut
<1>1. IInv => FirstInFirstOut
  BY DEF IInv
<1>2. QED
  BY <1>1, Invariance, PTL
-----------------------------------------------------------------------------
(* wait_send counts the waiting posters exactly. *)
LEMMA WaitSendStep == IInv /\ WaitSendCounts /\ [Next]_vars => WaitSendCounts'
<1> SUFFICES ASSUME IInv, WaitSendCounts, [Next]_vars PROVE WaitSendCounts'
  OBVIOUS
<1> USE MboxAssumption DEF IInv, TypeOK, Threads, ring, sems, GoTo
<1>0. IsFiniteSet(Waiting)
  BY FS_Subset DEF Waiting
<1>1. ASSUME NEW p \in Posters, PostFull(p) PROVE WaitSendCounts'
  <2>1. Waiting' = Waiting \cup {p} /\ p \notin Waiting
    BY <1>1 DEF Waiting, PostFull
  <2>2. Cardinality(Waiting') = Cardinality(Waiting) + 1
    BY <1>0, <2>1, FS_AddElement
  <2>3. QED
    BY <1>1, <2>1, <2>2 DEF WaitSendCounts, PostFull
<1>2. ASSUME NEW p \in Posters, RelockPoster(p) PROVE WaitSendCounts'
  <2>1. Waiting' = Waiting \ {p} /\ p \in Waiting
    BY <1>2 DEF Waiting, RelockPoster
  <2>2. Cardinality(Waiting') = Cardinality(Waiting) - 1
    BY <1>0, <2>1, FS_RemoveElement
  <2>3. QED
    BY <1>2, <2>1, <2>2 DEF WaitSendCounts, RelockPoster
<1>3. ASSUME NEW p \in Posters,
             \/ \E o \in PostOps, m \in Msgs : CallPost(p, o, m)
             \/ Lock(p) \/ TryPostFull(p) \/ WaitNotFull(p) \/ Put(p)
      PROVE  WaitSendCounts'
  <2>1. Waiting' = Waiting
    BY <1>3 DEF Waiting, CallPost, Lock, TryPostFull, WaitNotFull, Put
  <2>2. waitSend' = waitSend /\ \A q \in Waiting : op'[q] = op[q]
    BY <1>3 DEF Waiting, CallPost, Lock, TryPostFull, WaitNotFull, Put
  <2>3. QED
    BY <2>1, <2>2 DEF WaitSendCounts
<1>4. ASSUME NEW f \in Fetchers, Fetch(f) PROVE WaitSendCounts'
  <2>1. \A p \in Posters : pc'[p] = pc[p] /\ op'[p] = op[p]
    BY <1>4 DEF Fetch, CallFetch, Lock, TryFetchEmpty, FetchEmpty, WaitNotEmpty,
       FetchTimeout, Take
  <2>2. waitSend' = waitSend /\ Waiting' = Waiting
    BY <1>4, <2>1 DEF Waiting, Fetch, CallFetch, Lock, TryFetchEmpty, FetchEmpty,
       WaitNotEmpty, FetchTimeout, Take
  <2>3. QED
    BY <2>1, <2>2 DEF WaitSendCounts, Waiting
<1>5. CASE UNCHANGED vars
  BY <1>5 DEF vars, WaitSendCounts, Waiting
<1>6. QED
  BY <1>1, <1>2, <1>3, <1>4, <1>5 DEF Next, Post

(* The fetch that empties the mailbox sees the posters that wait. *)
LEMMA TakeSignals ==
    ASSUME IInv, WaitSendCounts, NEW f \in Fetchers, Take(f),
           NEW p \in Posters, pc[p] = "wait"
    PROVE  notFull' = 1
<1>1. IsFiniteSet(Waiting)
  BY MboxAssumption, FS_Subset DEF Waiting
<1>2. p \in Waiting
  BY DEF Waiting
<1>3. waitSend # 0
  BY <1>1, <1>2, FS_EmptySet DEF WaitSendCounts
<1>4. QED
  BY <1>3 DEF Take, SignalNotFull, Signal, IInv, TypeOK

(* No step leaves a poster asleep at an empty mailbox. *)
LEMMA PosterStep ==
    IInv /\ WaitSendCounts /\ PosterIsWoken /\ [Next]_vars => PosterIsWoken'
<1> SUFFICES ASSUME IInv, WaitSendCounts, PosterIsWoken, [Next]_vars,
                    NEW p \in Posters, pc'[p] = "wait", Empty'
             PROVE  \/ notFull' = 1
                    \/ \E q \in Posters :
                           pc'[q] = "relock" \/ (pc'[q] = "in" /\ op'[q] = "post")
  BY DEF PosterIsWoken
<1> USE MboxAssumption DEF IInv, TypeOK, Threads, ring, sems, GoTo, Signal, Acquired, Empty
<1>1. ASSUME NEW q \in Posters, Put(q) PROVE FALSE
  BY <1>1 DEF Put, FirstInFirstOut
<1>2. ASSUME NEW q \in Posters, PostFull(q) \/ TryPostFull(q) PROVE FALSE
  BY <1>2 DEF PostFull, TryPostFull, Full
<1>3. ASSUME NEW q \in Posters, WaitNotFull(q) PROVE pc'[q] = "relock"
  BY <1>3 DEF WaitNotFull
<1>4. ASSUME NEW q \in Posters, RelockPoster(q)
      PROVE  pc'[q] = "in" /\ op'[q] = "post"
  BY <1>4 DEF RelockPoster, WaitSendCounts, Waiting
<1>5. ASSUME NEW f \in Fetchers, Take(f) PROVE notFull' = 1
  <2>1. pc[p] = "wait"
    BY <1>5 DEF Take
  <2>2. QED
    BY <1>5, <2>1, TakeSignals
<1>6. ASSUME \/ \E q \in Posters, o \in PostOps, m \in Msgs : CallPost(q, o, m)
             \/ \E t \in Threads : Lock(t)
             \/ \E f \in Fetchers :
                    \/ \E o \in FetchOps : CallFetch(f, o)
                    \/ TryFetchEmpty(f) \/ FetchEmpty(f) \/ WaitNotEmpty(f)
                    \/ FetchTimeout(f)
             \/ UNCHANGED vars
      PROVE  \/ notFull' = 1
             \/ \E q \in Posters :
                    pc'[q] = "relock" \/ (pc'[q] = "in" /\ op'[q] = "post")
  <2>1. pc[p] = "wait" /\ Empty /\ notFull' = notFull
    BY <1>6 DEF CallPost, Lock, CallFetch, TryFetchEmpty, FetchEmpty, WaitNotEmpty,
       FetchTimeout, vars
  <2>2. ASSUME NEW q \in Posters, pc[q] = "relock" \/ (pc[q] = "in" /\ op[q] = "post")
        PROVE  pc'[q] = pc[q] /\ op'[q] = op[q]
    BY <1>6, <2>2 DEF CallPost, Lock, CallFetch, TryFetchEmpty, FetchEmpty, WaitNotEmpty,
       FetchTimeout, vars
  <2>3. QED
    BY <2>1, <2>2 DEF PosterIsWoken
<1>7. QED
  BY <1>1, <1>2, <1>3, <1>4, <1>5, <1>6 DEF Next, Post, Fetch

(***************************************************************************)
(* Although not_full forgets a signal that follows another, sys_mbox_post  *)
(* never sleeps at an empty mailbox unless a wake-up is on its way.        *)
(***************************************************************************)
THEOREM PostersAreWoken == Spec => []PosterIsWoken
<1>1. Init => WaitSendCounts /\ PosterIsWoken
  <2> SUFFICES ASSUME Init PROVE WaitSendCounts /\ PosterIsWoken
    OBVIOUS
  <2>1. Waiting = {}
    BY DEF Init, Waiting, Threads
  <2>2. WaitSendCounts
    BY <2>1, FS_EmptySet DEF Init, WaitSendCounts
  <2>3. PosterIsWoken
    BY DEF Init, PosterIsWoken, Threads
  <2>4. QED
    BY <2>2, <2>3
<1>2. QED
  BY <1>1, WaitSendStep, PosterStep, Invariance, PTL DEF Spec

(* No step leaves the only fetcher asleep at a message. *)
LEMMA FetcherStep == IInv /\ FetcherIsWoken /\ [Next]_vars => FetcherIsWoken'
<1> SUFFICES ASSUME IInv, FetcherIsWoken, [Next]_vars, \A f, g \in Fetchers : f = g,
                    NEW f \in Fetchers, pc'[f] = "wait", ~ Empty'
             PROVE  notEmpty' = 1
  BY DEF FetcherIsWoken
<1> USE MboxAssumption DEF IInv, TypeOK, Threads, ring, sems, GoTo, Signal, Acquired, Empty
<1>1. ASSUME NEW p \in Posters, Put(p) PROVE notEmpty' = 1
  BY <1>1 DEF Put, SignalNotEmpty, FetcherIsWoken
<1>2. ASSUME NEW p \in Posters,
             \/ \E o \in PostOps, m \in Msgs : CallPost(p, o, m)
             \/ Lock(p) \/ TryPostFull(p) \/ PostFull(p) \/ WaitNotFull(p)
             \/ RelockPoster(p)
      PROVE  notEmpty' = 1
  BY <1>2 DEF CallPost, Lock, TryPostFull, PostFull, WaitNotFull, RelockPoster, FetcherIsWoken
<1>3. ASSUME Fetch(f) PROVE notEmpty' = 1
  BY <1>3 DEF Fetch, CallFetch, Lock, TryFetchEmpty, FetchEmpty, WaitNotEmpty, FetchTimeout,
     Take, FetcherIsWoken
<1>4. CASE UNCHANGED vars
  BY <1>4 DEF vars, FetcherIsWoken
<1>5. QED
  BY <1>1, <1>2, <1>3, <1>4 DEF Next, Post

(***************************************************************************)
(* A mailbox with one fetching thread needs no other signal of not_empty   *)
(* than the one for its first message.                                     *)
(***************************************************************************)
THEOREM OnlyFetcherIsWoken == Spec => []FetcherIsWoken
<1>1. Init => FetcherIsWoken
  BY DEF Init, FetcherIsWoken, Empty
<1>2. QED
  BY <1>1, FetcherStep, Invariance, PTL DEF Spec
=============================================================================
