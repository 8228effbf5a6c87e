------------------------------ MODULE SysMbox ------------------------------
(***************************************************************************)
(* lwip_lib/src/sys_arch.c: the mailbox through which threads hand         *)
(* messages to the thread of the stack, a ring of SYS_MBOX_SIZE slots with *)
(* three semaphores.  (lwipopts.h selects NO_SYS, so the library that the  *)
(* emulation loads leaves the mailbox out; a build with an operating       *)
(* system has it.)                                                         *)
(*                                                                         *)
(* A sys_sem is binary: sys_sem_signal sets c to 1 whatever it was, and    *)
(* wakes every waiter, of which one takes it back to 0.  What a thread     *)
(* does while it holds the semaphore "mutex" is one step, which ends with  *)
(* the release.                                                            *)
(*                                                                         *)
(* A definition named X_Something is X with a plausible mistake; nothing   *)
(* uses it, it shows that the properties would notice that mistake.        *)
(***************************************************************************)
EXTENDS Integers, Sequences, FiniteSets

CONSTANTS
    Posters,    \* the threads that post
    Fetchers,   \* the threads that fetch
    PostOps,    \* the calls they make: "post" and "trypost",
    FetchOps,   \* "fetch", "timedfetch" (a timeout # 0) and "tryfetch"
    Msgs,       \* the messages
    NoMsg,      \* the content of a slot that was never written
    Size,       \* SYS_MBOX_SIZE
    MaxPosts    \* bound: the number of messages posted

ASSUME MboxAssumption ==
    /\ IsFiniteSet(Posters)
    /\ Posters \cap Fetchers = {}
    /\ PostOps \subseteq {"post", "trypost"}
    /\ FetchOps \subseteq {"fetch", "timedfetch", "tryfetch"}
    /\ NoMsg \notin Msgs
    /\ Size \in Nat /\ Size >= 2
    /\ MaxPosts \in Nat

VARIABLES
    first,     \* mbox->first, the number of messages fetched
    last,      \* mbox->last, the number of messages put
    msgs,      \* mbox->msgs
    notEmpty,  \* mbox->not_empty->c
    notFull,   \* mbox->not_full->c
    mutex,     \* mbox->mutex->c
    waitSend,  \* mbox->wait_send
    pc,        \* where every thread is
    op,        \* the call it is in
    msg,       \* the message a poster posts
    put,       \* history: the messages put in the mailbox
    got        \* history: the messages fetched from it

ring == <<first, last, msgs>>
sems == <<notEmpty, notFull, mutex>>
vars == <<ring, sems, waitSend, pc, op, msg, put, got>>

Threads == Posters \cup Fetchers

TypeOK ==
    /\ first \in Nat
    /\ last \in Nat
    /\ msgs \in [0 .. Size - 1 -> Msgs \cup {NoMsg}]
    /\ notEmpty \in {0, 1}
    /\ notFull \in {0, 1}
    /\ mutex \in {0, 1}
    /\ waitSend \in Int
    /\ pc \in [Threads -> {"idle", "lock", "in", "wait", "relock"}]
    /\ op \in [Threads -> {"none"} \cup PostOps \cup FetchOps]
    /\ msg \in [Posters -> Msgs \cup {NoMsg}]
    /\ put \in Seq(Msgs)
    /\ got \in Seq(Msgs \cup {NoMsg})

(* What sys_sem_signal makes of c, and sys_arch_sem_wait. *)
Signal_Counting(c) == c + 1
Signal(c) == IF c + 1 > 1 THEN 1 ELSE c + 1
Acquired(c) == c - 1

(* sys_mbox_new *)
Init ==
    /\ first = 0
    /\ last = 0
    /\ msgs = [i \in 0 .. Size - 1 |-> NoMsg]
    /\ notEmpty = 0
    /\ notFull = 0
    /\ mutex = 1
    /\ waitSend = 0
    /\ pc = [t \in Threads |-> "idle"]
    /\ op = [t \in Threads |-> "none"]
    /\ msg = [p \in Posters |-> NoMsg]
    /\ put = <<>>
    /\ got = <<>>

(* The index of message k in msgs. *)
Slot(k) == k % Size

GoTo(t, place) == pc' = [pc EXCEPT ![t] = place]

Full_OffByOne == last >= first + Size + 1
Full == last + 1 >= first + Size
Empty == first = last

(* sys_arch_sem_wait(&mbox->mutex, 0), unless a poster waited for space. *)
Lock(t) ==
    /\ pc[t] = "lock"
    /\ mutex > 0
    /\ mutex' = Acquired(mutex)
    /\ GoTo(t, "in")
    /\ UNCHANGED <<ring, notEmpty, notFull, waitSend, op, msg, put, got>>

-----------------------------------------------------------------------------
(* sys_mbox_post and sys_mbox_trypost                                      *)

CallPost(p, o, m) ==
    /\ pc[p] = "idle"
    /\ op' = [op EXCEPT ![p] = o]
    /\ msg' = [msg EXCEPT ![p] = m]
    /\ GoTo(p, "lock")
    /\ UNCHANGED <<ring, sems, waitSend, put, got>>

(* ERR_MEM *)
TryPostFull(p) ==
    /\ pc[p] = "in"
    /\ op[p] = "trypost"
    /\ Full
    /\ mutex' = Signal(mutex)
    /\ GoTo(p, "idle")
    /\ UNCHANGED <<ring, notEmpty, notFull, waitSend, op, msg, put, got>>

PostFull(p) ==
    /\ pc[p] = "in"
    /\ op[p] = "post"
    /\ Full
    /\ waitSend' = waitSend + 1
    /\ mutex' = Signal(mutex)
    /\ GoTo(p, "wait")
    /\ UNCHANGED <<ring, notEmpty, notFull, op, msg, put, got>>

WaitNotFull(p) ==
    /\ pc[p] = "wait"
    /\ notFull > 0
    /\ notFull' = Acquired(notFull)
    /\ GoTo(p, "relock")
    /\ UNCHANGED <<ring, notEmpty, mutex, waitSend, op, msg, put, got>>

RelockPoster(p) ==
    /\ pc[p] = "relock"
    /\ mutex > 0
    /\ mutex' = Acquired(mutex)
    /\ waitSend' = waitSend - 1
    /\ GoTo(p, "in")
    /\ UNCHANGED <<ring, notEmpty, notFull, op, msg, put, got>>

SignalNotEmpty_WhenSecond == last = first + 1
SignalNotEmpty == Empty

Put(p) ==
    /\ pc[p] = "in"
    /\ ~ Full
    /\ msgs' = [msgs EXCEPT ![Slot(last)] = msg[p]]
    /\ last' = last + 1
    /\ notEmpty' = IF SignalNotEmpty THEN Signal(notEmpty) ELSE notEmpty
    /\ mutex' = Signal(mutex)
    /\ put' = Append(put, msg[p])
    /\ GoTo(p, "idle")
    /\ UNCHANGED <<first, notFull, waitSend, op, msg, got>>

-----------------------------------------------------------------------------
(* sys_arch_mbox_fetch and sys_arch_mbox_tryfetch                          *)

CallFetch(f, o) ==
    /\ pc[f] = "idle"
    /\ op' = [op EXCEPT ![f] = o]
    /\ GoTo(f, "lock")
    /\ UNCHANGED <<ring, sems, waitSend, msg, put, got>>

(* SYS_MBOX_EMPTY *)
TryFetchEmpty(f) ==
    /\ pc[f] = "in"
    /\ op[f] = "tryfetch"
    /\ Empty
    /\ mutex' = Signal(mutex)
    /\ GoTo(f, "idle")
    /\ UNCHANGED <<ring, notEmpty, notFull, waitSend, op, msg, put, got>>

FetchEmpty(f) ==
    /\ pc[f] = "in"
    /\ op[f] \in {"fetch", "timedfetch"}
    /\ Empty
    /\ mutex' = Signal(mutex)
    /\ GoTo(f, "wait")
    /\ UNCHANGED <<ring, notEmpty, notFull, waitSend, op, msg, put, got>>

WaitNotEmpty(f) ==
    /\ pc[f] = "wait"
    /\ notEmpty > 0
    /\ notEmpty' = Acquired(notEmpty)
    /\ GoTo(f, "lock")
    /\ UNCHANGED <<ring, notFull, mutex, waitSend, op, msg, put, got>>

(* SYS_ARCH_TIMEOUT; cond_wait does not look at c when the time is over. *)
FetchTimeout(f) ==
    /\ pc[f] = "wait"
    /\ op[f] = "timedfetch"
    /\ GoTo(f, "idle")
    /\ UNCHANGED <<ring, sems, waitSend, op, msg, put, got>>

SignalNotFull_WhenAlone == waitSend = 1
SignalNotFull == waitSend # 0

Take(f) ==
    /\ pc[f] = "in"
    /\ ~ Empty
    /\ got' = Append(got, msgs[Slot(first)])
    /\ first' = first + 1
    /\ notFull' = IF SignalNotFull THEN Signal(notFull) ELSE notFull
    /\ mutex' = Signal(mutex)
    /\ GoTo(f, "idle")
    /\ UNCHANGED <<last, msgs, notEmpty, waitSend, op, msg, put>>

-----------------------------------------------------------------------------
(* The bound on the posts: those put, and those still in a call. *)
MayPost == Len(put) < MaxPosts

Post(p) ==
    \/ Lock(p) \/ TryPostFull(p) \/ PostFull(p) \/ WaitNotFull(p)
    \/ RelockPoster(p) \/ Put(p)

Fetch(f) ==
    \/ \E o \in FetchOps : CallFetch(f, o)
    \/ Lock(f) \/ TryFetchEmpty(f) \/ FetchEmpty(f) \/ WaitNotEmpty(f)
    \/ FetchTimeout(f) \/ Take(f)

Next ==
    \/ \E p \in Posters :
           \/ \E o \in PostOps, m \in Msgs : MayPost /\ CallPost(p, o, m)
           \/ Post(p)
    \/ \E f \in Fetchers : Fetch(f)

Spec == Init /\ [][Next]_vars

(***************************************************************************)
(* The threads are scheduled fairly and a fetcher calls fetch again and    *)
(* again, as the thread of the stack does.  Nobody has to post.            *)
(***************************************************************************)
FairSpec ==
    /\ Spec
    /\ \A p \in Posters : WF_vars(Post(p))
    /\ \A f \in Fetchers : WF_vars(Fetch(f))

-----------------------------------------------------------------------------
(* Properties.                                                             *)

(***************************************************************************)
(* The mailbox is a queue for any number of threads: the messages fetched  *)
(* are those that were put, in their order, each once, and the ring still  *)
(* holds all the others, none overwritten while first and last run on.     *)
(***************************************************************************)
FirstInFirstOut ==
    /\ Len(put) = last
    /\ Len(got) = first
    /\ first <= last
    /\ last < first + Size
    /\ \A k \in 1 .. first : got[k] = put[k]
    /\ \A k \in first .. last - 1 : msgs[Slot(k)] = put[k + 1]

(***************************************************************************)
(* not_empty is signalled for the first message only.  That is enough when *)
(* one thread fetches: while it sleeps and there is a message, the         *)
(* semaphore is up.                                                        *)
(***************************************************************************)
FetcherIsWoken ==
    (\A f, g \in Fetchers : f = g) =>
        \A f \in Fetchers : pc[f] = "wait" /\ ~ Empty => notEmpty = 1

(***************************************************************************)
(* not_full is binary, so of two fetches one signal may be lost.  Posters  *)
(* still never sleep at an empty mailbox for nothing: the semaphore is up, *)
(* or a poster that took it is on its way to put a message.                *)
(***************************************************************************)
PosterIsWoken ==
    \A p \in Posters :
        pc[p] = "wait" /\ Empty =>
            \/ notFull = 1
            \/ \E q \in Posters : pc[q] = "relock" \/ (pc[q] = "in" /\ op[q] = "post")

(***************************************************************************)
(* A thread is in a call that may end without a message: trypost, tryfetch *)
(* or a timed fetch.  Made again and again, such calls may take the        *)
(* semaphore "mutex" ahead of another thread each time; for a timed fetch  *)
(* that means timeouts shorter than the other thread waits to be scheduled,*)
(* of which the model knows nothing.                                       *)
(***************************************************************************)
Polling ==
    \E t \in Threads :
        pc[t] # "idle" /\ op[t] \in {"trypost", "tryfetch", "timedfetch"}

Posting(p) == pc[p] # "idle" /\ op[p] = "post"

(***************************************************************************)
(* With one fetcher, however blocking, trying and timed calls, posts that  *)
(* wait for space, lost signals and signals left behind by a timeout       *)
(* interleave, and provided that the threads do not poll for ever: posting *)
(* never comes to a stop with a blocking post under way.  Again and again  *)
(* no thread is in one, or else messages are put without end.  So every    *)
(* post of finite traffic returns.  That each single post returns in any   *)
(* traffic is not claimed: sys_mbox_post takes its semaphores in no order, *)
(* and of two posters that never cease one may be overtaken for ever.      *)
(***************************************************************************)
PostsGoOn ==
    <>[](~ Polling) =>
        \/ []<>(\A p \in Posters : ~ Posting(p))
        \/ []<><<last' # last>>_vars

(***************************************************************************)
(* Under the same proviso one fetcher gets every message that was put in   *)
(* the mailbox, although not_empty is signalled for the first one only.    *)
(***************************************************************************)
EveryMessageArrives ==
    <>[](~ Polling) =>
        \A k \in 1 .. MaxPosts : (Len(put) >= k) ~> (Len(got) >= k)
=============================================================================
