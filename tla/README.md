# A verification of py-lwip

py-lwip wraps the lwIP network stack with `ctypes` and runs several instances of
it, the *hosts*, on an emulated Ethernet. This directory holds TLA+ models of
the parts that have state of their own, the TLC configurations that check them on
small instances, and proofs, checked by TLAPS, of the theorems that matter most.

    tlc -workers 2 -config MCExecutor.cfg MCExecutor            # a run
    tlapm SingleThreadExecutor_proofs.tla                       # the proofs

`PROJECT.json` lists every run, the line range each definition stands for, the
hazards and the findings. A definition named `X_Something` is `X` with a plausible
mistake; nothing uses it. It is there to show that the property it belongs to
would notice the mistake.

## 1. Inventory

| component | state | operations | talks to |
|---|---|---|---|
| `TaskQueue` (`utility/scheduler.py`) | a heap of `(abs_time, priority, task)` | `schedule_task`, `pop_tasks_till_timestamp`, `get_time_till_next_task`, `empty`, `get_tasks` | `heapq` |
| `SingleThreadExecutor` (same file) | `_status`, `_tasks_to_finish`, the queue, a condition, one worker thread | `run`, `schedule_delayed`, `stop`; `Future.cancel` of its futures | called by every thread |
| `EthernetBus` (`emulation/`) | the interfaces, filters, observers, an executor and its thread | `broadcast`, `_broadcast`, `start`, `stop`, `add_*` | the interfaces send to it, it calls the hosts |
| `Host` | a stack, an executor and its thread | `set_up_interfaces`, `on_incoming_data`, `execute`, `start`, `stop` | its interfaces, the library |
| `EthernetNetwork` | the bus, the hosts | `start`, `set_up_interfaces`, `stop`, `add_host` | bus, then hosts, in this order |
| `NetIf` (`stack/`) | the `netif` of the library, the callbacks | `input_data`, `_link_output_wrapper`, `set_up`, `set_link_up` | bus and library |
| `UdpSocket` | `_pcb`, `_internal_callback`, `_rx_callback` | `bind`, `send_to`, `set_recv_callback`, `_recv_callback` | library, `Allocator`, user code |
| `Allocator` | the heap and the buffer pool of the library | `allocate_*`, `free_pbuf` | library |
| `PingClient`, `ping_result.c` | `_ping_callback`, the static `ping_cbk` | `ping`, `_ping_callback_internal`, `set_ping_callback`, `ping_result` | library, user code |
| `examples.py` | an application per peer, its completion event | `start`, `_receive_data`, `_send_ping`, `ping`, `_run_example` | `EthernetNetwork`, sockets and ping clients |
| `sys_arch.c` (`lwip_lib/`) | semaphores, mailboxes, mutexes | post, trypost, fetch, tryfetch, signal, wait | threads of the stack |

The hard behaviours: clients and the worker of an executor share state, partly
without the lock; the bus and the hosts schedule tasks in each other's executors
while the main thread starts and stops them in turn; a callback that raises
ends what called it; the library keeps bare pointers to Python thunks and never
takes back what it gave out; the mailbox has binary semaphores that lose signals.

What makes each component correct:

* executor: no wake-up is missed, no accepted task is lost or started early or
  out of order, a future is settled once, `stop` ends the loop, and
  `stop(sync=True)` finishes what was scheduled;
* task queue: it is a priority queue, whatever the order of pushes and pops;
* network: an interface sees what the bus forwarded, in order, all of it, once;
  the program comes to its end;
* the example programs: the exchange completes, and `stop()` comes after it;
* stack wrappers: buffers come back, callbacks are alive when called and belong
  to the call they were given to;
* mailbox: first in, first out, and nobody sleeps for nothing.

## 2. The modules

| module | models | checked by | proofs |
|---|---|---|---|
| `SingleThreadExecutor` | `SingleThreadExecutor`, `Future`, `ScopedUnlocker` | `MCExecutor` | `SingleThreadExecutor_proofs` |
| `DelayedCalls` | what the executor promises the owners of its futures | refined by `SingleThreadExecutor` | the refinement is proved |
| `PriorityQueue` | what `TaskQueue` promises | refined by `TaskQueue` | the refinement is proved |
| `TaskQueue` | `TaskQueue` and the sifting of `heapq` | `MCTaskQueue` | `TaskQueue_proofs` |
| `EthernetNetwork` | bus, hosts, interfaces, main thread | `MCNetwork` | `EthernetNetwork_proofs`, `NetworkDelivery_proofs` |
| `PingPong` | `examples.py`, on top of `EthernetNetwork` | `MCPingPong` | `PingPong_proofs` |
| `HostStack` | sockets, allocator, ping clients of one host | `MCHostStack` | `HostStack_proofs` |
| `Filtering` | selection from a sequence, a helper | with its users | `Filtering_proofs` |
| `SysMbox` | mailboxes and their semaphores | `MCSysMbox` | `SysMbox_proofs` |

**SingleThreadExecutor.** A step is what one thread does between two points at
which another can interfere. `pc` is the place of the worker: `check` (a turn of
`_wait_for_task_to_process` begins), `waiting` (in `condition.wait`), `next` ..
`store` (processing `expired_tasks` with the lock released), `ended`, and `died`
(an action raised something that `except Exception` lets pass). `stop()` is two
steps, `StopCount` and `StopStatus`, with the mutex held between them, because
`_process_task` reads `_status` and decrements `_tasks_to_finish` without the
lock; the decrement is a load and a store. `who = "worker"` is a `stop()` called
from a task. `run()` is entered once, as `Host` and `EthernetBus` do. Two history
variables record what the last `stop(sync=True)` undertook.

**DelayedCalls** is the executor as a user sees it: no queue, lock, condition or
count, only futures. A call is accepted or refused; the calls that are due are
taken up together, a *turn*, and begun one at a time in the order of
`(abs_time, priority)`; one cancelled in time is passed over; the work ends
between turns, or by an action that kills the thread. In the refinement mapping
`turn` is `expired`, `open` is `_status = Running`, and `worker` is `pc` without
its places; that the queue need not be mapped rests on `NoTaskLost`.

**TaskQueue** keeps the list that `heapq` keeps and sifts it as the C
implementation does, with in-place swaps, so that a comparison that raises
`TypeError` leaves all the entries in the list. Tasks with equal `abs_time` and
`priority` are compared by action and arguments, which have an order only for
tasks in `Comparable`. A loop of the code is `Repeat(step, s, n)`: the function
that is one turn, applied as often as the loop can turn; a turn after the loop's
exit changes nothing. **PriorityQueue** is what the executor relies on: a set
of tasks; a pop removes the tasks due and returns them sorted; with a tie of
incomparable tasks a pop may raise and lose what it had popped.
`SingleThreadExecutor` uses the queue in the abstract form and assumes that no
two queued tasks tie (`DistinctKey`).

**EthernetNetwork** has one executor per host and one for the bus, at a coarser
grain than `SingleThreadExecutor`: `stop()` and the `finally` of a task are one
step each. All its tasks have delay 0 and the same priority, so that a queue is a
sequence. (`host.execute` with a delay is left to the executor's module.) A task
carries the thread that waits for its future; `answered` are the threads whose
future has its result. The main thread is the program that examples and test
share: `start`, `set_up_interfaces`, `stop`. A user task of `host.execute` may
send, and may call `set_up_interfaces` of any host, its own included: with
`sync=True` its thread is `blocked` until the task has run. lwIP is external: it
announces an interface that is set up for the first time, and may answer what it
receives. Observers and filters do not raise.

**PingPong** extends it with `examples.py`. Between `set_up_interfaces` and
`stop` the main thread schedules `start` of the first peer and
`start_and_send_ping` of the second, awaits both futures and then the completion
events; in the other scenario the first peer pings the second. A datagram is a
frame with a counter. `_receive_data` runs inside the input of a frame and
schedules the answer as a task of its own host. `send_to` takes a buffer of the
heap and never frees it. Address resolution is left out; a datagram that lwIP
holds back until it has the address arrives later, as in a slow bus. `AppSpec` is
the specification that the proofs are about; the run checks `AppFairSpec`, which
adds the fairness of the threads.

**HostStack** covers one library instance. Everything runs in the thread of the
host, so a call is one step, but the library calls user code back in the middle
of an input, and that code may call anything before it returns. A thunk is named
by the pcb it was made for. `live` are the sockets and clients that Python has not
freed: a socket (or a client) and its thunk refer to each other, neither `Stack` nor
the library refers to them in a way that Python sees, and nothing calls
`udp_remove`. So once user code lets go of one, `Collect` frees it at any time at
which none of its methods runs, also while the library handles a datagram, since
`ctypes` releases the lock of the interpreter and the collector runs in whichever
thread allocates. User code that has let go and is not yet collected is user code
that makes no more calls. The pcb, or `ping_cbk`, then points to a freed thunk, and
`StrayCallback` or `StrayResult` is the call of it, after which nothing is claimed.
A thunk that is replaced while it runs (a `bind` or `ping` in its own callback) is
taken to return all the same. A call that raises without changing anything
(`.contents` of a NULL pointer) is no step. `part` is what the user callback got
of a datagram and what there was of it, in buffers.

**SysMbox** translates the mailbox of `sys_arch.c` with its three semaphores.
`lwipopts.h` sets `NO_SYS` to 1, so the default build of the library leaves
this code out; it belongs to a build with an operating system.

## 3. The runs

| run | instance | states | shows |
|---|---|---|---|
| `executor` | 2 tasks, delays 0-1, 2 priorities, 2 stops, time to 2 | 345 k | all properties of the executor, safety, refinement and liveness |
| `executor_lost_stop` | 1 task, 1 stop | | violation, finding 1 |
| `executor_sync_stop` | 2 tasks, 1 stop | | violation, finding 2 |
| `taskqueue_order` | 5 tasks, 3 times, 2 priorities, ties | 0.3 M | the heap is a priority queue |
| `taskqueue_tie_raises` | 2 tasks | | violation, finding 3 |
| `network_delivery` | 2 hosts, 2 interfaces, 1 answer or call | 471 k | order, completeness, synchronous set-up, the end |
| `network_test_observer` | 1 host, 1 interface, as in the test | | violation, finding 4 |
| `network_abort` | 3 hosts | | violation, finding 5 |
| `ping_pong` | the example's own network and 10 datagrams; heaps of 4 and 5 | 96 k | the exchange alternates, ends, and precedes `stop` |
| `host_stack` | 2 sockets, 2 clients, 3 pcbs, 3 pings | 3.0 M | buffers, thunks, lifetimes, ping results |
| `host_stack_chain` | 1 socket, 2 buffers | | violation, finding 6 |
| `mailbox` | 2 posters, 1 fetcher, 3 slots, 4 messages | 366 k | FIFO, nobody sleeps for nothing, posting goes on, every message arrives |

*Executor.* `NoLostWakeup`: while the worker sleeps it has no reason to stop and
its timeout is no later than the first deadline. `NoTaskLost`: an accepted task is
queued or popped until it is settled, never both. `BatchPrecedesQueue` and
`StartsInOrder`: the popped tasks are due, come before all that is queued and
start in the order of `(abs_time, priority)`. `FutureSettlesOnce`.
`IdleSyncStopFinishesTasks`: a `stop(sync=True)` made while no popped task is in
progress keeps its word. `ImplementsDelayedCalls` is the refinement. Two tasks
give a batch of two as well as a task scheduled while another is in progress, and
two stops a stop that overtakes the count of an earlier one; three tasks and more
are covered by the proofs.

*Liveness of the executor.* Once `run()` is entered every stop ends the loop
(`StopEndsRunningLoop`), also when counted tasks are cancelled and so never
decrement the count: the test for an empty queue saves it. An executor nobody
stops runs what it accepted (`AcceptedTaskRuns`).

*Task queue.* `ImplementsPriorityQueue` is a refinement, `Abstract!Spec` with
`entries <- Range(heap)`; five entries make a heap of three levels, in which both
siftings take more than one step. `HeadIsEarliest` also after a push that raised;
`PushKeepsEntries`: such a push has stored its task all the same.

*Network.* `ReceiversFollowTheBus` and `NothingIsMissing` compare what lwIP got
with what the observers saw. A frame lost because the bus raised `Stopped` was
never seen by the bus and is not claimed. `ProgramEnds` excludes the lost stop of
finding 1 (`early`), and `raised` is an end: `Stopped` reached the caller, and
the threads of the bus and of the hosts, which are no daemons, run on. It
also excludes `Stuck`: hosts that wait, with `set_up_interfaces(sync=True)` in
their own threads, for themselves, for each other, or for a task that the
`stop()` of another host dropped (finding 2). The run reaches the first and the
last of these; a cycle of two hosts needs two calls of `execute`, which is beyond
its bound. So these are the only ways in which `task.result()` hangs the program.

*Example.* `DatagramsTakeTurns`: at most one datagram is under way, and each peer
takes the other's in order, once. `StopFollowsExchange`: when `stop()` is called
nothing is under way that it could drop, although the first peer sets its event
before it has sent the last datagram. `ExchangeEnds`: the program ends if the
heap of each peer holds half of the datagrams, unless a peer sent before the bus
thread had entered `run()` (`lost`; the start-up race of finding 4).
`LeakStopsExchange` is the converse: with a heap that is too small, since
`send_to` frees nothing, the main thread never gets to `stop()`. The heap of
`lwipopts.h` (1600 bytes) holds enough for the ten datagrams of the example.

*Stack.* `PoolIsWhole`, `ServiceIsKept` (neither a failing `bind` nor the end of
another socket costs a port its service), `LatestPingIsArmed`,
`ResultGoesToLatestPing`. `StrayHasCause` says what user code has to do to be safe
from calls of freed thunks: keep every socket it has bound, bind it once, and keep
a ping client until its result has come; `_ping_callback_internal` resets
`ping_cbk`, so that a client may be dropped from then on. All three are real ways to
a crash that the code does not prevent.
Three pcbs for two sockets let a socket bind twice and the pcbs run out.

*Mailbox.* `FirstInFirstOut`, `PosterIsWoken`, `FetcherIsWoken` (for one
fetcher, which the stack has), and two liveness properties. `PostsGoOn`: posting
never comes to a stop with a blocking post under way. It is progress of the posters
together, and does not rest on the bound of four messages: a stop would show within
it. That every single post returns holds for finite traffic only. Two posters that
post without end take `not_full` and `mutex` in no particular order, and one of them
may be overtaken for ever. `EveryMessageArrives`: the fetcher gets what was put.
Two usable slots and two posters make the lost signals happen: two fetches in a row
signal `not_full` once. Several fetchers are covered by the proofs.

Symmetry is used only where no liveness is checked. Deadlock is not checked in
these runs: all the instances come to rest when their bounds are reached, and
a stopped executor, a finished program and an idle mailbox are meant to rest.

### Fairness

* executor: weak fairness of the worker, of entering `run()`, of a `stop()` that
  has begun, and of the clock: started threads are scheduled by the operating
  system, actions return. Nobody has to schedule, cancel or stop.
* network: weak fairness of the main thread and of each worker, nothing else.
* example: as for the network.
* mailbox: weak fairness of every thread inside a call; the fetcher fetches again
  and again, as the thread of the stack does. The two liveness properties are
  claimed for behaviours in which from some time on no thread is in a `trypost`, a
  `tryfetch` or a timed fetch (`Polling`): a thread that makes such calls for ever
  could starve the others of `mutex`, for which POSIX gives no guarantee. A timed
  fetch does block, but the model does not know how long a timeout is compared to
  the time another thread needs to be scheduled.

## 4. Findings

1. `executor_lost_stop`: `run()` sets `_status` unconditionally; a `stop()`
   between `Thread.start()` and `run()` is forgotten and `join()` hangs.
2. `executor_sync_stop`: a task popped before `stop(sync=True)` decrements a count
   it is not part of, and a queued task is dropped, its future pending for ever.
3. `taskqueue_tie_raises`: equal time and priority raise `TypeError`.
4. `network_test_observer`: `start()` returns before the executors run; frames
   sent then are lost, and the assertion of the repository's test fails.
5. `network_abort`: one host that is not running ends the broadcast for the
   interfaces after it.
6. `host_stack_chain`: `_recv_callback` copies `pbuf.contents.len` bytes, the
   first buffer of a chain; the rest of a longer datagram is lost silently.
   (`NetIf._link_output_wrapper`, `stack/netif.py:332`, does the same to a frame
   that lwIP sends in several buffers.)

Two disagreements with docstrings were met without a run of their own: `bind` and
`send_to` raise `ValueError`, not the documented `AllocationError`, since
`.contents` of NULL raises before the test; and the callback of
`set_recv_callback` gets four arguments, not one tuple.

## 5. The proofs

All theorems hold for every value of the constants that satisfies the `ASSUME` of
the module:

* `ExecutorAssumption`: any finite set of tasks, any delays, priorities and clock
  bound;
* `TaskQueueAssumption`: any number of tasks, any times and priorities, any set
  of tasks that can be compared;
* `NetworkAssumption`: any network with at least one host (the main thread sets up
  hosts in turn; without one there is nothing to say), any number of interfaces on
  each, no host or interface added twice;
* `PeersAssumption`, in addition, for the example: two hosts with one interface
  each and no filter, as `_run_example` sets them up; any number of datagrams from
  one on, any sizes of the heap;
* `StackAssumption`: any sockets, ping clients, ports, pools and heaps;
* `MboxAssumption`: any finite set of posters, any fetchers, any
  `SYS_MBOX_SIZE >= 2` (with one slot the ring could never hold a message, since
  one slot stays unused).

**SingleThreadExecutor_proofs.** The inductive invariant is
`IInv == TypeOK /\ NoLostWakeup /\ NoTaskLost /\ BatchPrecedesQueue`. None of
the parts is inductive alone: `NoLostWakeup` needs the deadline of the head of the
queue (`NextDeadlineFirst`), and that the count of live tasks is a number;
`NoTaskLost` needs to know where the worker is when it forgets a task;
the order of a batch relative to later arrivals needs that its tasks are due.
`NextIInv` has one step per action. From it follow `TypeCorrectness`,
`WakeupIsNeverLost`, `AcceptedTaskIsHeld`, `BatchIsProcessedFirst`, the action
properties `TasksStartInOrder` and `FuturesSettleOnce`.
`IdleSyncStopKeepsItsWord` needs more: with `Owing` the promised tasks that are
unfinished or in `_process_task`, `DrainInv` says that while a quiet
`stop(sync=True)` is draining, `_tasks_to_finish` (minus the decrement in flight)
is at least the size of `Owing`. So the loop cannot end while a promised task is
left.

`ExecutorImplementsDelayedCalls` is the refinement for every value of the
constants: `InitIsAbstract`, and `StepIsAbstract` with one step per action, most
of them stutters of the abstract specification. `QueueIsWaiting`, a
consequence of `IInv`, says that between batches the queue is exactly the set of
calls that are accepted and not begun, which makes `PopExpired` a `TakeTurn`;
`BatchPrecedesQueue` makes the next task of the batch the abstract one, and the
end of the loop an end between turns.

**SysMbox_proofs.** `IInv == TypeOK /\ MutualExclusion /\ CallsAreCalls /\
FirstInFirstOut`. That the ring overwrites nothing rests on `SlotsDiffer`: two
numbers less than `Size` apart differ modulo `Size`. `PostersAreWoken` also needs
`WaitSendCounts`: `wait_send` is the number of posters that wait.
`OnlyFetcherIsWoken` is proved for any set of fetchers with one element.

**TaskQueue_proofs.** Every loop is a `Repeat`, and `RepeatInvariant` is its rule: a
family of sets, one per number of turns, that the first state enters and every turn
goes along, contains the state after the last turn. A family rather than a
predicate, because the induction theorems of the library with a predicate as a
parameter cannot be instantiated by the installed provers; the family also carries
the bound that makes the loop end (the place of the moved entry halves, or doubles,
or the list gets shorter).

For a push the family is `Rising`: the list is in heap order but for the
moved entry and its parent, and the entry's children do not come before its parent
(`Bridged`). For a pop it is `Sinking`: in order but for the moved entry and
its children. The order is on `(abs_time, priority)` only, so the list is in
order after a push that raised: a comparison raises when the keys are equal, where
no order is broken. A pop that raises is different: it leaves the entry from the
end of the list somewhere on the way down, and nothing is claimed of the order from
then on. So `IInv` is `TypeOK`, a key for every task, no entry twice in the list,
and heap order unless a pop has raised. From it `FirstEntryIsEarliest`
(`HeadIsEarliest`), `PushAlwaysStores` (`PushKeepsEntries`), and with `PopInv` (the
popped tasks are sorted, due, before all that is left, and nothing is lost)
`HeapImplementsPriorityQueue`, the refinement. That a call raises only where two
incomparable tasks tie (`Tied`), as `PriorityQueue` has it, is part of it.

**EthernetNetwork_proofs.** `ControlInv` is the types with where the threads can
be: a worker in the middle of a task has a task (`WorkerInv`), the loops of the main
thread stay in their sequences and start what is new (`MainInv`).
`SetUpReturnsWhenUp` (`SetUpIsSynchronous`) adds `SetUpInv`: a set-up in progress
has every interface of its host up or in `todo` (`SetUpProceeds`); of all the queues
and batches one host's holds at most one unfinished task of the main thread, and
only while that thread waits, unanswered, and that task is a set-up (`MainWaits`);
the hosts before the present one are up (`SetUpSoFar`). That there is at most one
such task is what makes the answer mean this host: the answer names a thread, not a
future.

**NetworkDelivery_proofs.** `BusKeepsTheOrder` (`ReceiversFollowTheBus`) and
`BusDeliversAll` (`NothingIsMissing`) follow from `DeliveryInv`. What an interface
got, followed by what waits for it in its host, is in the order of what the bus
forwarded, and is all of it but for the frame in progress unless a broadcast was
aborted. To be inductive this needs that a frame is forwarded once: the frames of a
sender carry the numbers from 1 on, without a gap, through the log of the bus and
the tasks it has yet to do (`Numbered`), and that the bus goes through each
interface once (`IsInjective(todo[Bus])`).

**PingPong_proofs.** The exchange is passed on like a token. An *item* is a task
that belongs to it: a call of an application, a broadcast or an input that is no
announcement. `ItemInv` says that there is at most one, in all queues, batches and
the broadcast in progress together (`Nowhere`, `At`, `Flying`), and what it is
(`Stage`): a `start` that the main thread awaits (`Starting`); the datagram with
the number `Counter`, one more than the peers have taken together, on its way from
`Sender` to `Recipient` and paid for by the sender's heap (`Exchanging`); the ping
or its answer (`Pinging`). Where there is none, `Resting` says how far the program
can be: an item is lost when the bus or a host does not run or the heap is full,
and then nothing follows. To be inductive this needs

* `TakenInv`: the first peer has taken as many datagrams as the second or one more,
  numbered by their turns; a heap has paid for what the other peer took; and how many
  a peer had taken when it set its event;
* `TodoInv`: a broadcast has one interface to call, the one that is not the
  sender's, so that the item is never doubled;
* `CallInv`: at most one unfinished task is the main thread's, so that when a
  `.result()` returns the `start` or `ping` it waited for has run;
* `StopInv`: once `stop()` is called, the awaited events are set;
* `ControlInv` of the network, which the steps of the applications keep.

`NextItem` has one lemma per step that passes the item on (`ItemTakesOff`,
`ItemLands`, `PeerStarts`, `PeerSends`, `PeerPings`, `PeerReceives`, `FirstCall`,
`SecondCall`, `CallEnds`); for all the others `ItemUndisturbed`. From `AppInv` follow
`AppTypeCorrectness`, `ExchangeTakesTurns` (`DatagramsTakeTurns`), `StopComesLast`
(`StopFollowsExchange`) and `LeakBlocksStop` (`LeakStopsExchange`). The last two
meet in `AllTaken`: with both events set the peers have taken all the datagrams,
although the events are set one datagram early, and so both heaps together had
room for them.

**Filtering_proofs.** The last two are about selections from sequences, so they need
what `Filter` selects when an element is appended or the first one removed, that
the selection is in order, and what it contains. `Filter` is a recursive function of
the length; the lemmas go by the least length at which they could fail
(`LeastNumber`), again because induction with a predicate is not to be had.

**HostStack_proofs.** `IInv == TypeOK /\ PoolHoldsTheChain /\ ThunksHaveOwners /\
StrayHasCause /\ LatestPingIsArmed /\ WaitingIsUncalled`. `PoolHoldsTheChain` is
`PoolIsWhole` also in the middle of an input: what is missing from the pool is the
datagram in progress. `ThunksHaveOwners`, that a registered thunk belongs to a pcb of
its socket, makes a dead thunk of a live socket one that a second `bind` replaced.
`WaitingIsUncalled`, that the callback of a ping waits in one client and has not
been called, and that the latest ping has had no result while `ping_cbk` is set, gives
the part of `StrayHasCause` about clients and `ResultsGoToLatestPing`.
`StrayNeedsCause` and `BindKeepsService` hold whenever the collector runs.

Model-checked only: the liveness properties, since fairness and `ENABLED` are out
of the prover's reach. Every invariant, action property and refinement that a
passing run checks is also proved.

## 6. What is not modelled

* lwIP and its ping application: an empty submodule. Where the models meet it,
  it does whatever the calls in the repository allow; these definitions are
  marked external.
* address conversions (`IpV4Addr`, `address_helpers`) and the bytes of payloads:
  pure data on which no control depends.
* `sys_arch_protect`, threads, mutexes, `sys_mbox_free`, `sio.c`, `perf.c`: the
  default build has `NO_SYS` set and leaves all of it out.
* the rest of `NetIf`, `Stack` and the library loading: one `ctypes` call per
  method, whose effect is inside lwIP. What `set_down`, `set_link_down` and a
  second `add` do to an interface is decided there, not in this repository.
* `EthernetRecorder`, the command line and the log of the examples: output.
* callbacks, filters, observers, interfaces and hosts changed after `start()`:
  the programs of the repository do it before. A host added later is never
  started, and `stop()` then raises when it joins its thread.
* `input_data` without a free buffer: `allocate_raw_pbuf` raises `ValueError` in a
  task whose future nobody reads, and the frame is lost. In `HostStack` this is no
  step, and by `PoolIsWhole` the pool is whole when the task starts; what lwIP itself
  holds back (reassembly, queued packets) is outside the repository.
  `EthernetNetwork` takes the buffer as given.
* the order of tasks that tie and can be compared: `TaskQueue` takes the order in
  which they were scheduled for that of action and arguments; no property depends
  on it.
* a worker killed by an action (`died`): the model has the step, and the properties
  of the executor except it, since nothing in the code revives or reports it.
* the overflow of `first` and `last` in the mailbox: 2^31 messages.

## 7. Plan

Done: the executor with its proofs and its refinement of `DelayedCalls`, the task
queue with its proofs and its refinement of `PriorityQueue`, the network with
blocking calls between hosts and the proofs of its safety properties, the example
programs with their proofs, the stack wrappers with their proofs, the mailbox with
its proofs. Left:

1. `sys_arch_protect` as a recursive lock whose owner is read without the lock,
   and `sys_mbox_free` racing a waiting thread;
2. `stop()` called from tasks and from callbacks.
