# TLA+ verification of the vehicle communication library

The repository is a communication library for autonomous vehicles. A vehicle is
one virtual machine with several processes (a gateway and its components), which
exchange Ethernet frames through shared memory, and with other vehicles and the
road-side units (RSU) through raw sockets. This directory models its concurrent
core in TLA+, checks the models with TLC and proves the main invariants with
TLAPS. Line numbers refer to the files under `src/`.

## 1. Inventory

Path of a frame: `Communicator::send` -> `Protocol::send` (every attached NIC:
`alloc`, fill, `send`, `free`) -> engine `_send` -> shared memory or wire ->
engine's receiving thread -> `NIC::_handle` (quadrant filter, buffer) ->
`Protocol::update` (port) -> `Communicator::update` (copy to a `Message`) ->
`ConcurrentObserver::update` (queue) -> consuming thread.

| Component | State | Operations | What is hard | What makes it correct |
|---|---|---|---|---|
| `ShmEngine`, `ShmChannel` | ring, `tail`, `heads[]`, `pids[]`; SysV semaphore; `_notify_sem`; `_idx`, `_running` | constructor (enrol), `_send`, signal handler, `_try_read`, destructor, `exit(1)` in `_sem_op` | processes and threads interleave on plain memory; signals coalesce and interrupt; processes join and leave | each reader takes each frame once, in order, intact; no wake-up or permit is lost; `_send` returns |
| `ConcurrentObserver`, `Endpoint`, `List`, `Semaphore` | queue, semaphore, heap of messages | `update`, `updated_for`, destructor | five critical sections for one logical operation; stop against arrival | queue and semaphore agree; one owner per message; `stop` returns |
| `Communicator`, `ConditionalObserved`, `Ordered_List` | list of observers | `subscribe`, `unsubscribe`, `notify` | iteration without the lock | no observer is used after it is destroyed |
| `NIC`, `Buffer`, `Protocol` | pool of buffers, `_pool_mutex`, `_owner` | `alloc`, `free`, `_handle`, `send`, `update` | `release` outside the mutex | a buffer is in one hand; buffers come back |
| `RawSocketEngine` | socket, `_notify_sem`, `_running` | constructor, `start`, `stop`, drain loop, SIGIO handler | signal against sleep, idempotent stop | no frame waits in the socket while the thread sleeps; `stop` returns |
| `TimeClient`, `RSU` | sequence number, clock, statistics | `syncTime`, `run`, RSU loop | loss, duplication, late answers, timeouts, change of quadrant | T1..T4 belong to one round and one RSU; the error of the clock is bounded by the duration of the round |
| `Position`, `kernel/position.c` | quadrant | timer, read | changes between two reads | only frames of the own quadrant are taken |
| `InterestedSmartData`, `ResponsiveSmartData`, `PeriodicThread` | active periods, last response time | `send_interest`, `send_response`, `run`, `stop` | retry after 2 s against clock steps; notification without the mutex | one periodic thread per period; an unanswered interest is repeated |
| `SmartData::Unit` | - | unit code, port | truncation to 16 bits | distinct units use distinct ports |
| `Gateway`, `Component`, `Vehicle`, the two `main`s | children, `g_stop`, the order of constructors and destructors | fork, alarm, SIGTERM, waitpid, power off | everyone waits for everyone; signals interrupt `semop` and `waitpid` | the shutdown completes, after the children |

Shared state: the segment and its semaphore between processes; within a process
the buffer pool (senders and receiving thread), the queues (receiving threads
and consumer) and the observer lists. Callbacks: `_handle` and `update` run on
the receiving thread, with `_pool_mutex` held.

## 2. Modules

| Module | Models |
|---|---|
| `ShmEngine` | `engine/shm_engine.hpp`, `utils/shm_channel.hpp` |
| `FrameBroadcast` | abstract: what the ring promises a process that reads |
| `MCShmEngine` | instances of `ShmEngine` for TLC (which thread lives in which process) |
| `ShmEngineProofs` | theorems about `ShmEngine` |
| `ShmBroadcastProofs` | theorem: `ShmEngine` implements `FrameBroadcast` |
| `ConcurrentObserver` | `observe/concurrent.hpp`, `observe/endpoint.hpp`, `utils/list.hpp`, `utils/semaphore.hpp`, `Communicator::update`, `notify`, the loops and `stop` of SmartData |
| `ConcurrentObserverProofs` | theorems about it |
| `BufferPool` | the pool of `nic/nic.hpp` with `utils/buffer.hpp`, `Protocol::send`, `update`, `free` |
| `BufferPoolProofs` | theorems about it |
| `RawSocketEngine` | `engine/raw_socket_engine.hpp` |
| `RawSocketEngineProofs` | theorem about it |
| `TimeSync` | `components/time_client.hpp`, `RSU.hpp`, `kernel/position.c`, the quadrant in `Protocol::send` and `verifica_quadrante`, the PTP dispatch of `Protocol::update` |
| `MCTimeSync` | its instance for TLC (stations, quadrants, clocks) |
| `TimeSyncProofs` | theorems about it |
| `SmartData` | `smart_data/*.hpp`, `utils/periodic_thread.hpp` |
| `MCSmartData` | its instance for TLC |
| `SmartDataProofs` | theorems about `SmartData` and `Units` |
| `Units` | the unit codes of `smart_data/smart_data.hpp`, their cast to a port, `utils/ports.hpp`, the dispatch of `Protocol::update` |
| `Vehicle` | `app/vehicle_main.cpp`, `vehicle.hpp`, `components/gateway.hpp`, `components/component.hpp` |
| `VehicleProofs` | theorems about it |

**ShmEngine.** One variable per field of the segment, per-thread and per-process
program counters, and for each process the pending SIGUSR1 and the value of
`_notify_sem`. One action per access to shared state: `tail++` is a load and a
store, the wait loop releases and takes the semaphore again without reading
`pids[i]` again, notification is one `kill` per entry. Signals are a bit per
process. `SemopInterrupted` is `exit(1)` after EINTR. The constructor and the
destructor are actions too, so processes enrol and leave while others are in the
middle of `_send`. The memory model is interleaving: the virtual machines run
with one processor. The `memcpy` of a slot is one step, which is enough because
the property about slots is whether a writer may touch one that a reader still
has to copy (`BroadcastSpec`), seen at the step that publishes.

**FrameBroadcast.** Frames 1, 2, 3, ... are published only when every registered
reader is less than `Capacity` behind, and each reader takes them in order.
`ShmEngine` refines it under `delivered <- got` for registered readers.

**ConcurrentObserver.** A message is a number, `heap` the set of live ones.
`life` follows subscribe, stop, unsubscribe and destructor. A dereference of a
freed node or observer goes to the state `"undefined"`.

**BufferPool.** `Scan` reads `is_free()` and the next step acts on it, so the
mutex matters; `release()` is two steps (state, then metadata) without it.
`owned` is `_owner`, which `_handle` never sets and `release` never clears.
`channel` follows the Protocol: the engine's thread runs before `attach_nic` and
after `detach_nic` too, and `notify` then calls nobody, so that no buffer is
released, with an owner or without.

**RawSocketEngine.** From `bind` to the end of `stop`. Frames are queued by the
kernel from `bind` on, while SIGIO is raised only once O_ASYNC is set; a pending
signal is a bit; the handler may run on the sleeping thread and end its
`sem_wait` with EINTR. `_drain` takes one frame per step, so frames, signals and
`stop` fall between any two. `DrainBreaks` is `recvfrom` that fails with another
error or returns 0; `broke` remembers it until a `_drain` ends with EAGAIN. The
handler is one step.

**TimeSync.** One action per message that `syncTime` sends or takes, per turn of
the RSU's loop, and per arrival at a NIC, where the quadrant is compared. Clocks
are integers that advance together (a round is too short for drift). The 32-bit
sequence number is the byte of the MAC and a counter modulo `SeqRange` (2^24).
A frame has one copy per station; which copies are lost is decided when it is
sent, the others take any time and any order. An answer is unicast in the code;
the model lets every vehicle see it, as on a flooded segment. The one assumption
on the network: a frame does not live for the 2^24 rounds (months) after which
its number comes back; it is the second conjunct of `Begin`. `round`, `moved` and
`synced` are history that no code reads. The division and the remainder are those
of C++, towards zero. `ForeignAnswer` is the answer to a vehicle outside the model,
again and again: it ends a wait of `syncTime`, which begins anew. `Protocol::send`
goes through the shared-memory NIC before the raw socket: a request is sent in a
step of its own (`SendSyncReq`, `SendDelayReq`), any time after the one before it,
or never. `Correction` is line 222, the whole offset; see section 3 for the comments
above it.

**SmartData.** Frames are records and queues are sets, since handling an interest
or a response twice has no further effect; the FIFO order shows only as fairness.
Time is counted in waits of 100 ms. The clock appears as `age`, its distance to
`_last_response_time`: a response sets it to anything, for its timestamp is from
another machine, and so does the time synchronisation. The comparison is unsigned
(`% W`). `ForeignInterest` stands for consumers of which only the interests are
seen. `communicator.send` is one step that returns, although it need not (`shm_stuck`):
`Served` and `DestroyReturns` are about objects whose sends do return, and what
happens to the machine when one does not is the exception of `ShutdownEnds` in
`Vehicle`. A response may come back to its sender, which deletes it.
`PeriodicThread::stop` is a store and a notification without the mutex, so
the wait of `run` has its three steps (`TTest`, `TWait`, `TExpire`); the instants
at which it fires are left out.

**Units.** A unit is its nine exponents; `UNIT` shifts them into fields of three
bits each, a port is the low 16 bits, as the cast leaves them. `Notified` is the
choice of the ports that `Protocol::update` makes. The six units of the components
are checked against each other and against the reserved ports; the module has no
state, and `SmartData` extends it.

**Vehicle.** Process 0 is `main` with the gateway, 1 to K are the children in the
order of `spawn`. `mpc` is where `main` is, `life` where each process is between
the constructors of its engine and `exit`, `stop` its copy of `g_stop`. The
shared-memory engine is what the processes wait for each other in, and is kept to
that: `pids` and, per entry, the lag `tail - heads[i]`. `_send` goes over the entries
one by one and does not go back: `Pass`, or `Full` and then `Room`, which looks at
the lag of its entry only; `Publish` is `tail++`, whatever the entries passed have
come to, and `Signal` one `kill`. The semaphore does not appear: with a permit per
process it keeps nobody apart, and it comes back (`ShmEngine` has it in full), but a
signal that finds a thread in `semop` ends the process (`SemopFails`). `Find` and
`Claim` are two steps because every constructor adds a permit, so that two children may be in `enroll` together: both then write
the same entry, and the first of them is never signalled. `Interrupted` is the
EINTR of `waitpid`: no handler is installed with SA_RESTART, and `main` does not
look at the result. The threads of a component are one sending thread; that they
are joined by `stop()` and the destructors is in `SmartData`.

Definitions whose comment begins with "Mutant" are plausible wrong versions of
the operator that follows; they are used by no specification and serve to show
that each property can fail.

## 3. What TLC checks

| Run | Instance | Result |
|---|---|---|
| `shm_live` | writer and reader, fair; a third process that finds the table full; 2 slots, counters modulo 4, 5 frames | `BroadcastSpec`, `NoLostWakeup`, `PermitsKept`, `SendCompletes`, `AllDelivered`, `TypeOK` hold |
| `shm_sem` | 3 sending threads in 2 processes, one of which enrols and leaves; 1 slot | `PermitsKept` holds |
| `observer_queue` | 2 receivers, 1 consumer, 4 messages, fair | `TokenAccounting`, `NullMeansTimeout`, `OwnedOnce`, `QueueDrains`, `StopTerminates`, `TypeOK` hold |
| `buffer_pool` | 2 senders, 1 receiver, 3 buffers, a Protocol that is attached and detached | `ExclusiveUse`, `OwnedRecycled`, `OwnSizeOrNone`, `LostForGood`, `TypeOK` hold |
| `raw_socket` | 5 frames, a socket for 3, errors of `recvfrom`, fair | `NoFrameStranded`, `AllHandled`, `StopReturns`, `TypeOK` hold |
| `time_sync` | 1 vehicle, 2 RSUs with different clocks, 2 rounds, 1 change of quadrant, counter modulo 2, answers to others without bound, fair | `CurrentRound`, `NumbersInStep`, `OneMaster`, `ClockError`, `SyncReturns`, `TypeOK` hold |
| `smart_data` | 1 consumer, others that ask for the same period, 1 responder, 1 clock step, fair; the six units in use | `UnitsApart`, `OneThreadPerPeriod`, `SilenceBounded`, `NoTaskAfterDestroy`, `Served`, `DestroyReturns` hold |
| `vehicle` | gateway and 2 components, 3 entries, 1 slot, 2 frames, 1 stop signal, fair | `GatewayEntry`, `OffAfterChildren`, `ShutdownEnds`, `GatewayReads`, `TypeOK` hold |
| `shm_mutex` | 2 processes that write, the second one constructed meanwhile; 2 slots | `OneAtATime` is violated |
| `shm_stuck` | 2 writers, 1 slot, fair | `SendCompletes` is violated |
| `observer_teardown` | 1 receiver, stop during notify | `NoUseAfterFree` is violated |
| `buffer_leak` | 1 sender, 1 receiver, 2 buffers | `NoLeak` is violated |

The violated properties state what a comment of the code says; `PROJECT.json`
quotes it. In short:

- line 40 of `shm_engine.hpp` adds a permit in every process, so "só um processo por
  vez pode escrever na fila" (122) does not hold, nor does "inicialização idempotente"
  (38). `PermitsKept` is what holds: no other step changes the number of permits,
  free and held;
- a process's own frames count against its own head, which nothing makes it
  advance: two processes that both send stop each other after N frames;
- `notify` walks the list without the mutex of `Ordered_List`;
- a received frame's buffer has no owner, so `Protocol::free` skips it unless
  `alloc` used the buffer before. `OwnedRecycled` is the part that holds.

Disagreements that the models reach without a run of their own. The destructor of
`ShmEngine` gives its entry away (85) before its reader stops (88-90). `release()`
makes a buffer free before it clears its size, and may clear that of the next owner
(`OwnSizeOrNone` is what holds: it is then zero, and never the size of another
frame). The room that `_send` has seen is stale after a wait: it gives its permit
back (139), other writers may fill the entries it has passed, and it does not look at
them again. So one permit in all would not be enough either: with it TLC still
refutes `BroadcastSpec` for two writers and two readers, and with writers that keep
the others out while they wait it does not (`Serial`, section 4). And the comments of
`time_client.hpp`, "PLL simples, aplica apenas fração do erro" (209-211) and "não é
aplicado integralmente pois é instável" (219), are not what the code does: line 222
applies the whole offset. The model follows the code, and `ClockError` depends on it:
with half of the offset, `CorrectionFraction`, TLC refutes it, for one round then
leaves half of the error. If the comments are what is meant, `ClockError` is not the
property to ask for; whether the whole offset is unstable over many rounds, with
clocks that drift, is outside the model.

What the less obvious properties of the other runs say:

- `LostForGood`: a buffer without an owner that `_handle` took is never found again
  by anybody, so that each frame received into a fresh buffer makes the pool smaller;
- `OneMaster`: T1 and T4 may come from two RSUs only for a vehicle that changed
  quadrant within the round;
- `ClockError`: after a round with one RSU the two clocks differ by at most the
  time from T1 to `clock_settime`, whatever the asymmetry of the delays. Nothing
  better holds: the code reads the clock and sets it in two steps;
- `SyncReturns`: `syncTime` returns, unless one of its sends stays in the
  shared-memory queue for ever, and provided that the answers to other vehicles
  leave 100 ms without one now and then; without that assumption TLC refutes it;
- `NoFrameStranded`, `AllHandled`: what a `_drain` that broke off on an error leaves
  in the socket is their exception: it waits for the signal of the next frame;
- `SilenceBounded`: `now - _last_response_time` may underflow, and the code needs
  it to: a clock that went back makes the difference large and the interest is
  repeated, where a signed difference would be silent for as long as the step;
- `UnitsApart`: nobody looks at the unit in a frame, so the port must tell units
  apart. It does for the six in use. It does not for all that the header defines:
  the metre is lost and most of the kilogram, so that Length, Area, Volume and
  Angle share a port, and so do Velocity, Angular_Velocity, Frequency and
  Water_Flow, Pressure and Force, Power and Sound_Intensity, Mass and Humidity;
- `GatewayEntry`: components may find the same entry, overwrite each other's pid and
  go on reading in an entry that has another owner (`enroll` with too many permits,
  and the destructor). The gateway is spared: its pid stays in its entry and no
  component moves its head, because it is built before the first `fork`;
- `OffAfterChildren`: power-off waits for every child, but for one whose `waitpid`
  was ended by a signal;
- `ShutdownEnds`: once all children are forked the machine is switched off,
  unless a send waits for ever for room in an entry nobody will read. The entry
  may belong to a process that has left or exited, to one that lost the signal
  before its handler was there, or to the writers themselves, as in `shm_stuck`;
  without the exception TLC refutes the property, with it nothing else does;
- `GatewayReads`: the gateway's entry is never the one;
- `DestroyReturns`: a notification that comes before the wait is lost, and the
  destructor then lasts until the period is over, but it returns.

**Bounds.** `MaxFrames` and `MaxMsgs` bound the calls of `_send` and the arrival
of messages. The slots wrap once `MaxFrames > N`, the counters once
`MaxFrames >= W`: `shm_live` wraps both. Four messages let both receivers be in
`update` twice.
Three buffers let every thread of `buffer_pool` hold one. In these runs the
table is full, the ring is full, and the pool is empty at some point. W = 4
scales 2^32 down; `W % N = 0` holds of the real values (2^32 and 8).
Five frames through a socket for three fill it and drain it again. In `time_sync`
two rounds with a counter modulo 2 let answers of the first arrive in the second,
after the wrap; three instants (`MaxTime` = 2) let each of the four messages be
the slow one, and `MaxDrives` = 1 puts the change of quadrant anywhere. Of other
vehicles only the answers they get are seen, without bound; a second vehicle in
full is left to the proof. In `smart_data` `Resend` = 1 scales the 20 waits of
2 s, clocks differ by up to `MaxAge` = 2 either way and `W` = 16 keeps the two
ends apart; `MaxSteps` bounds the times the clock is set. In `vehicle` two children
are enough to wait for each other and for the gateway, to find the same entry, and
for `main` to be interrupted at the first and not at the second; one slot (N = 1)
makes the ring full after one frame, and two frames let each child send or one
child send twice. `MaxSignals` = 1 is the alarm, at any moment. K < PROCS holds of
the program (six components, eight entries): the table is never full here, and
that case is in `shm_sem`.
`CHECK_DEADLOCK FALSE` is set for every module but `BufferPool`: they stop when
the bounded input is used up and everything is delivered, stopped or destroyed.

A process that enrols and leaves in the middle of `_send` is in `shm_sem`, and in the
theorem `Refinement`, which states `BroadcastSpec` for it for all values of the
constants and so has no run of its own.

One writer: `BroadcastSpec`, `SendCompletes` and `AllDelivered` are checked with
one sending thread: with two the semaphore admits both, the load and the store of
`tail++` interleave, and `shm_stuck` shows that `_send` need not return.

**Fairness.** Weak fairness for each thread's next step (the kernel schedules
every runnable thread) and for the delivery of a pending signal; strong fairness
for `semop(-1)`, whose waiters System V semaphores serve in order. Whether a
process sends, is constructed or destroyed, whether a frame arrives, and whether
`start` or `stop` is called is not promised. In `TimeSync` only the client's thread
is fair, its sends excepted, which may stay in the shared-memory queue (`shm_stuck`):
the network and the RSUs may be silent for ever. Its timeout is strongly fair: an
answer to another vehicle begins the 100 ms anew, and each of them gets two at most in
a round of 500 ms or more (`TimeClient::run`), so a few vehicles in a quadrant leave a
pause of 100 ms. In `SmartData` `setup`
starts every object, a frame sent again and again gets through (strong fairness of
its delivery), a queued frame is taken, and a wait that keeps beginning anew times
out in the end (strong fairness of `CTimeout`): each frame on the port restarts the
100 ms, so this supposes fewer than some twenty consumers of one unit. In `Vehicle`
the kernel runs every thread and delivers every signal, and the alarm goes off;
whether a component sends, `fork` or `semop` fails or the network raises a signal
is left open.

## 4. What is proved

All theorems hold for every value of the constants that meets the named
assumptions of the modules (`ShmAssumption`, `ObserverAssumption`,
`PoolAssumption`, `SocketAssumption`, `SyncAssumption`,
`SmartDataAssumption`, `VehicleAssumption`).

- `Typing` (`ShmEngineProofs`): `TypeOK` with `InTable`, which says that an index
  into `pids` and `heads` is in range wherever it is used (a process that found
  the table full never gets that far). Inductive together.
- `PermitsConserved`: `PermitsKept`, an action property, from `TypeOK`. Each action
  but the constructor's first changes none of the three numbers (the value of the
  semaphore, the threads in the section, the constructors in it) or two of them in
  opposite directions; the lemmas on cardinality make that arithmetic.
- `WakeupNotLost`: `NoLostWakeup`, assuming `OneThreadEach`: no process has two
  sending threads. The strengthening is `OwnEntry`: the entry of a process that
  was there from the start holds its pid, and nobody else's `_idx`, until it
  deregisters. Without it another process could move the head, or the `kill`
  could go elsewhere. With two threads in a process the second may be in the
  loop of `kill` when the first calls `exit(1)`, and the theorem is false.
- `RingBroadcasts`, `TurnsSuffice` and `Refinement` (`ShmBroadcastProofs`):
  `BroadcastSpec`, the ring implements the bounded broadcast. The inductive invariant `Ring` has five parts.
  `Table`: an enrolled process has its pid in its entry, and an entry nobody stored
  a head to shows zero. `Counting`: `tail` is `published % W`, and the register of
  the writer's `tail++` is not stale. `SlotsHold`: slot `(k - 1) % N` holds frame `k`, for the last `N`
  frames copied. `InOrder`: the head of a registered reader is the number
  of frames it took, modulo `W`; it is at most `N` behind; the frame in its hand is
  the next one. `Room`: of a reader whose entry the scan of `_send` has passed, the
  writer has room for one more frame, until it publishes. `Room` lets `SendStore`
  publish and `SlotsHold` makes the copied frame the right one; `SendStore`,
  `ReadAdvance`, `EnrollLoad` and `LeaveDeregister` of a registered reader are the
  steps of `FrameBroadcast`, all others stutter. A few lemmas on `%` carry the
  arithmetic (`W` is a multiple of `N`, so the slot of a counter is the slot of the
  number it counts). `RingBroadcasts` has three hypotheses on the behaviour, and TLC
  refutes `BroadcastSpec` when one is dropped:
  `[]Serial`, at most one thread is between the first `semop` of `_send` and
  `tail++`, a thread that waits for room included (section 3);
  `NoSharedEntry`, no two processes ever have the same `_idx` (two constructors in the critical
  section find the same free entry; or a process that deregistered, its reader
  thread still in `_try_read`, stores its head over that of the entry's next owner);
  `NoWrapYet`, no process enrols or fewer than `W` frames were published (until
  `heads[i] = tail` the entry shows zero, and once the counters wrapped the writer may take
  that for room: 2^32 frames into a run).
  `TurnsSuffice` replaces the second, for processes that join and stay, by what a
  lock would give: no process is between finding a free entry and writing its pid
  there while another is (`SerialEnroll`; `Kept`: a claimed entry keeps its pid).
  The two hypotheses are the specification of a repaired MUTEX: any number of
  threads may then send and any number of processes join.
  `EntriesApart` proves the second from the constants when the processes
  outside `Joiners` stay and at most one comes and goes (or none comes), since then `enroll` finds
  an entry nobody has had but it; `Refinement` is the theorem about the code as it is, with all
  hypotheses on the constants (`OneWriter`, `NoWrapWhileEnrolling`, `OneComesAndGoes`).
  A writer, readers, and one process that enrols and leaves meanwhile are such an
  instance. (In `shm_live` the counters wrap, and the process that comes finds no
  entry.)
- `Permits` and `QueueSafety` (`ConcurrentObserverProofs`): `TypeOK` and
  `TokenAccounting`, and `NullMeansTimeout`, from one inductive invariant. `Phases` ties the consumers' program counters to `life`;
  the key lemma `TakingFinds` says that a consumer with a permit sees a
  non-empty queue.
- `MessageOwnership`: `OwnedOnce`. The cardinality is turned into existence and
  uniqueness (`Ownership`): whatever is held is in the heap, whatever is in the heap is held, and no
  two of the receivers, the consumers and the positions of the queue hold the same
  message. That is preserved by moving a message from one hand to another, by
  `new`, which makes a number not yet used, and by `delete`.
- `LockedListIsSafe`: the counterpart of the run `observer_teardown`. If no step
  unsubscribes while a receiving thread is between `begin()` and the end of `notify`
  (`UnsubscribeExcludes`, what a lock around both would do), then `NoUseAfterFree`
  holds; the invariant is that nobody walks the list while the node is not in it.
  So the missing lock is the only cause.
- `PoolSafety` and `Recycling` (`BufferPoolProofs`): `TypeOK` and `ExclusiveUse`,
  and `OwnedRecycled`. The strengthening `Searching` says that whoever searches holds the mutex, and that
  the buffer it found is still free: `release` can only make more buffers free;
  `Attached`, that nobody sends without a Protocol.
- `SizeIsOwn` and `LossIsFinal`: `OwnSizeOrNone` and the action property
  `LostForGood`, from the same invariant: `alloc` and `_handle` write the size of a
  buffer that was free, hence in nobody's hand and not lost; a late `release` only
  clears; and only a buffer in hand is made free.
- `DrainFirst` (`RawSocketEngineProofs`): `TypeOK` and `NoFrameStranded`, strengthened to the
  moment between the `recvfrom` that found nothing and the sleep.
- `AnswersOfThisRound` and `NumbersTellRounds` (`TimeSyncProofs`): `TypeOK` and
  `CurrentRound`, with `NumbersInStep` as the strengthening: a frame's number is as far behind the
  counter, around the wrap, as its round is behind the current one, and less than
  a full turn. Every step creates only frames in step (a request carries the
  current number and round, an answer those of its request), and equal numbers
  then mean equal rounds. `Begin` keeps it by the assumption on the lifetime of
  frames.
- `ClocksAgree`: `ClockError`. The strengthening `Measured` keeps, for each stage of
  `syncTime`, where T1 to T4 lie in real time: T2 was read after T1 was stamped,
  T3 after T2, and T4 was stamped between T3 and its arrival (`AnswersFrom` and
  `DelaysAfter` say it of the frames under way). The time
  `syncTime` is about to set is then, on the RSU's clock, not before T1 and no
  further past the present than T1 lies before it (`OffsetBound`; `Half`: whatever
  the rounding), and the normalisation of the nanoseconds changes no value
  (`TimespecExact`).
- `MasterOfTheRound`: `OneMaster`. `InQuadrant` says that whatever the vehicle accepted
  since `Begin`, while it did not move, came from the RSU of its quadrant, because
  `verifica_quadrante` drops the others before they reach the queue.
- `InterestRepeated` (`SmartDataProofs`): `SilenceBounded`. The strengthening
  `Patient` says that during a silence the clock was at most the interval past the
  last response and the silence no longer than that. The lemma `NotOverdue` is the
  arithmetic: an unsigned difference that is not above the interval is a signed one
  that is neither negative nor above it.
- `ThreadsDistinct` and `ThreadsEndFirst` (`SmartDataProofs`): `OneThreadPerPeriod`
  and `NoTaskAfterDestroy`, from one invariant: the vector lists active periods,
  each once; a thread that runs is in the vector; once the destructor is at work
  `run()` has ended, so that nothing is added, and the vector is empty at its end.
- `PortsShared` and `UnitsNeverMix` (`SmartDataProofs`): for all units whose
  exponents fit their fields, two have the same port if and only if they agree in
  s, A, K, mol and cd and in the parity of kg (`PortBits`: the port is 2^15 times
  that parity plus the five low fields); and `UnitsApart`, from the six ports in use.
- `TableSafety` and `PowerOffSafety` (`VehicleProofs`): `TypeOK` with
  `GatewayEntry`, and `OffAfterChildren`. The strengthening has three parts:
  a child that `main` has yet to fork has done nothing and has no entry (`Unborn`);
  `main` forks only when the gateway has its entry (`GatewayFirst`), so that the
  entry is taken when a component looks for a free one; and the loop of `waitpid` has
  dealt with every child before `k` (`Waited`), since a process that has ended stays
  so.

Only model-checked: the liveness properties (`SendCompletes`, `AllDelivered`,
`QueueDrains`, `StopTerminates`, `AllHandled`, `StopReturns`, `SyncReturns`,
`Served`, `DestroyReturns`, `ShutdownEnds`, `GatewayReads`): liveness under
fairness is outside this prover. Every invariant and every action property that a
passing run checks is stated by a theorem.

## 5. Plan

In this order; each module with its runs and, where named, its theorem.

1. `ShmEngine`, `FrameBroadcast`, proofs - done.
2. `ConcurrentObserver`, proofs - done.
3. `BufferPool`, proofs - done.
4. `RawSocketEngine`, proof - done.
5. `TimeSync`, proofs of the rounds, the master and the clocks - done. Next: the
   adaptive interval.
6. `SmartData`, proofs - done without the instants of `PeriodicThread`. Next: a
   timed `PeriodicThread` (what a late task does to the next firing, where the
   comment at line 14 and the code differ).
7. `Vehicle`, proofs of the table and of power-off - done.
8. `Units` - done.
9. Proof that `ShmEngine` refines `FrameBroadcast`, with one writer and with
   writers that take turns; proof of `OwnedOnce` - done. Next: `EntriesApart` for
   processes that leave while nobody enrols and for others that come later.
10. Conditional proofs of what the violated properties lack: the lock of the list
    and the turns of MUTEX - done.

## 6. Not modelled

Sensor values, statistics and printing, the build and test scripts, the test
programs (`shm_test.cpp`, `thread_test.cpp`, gtest). `ShmChannel::leave`,
`ConcurrentObserver::updated`, `NIC::receive` and `Vehicle::add_component` have
no callers, nor has `run_normal` of `vehicle_main.cpp`. `rsu_main.cpp` is one process
without children, with an alarm, a loop and a power-off; its loop is in `TimeSync`.
Locks held by another thread at `fork`, the instants at which a `PeriodicThread`
fires, and the interval between two synchronisations, which adapts to their
outcome, are left out. `shmget`, `shmat` and `semget` are taken to succeed: their failure
ends the process before it touches anything.
