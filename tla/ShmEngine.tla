------------------------------ MODULE ShmEngine ------------------------------
(***************************************************************************)
(* The shared-memory engine that carries frames between the processes of   *)
(* one vehicle: ShmEngine (engine/shm_engine.hpp) over ShmChannel          *)
(* (utils/shm_channel.hpp).                                                *)
(*                                                                         *)
(* The segment is a ring of N frame slots with one write counter (tail)    *)
(* and one read counter (heads[i]) per registered process.  A System V     *)
(* semaphore is meant to serialise the writers.  A writer announces a      *)
(* frame with SIGUSR1; the handler posts a process-local semaphore on      *)
(* which the reader thread sleeps.                                         *)
(*                                                                         *)
(* The target machine has one hart, so the interleaving of the loads and   *)
(* stores of the segment is the whole memory model.  A frame is a number,  *)
(* and a slot's bytes and size are written, and read, in one step.         *)
(***************************************************************************)
EXTENDS Integers, FiniteSets

CONSTANTS
  Procs,      \* the processes of the vehicle, named by their pid
  NoPid,      \* pid 0: a free entry of ShmChannel::pids
  Senders,    \* the threads that call _send
  ProcOf,     \* the process a sending thread lives in
  Joiners,    \* the processes whose engine is constructed during the run
  Leavers,    \* the processes whose engine may be destroyed during the run
  PROCS,      \* ShmChannel::PROCS, the reader entries
  N,          \* ShmChannel::N, the frame slots
  W,          \* the range of the uint32_t counters tail and heads (2^32)
  MaxFrames   \* bound: no _send begins after this many frames

ASSUME ShmAssumption ==
  /\ IsFiniteSet(Procs) /\ IsFiniteSet(Senders)
  /\ NoPid \notin Procs
  /\ ProcOf \in [Senders -> Procs]
  /\ Joiners \subseteq Procs /\ Leavers \subseteq Procs
  /\ PROCS \in Nat \ {0} /\ N \in Nat \ {0} /\ W \in Nat /\ MaxFrames \in Nat
  /\ W > N /\ W % N = 0

Slots   == 0 .. N - 1
Entries == 0 .. PROCS - 1
Counter == 0 .. W - 1

VARIABLES
  tail, pids, heads, slots,    \* the segment; slot 0 .. N - 1 holds a frame number
  sem,                         \* the System V semaphore MUTEX
  nframes, published,          \* frames copied into a slot, and made visible by tail++
  spc, si, sreg,               \* _send in thread s: where, loop index, tail in a register
  proc, idx,                   \* constructor/destructor of process p: where, and _idx
  pending, notify,             \* SIGUSR1 is pending for p; the value of _notify_sem
  rpc, reg, rframe,            \* p's reader: where, my_head (enroll: tail), the copied frame
  got                          \* the last frame p handed to NIC::_handle

segment == <<tail, pids, heads, slots>>
history == <<nframes, published>>
sending == <<spc, si, sreg>>
process == <<proc, idx>>
signals == <<pending, notify>>
reading == <<rpc, reg, rframe, got>>
vars == <<segment, sem, history, sending, process, signals, reading>>

(* A process is "up" between its constructor and its destructor; "gone"    *)
(* has left in order, "dead" has called exit(1).                           *)
SendPCs == {"idle", "acquire", "scan", "wait", "reacquire", "copy", "load", "store", "notify"}
EnrollPCs == {"new", "acquire", "find", "claim", "load", "store", "release", "install"}
ProcPCs == EnrollPCs \cup {"up", "ignoring", "deregistered", "stopping", "gone", "dead"}
ReadPCs == {"none", "sleep", "load", "copy", "advance", "exit"}

(* The flag _running, and the disposition of SIGUSR1 until SIG_IGN.        *)
Running(p) == proc[p] \in {"up", "ignoring", "deregistered"}
Catches(p) == proc[p] \in EnrollPCs \cup {"up"}
(* Mutant: the difference is signed, and wrong once the counters wrap.     *)
AheadSigned(t, h) == t - h

(* Unsigned subtraction of two counters, as in "_ch->tail - head".         *)
Ahead(t, h) == (t - h) % W

(* The processes outside Joiners have just been constructed, one after the *)
(* other: they fill the first entries in some order.                       *)
Init ==
  LET up == Procs \ Joiners
  IN  /\ tail = 0
      /\ pids \in {f \in [Entries -> up \cup {NoPid}] :
                     /\ \A i \in Entries : f[i] # NoPid <=> i < Cardinality(up)
                     /\ \A i, j \in Entries : f[i] = f[j] /\ f[i] # NoPid => i = j}
      /\ heads = [i \in Entries |-> 0] /\ slots = [k \in Slots |-> 0]
      /\ sem = Cardinality(up)
      /\ nframes = 0 /\ published = 0
      /\ spc = [s \in Senders |-> "idle"]
      /\ si = [s \in Senders |-> 0] /\ sreg = [s \in Senders |-> 0]
      /\ proc = [p \in Procs |-> IF p \in up THEN "up" ELSE "new"]
      /\ idx \in {f \in [Procs -> Entries \cup {-1}] :
                    \A p \in Procs : IF p \in up THEN f[p] # -1 /\ pids[f[p]] = p
                                                 ELSE f[p] = -1}
      /\ pending = [p \in Procs |-> FALSE] /\ notify = [p \in Procs |-> 0]
      /\ rpc = [p \in Procs |-> IF p \in up THEN "sleep" ELSE "none"]
      /\ reg = [p \in Procs |-> 0] /\ rframe = [p \in Procs |-> 0]
      /\ got = [p \in Procs |-> 0]

(***************************************************************************)
(* _send, in thread s of a process that is up.                             *)
(***************************************************************************)
SendAt(s, pc) == proc[ProcOf[s]] = "up" /\ spc[s] = pc
SendTo(s, pc) == spc' = [spc EXCEPT ![s] = pc]

SendBegin(s) ==
  /\ SendAt(s, "idle") /\ nframes < MaxFrames
  /\ SendTo(s, "acquire")
  /\ UNCHANGED <<segment, sem, history, si, sreg, process, signals, reading>>

(* _sem_op(MUTEX, -1): on entry, and again after waiting for room.         *)
SendAcquire(s) ==
  /\ sem > 0 /\ sem' = sem - 1
  /\ \/ SendAt(s, "acquire") /\ SendTo(s, "scan") /\ si' = [si EXCEPT ![s] = 0]
     \/ SendAt(s, "reacquire") /\ SendTo(s, "wait") /\ UNCHANGED si
  /\ UNCHANGED <<segment, history, sreg, process, signals, reading>>

(* The loop over the entries: one with another process in it is waited for.*)
SendScan(s) ==
  /\ SendAt(s, "scan")
  /\ \/ si[s] = PROCS /\ SendTo(s, "copy") /\ UNCHANGED si
     \/ /\ si[s] < PROCS /\ pids[si[s]] \in {NoPid, ProcOf[s]}
        /\ si' = [si EXCEPT ![s] = @ + 1] /\ UNCHANGED spc
     \/ /\ si[s] < PROCS /\ pids[si[s]] \notin {NoPid, ProcOf[s]}
        /\ SendTo(s, "wait") /\ UNCHANGED si
  /\ UNCHANGED <<segment, sem, history, sreg, process, signals, reading>>
(* Mutant: the permit is not given back while waiting for room.            *)
SendWaitKeepsPermit(s) ==
  /\ SendAt(s, "wait")
  /\ IF Ahead(tail, heads[si[s]]) < N
     THEN SendTo(s, "scan") /\ si' = [si EXCEPT ![s] = @ + 1]
     ELSE SendTo(s, "reacquire") /\ UNCHANGED si
  /\ UNCHANGED <<segment, sem, history, sreg, process, signals, reading>>

(* The inner loop: go on when the reader has room; otherwise let go of the *)
(* semaphore, yield and take it again.  pids[i] is not read again.         *)
SendWait(s) ==
  /\ SendAt(s, "wait")
  /\ IF Ahead(tail, heads[si[s]]) < N
     THEN SendTo(s, "scan") /\ si' = [si EXCEPT ![s] = @ + 1] /\ UNCHANGED sem
     ELSE SendTo(s, "reacquire") /\ sem' = sem + 1 /\ UNCHANGED si
  /\ UNCHANGED <<segment, history, sreg, process, signals, reading>>

(* The frame and its size go to slot tail % N.                             *)
SendCopy(s) ==
  /\ SendAt(s, "copy") /\ SendTo(s, "load")
  /\ nframes' = nframes + 1
  /\ slots' = [slots EXCEPT ![tail % N] = nframes + 1]
  /\ UNCHANGED <<tail, pids, heads, sem, published, si, sreg, process, signals, reading>>

(* _ch->tail++ on a plain uint32_t: a load, then a store.                  *)
SendLoad(s) ==
  /\ SendAt(s, "load") /\ SendTo(s, "store")
  /\ sreg' = [sreg EXCEPT ![s] = tail]
  /\ UNCHANGED <<segment, sem, history, si, process, signals, reading>>
(* Mutant: the counter does not wrap.                                      *)
SendStoreUnbounded(s) ==
  /\ SendAt(s, "store") /\ SendTo(s, "notify")
  /\ tail' = sreg[s] + 1
  /\ published' = published + 1
  /\ si' = [si EXCEPT ![s] = 0]
  /\ UNCHANGED <<pids, heads, slots, sem, nframes, sreg, process, signals, reading>>

SendStore(s) ==
  /\ SendAt(s, "store") /\ SendTo(s, "notify")
  /\ tail' = (sreg[s] + 1) % W
  /\ published' = published + 1
  /\ si' = [si EXCEPT ![s] = 0]
  /\ UNCHANGED <<pids, heads, slots, sem, nframes, sreg, process, signals, reading>>
(* Mutant: _send returns without the last _sem_op(MUTEX, +1).              *)
SendNotifyKeepsPermit(s) ==
  /\ SendAt(s, "notify")
  /\ \/ /\ si[s] < PROCS
        /\ pending' = [q \in Procs |-> \/ pending[q]
                                       \/ q = pids[si[s]] /\ q # ProcOf[s] /\ Catches(q)]
        /\ si' = [si EXCEPT ![s] = @ + 1] /\ UNCHANGED spc
     \/ /\ si[s] = PROCS
        /\ SendTo(s, "idle") /\ UNCHANGED <<pending, si>>
  /\ UNCHANGED <<segment, sem, history, sreg, process, notify, reading>>

(* kill(pid, SIGUSR1) for every entry with another process in it, then     *)
(* _sem_op(MUTEX, +1).  A SIGUSR1 that is already pending absorbs it.      *)
SendNotify(s) ==
  /\ SendAt(s, "notify")
  /\ \/ /\ si[s] < PROCS
        /\ pending' = [q \in Procs |-> \/ pending[q]
                                       \/ q = pids[si[s]] /\ q # ProcOf[s] /\ Catches(q)]
        /\ si' = [si EXCEPT ![s] = @ + 1] /\ UNCHANGED <<sem, spc>>
     \/ /\ si[s] = PROCS
        /\ sem' = sem + 1
        /\ SendTo(s, "idle") /\ UNCHANGED <<pending, si>>
  /\ UNCHANGED <<segment, history, sreg, process, notify, reading>>

(* A SIGUSR1 that finds its thread blocked in semop makes it fail with     *)
(* EINTR, and _sem_op answers with exit(1): the process ends.  Its entry   *)
(* of pids and the permits its threads hold stay as they are.              *)
SemopInterrupted(s) ==
  /\ SendAt(s, "acquire") \/ SendAt(s, "reacquire")
  /\ sem = 0 /\ pending[ProcOf[s]]
  /\ pending' = [pending EXCEPT ![ProcOf[s]] = FALSE]
  /\ proc' = [proc EXCEPT ![ProcOf[s]] = "dead"]
  /\ UNCHANGED <<segment, sem, history, sending, idx, notify, reading>>

(***************************************************************************)
(* The signal handler.  Before Install it is the one inherited through     *)
(* fork and posts the semaphore of the parent's engine, on which nobody    *)
(* here waits.  Run on the sleeping reader thread, it also ends the        *)
(* sem_wait (EINTR, which the loop does not look at).                      *)
(***************************************************************************)
ReadAt(p, pc) == proc[p] # "dead" /\ rpc[p] = pc
ReadTo(p, pc) == rpc' = [rpc EXCEPT ![p] = pc]

Handler(p) ==
  /\ pending[p] /\ Catches(p)
  /\ pending' = [pending EXCEPT ![p] = FALSE]
  /\ notify' = [notify EXCEPT ![p] = IF proc[p] = "up" THEN @ + 1 ELSE @]
  /\ \/ UNCHANGED rpc
     \/ ReadAt(p, "sleep") /\ ReadTo(p, "load")
  /\ UNCHANGED <<segment, sem, history, sending, process, reg, rframe, got>>

(***************************************************************************)
(* The reader thread: sem_wait, then _try_read.                            *)
(***************************************************************************)
ReadWake(p) ==
  /\ ReadAt(p, "sleep") /\ ReadTo(p, IF Running(p) THEN "load" ELSE "exit")
  /\ notify[p] > 0
  /\ notify' = [notify EXCEPT ![p] = @ - 1]
  /\ UNCHANGED <<segment, sem, history, sending, process, pending, reg, rframe, got>>

(* my_head and tail are read; "nada novo" ends _try_read.                  *)
ReadLoad(p) ==
  /\ ReadAt(p, "load")
  /\ reg' = [reg EXCEPT ![p] = heads[idx[p]]]
  /\ ReadTo(p, IF heads[idx[p]] # tail THEN "copy" ELSE IF Running(p) THEN "sleep" ELSE "exit")
  /\ UNCHANGED <<segment, sem, history, sending, process, signals, rframe, got>>

ReadCopy(p) ==
  /\ ReadAt(p, "copy") /\ ReadTo(p, "advance")
  /\ rframe' = [rframe EXCEPT ![p] = slots[reg[p] % N]]
  /\ UNCHANGED <<segment, sem, history, sending, process, signals, reg, got>>
(* Mutant: one frame per wake-up, instead of all that are there.           *)
ReadAdvanceOnce(p) ==
  /\ ReadAt(p, "advance") /\ ReadTo(p, IF Running(p) THEN "sleep" ELSE "exit")
  /\ heads' = [heads EXCEPT ![idx[p]] = (reg[p] + 1) % W]
  /\ got' = [got EXCEPT ![p] = rframe[p]]
  /\ UNCHANGED <<tail, pids, slots, sem, history, sending, process, signals, reg, rframe>>

(* heads[_idx] = my_head + 1, then the copy goes to NIC::_handle.          *)
ReadAdvance(p) ==
  /\ ReadAt(p, "advance") /\ ReadTo(p, "load")
  /\ heads' = [heads EXCEPT ![idx[p]] = (reg[p] + 1) % W]
  /\ got' = [got EXCEPT ![p] = rframe[p]]
  /\ UNCHANGED <<tail, pids, slots, sem, history, sending, process, signals, reg, rframe>>

(***************************************************************************)
(* The constructor.                                                        *)
(***************************************************************************)
ProcMove(p, from, to) == proc[p] = from /\ proc' = [proc EXCEPT ![p] = to]

(* "garante mutex=1 na primeira vez" - and every process adds a permit.    *)
Construct(p) ==
  /\ ProcMove(p, "new", "acquire")
  /\ sem' = sem + 1
  /\ UNCHANGED <<segment, history, sending, idx, signals, reading>>

EnrollAcquire(p) ==
  /\ ProcMove(p, "acquire", "find")
  /\ sem > 0 /\ sem' = sem - 1
  /\ UNCHANGED <<segment, history, sending, idx, signals, reading>>

(* The first entry of the table that holds pid, as a set of at most one.   *)
Find(pid) == {i \in Entries : pids[i] = pid /\ \A j \in 0 .. i - 1 : pids[j] # pid}

(* enroll: the first free entry, if there is one ...                       *)
EnrollFind(p) ==
  /\ \/ \E i \in Find(NoPid) : ProcMove(p, "find", "claim") /\ idx' = [idx EXCEPT ![p] = i]
     \/ Find(NoPid) = {} /\ ProcMove(p, "find", "release") /\ UNCHANGED idx
  /\ UNCHANGED <<segment, sem, history, sending, signals, reading>>

(* ... pids[i] = pid ...                                                   *)
EnrollClaim(p) ==
  /\ ProcMove(p, "claim", "load")
  /\ pids' = [pids EXCEPT ![idx[p]] = p]
  /\ UNCHANGED <<tail, heads, slots, sem, history, sending, idx, signals, reading>>

(* ... heads[i] = tail: the process reads what is published from here on.  *)
EnrollLoad(p) ==
  /\ ProcMove(p, "load", "store")
  /\ reg' = [reg EXCEPT ![p] = tail]
  /\ got' = [got EXCEPT ![p] = published]
  /\ UNCHANGED <<segment, sem, history, sending, idx, signals, rpc, rframe>>

EnrollStore(p) ==
  /\ ProcMove(p, "store", "release")
  /\ heads' = [heads EXCEPT ![idx[p]] = reg[p]]
  /\ UNCHANGED <<tail, pids, slots, sem, history, sending, idx, signals, reading>>
(* Mutant: exit(1) on a full table comes before the _sem_op(MUTEX, +1).    *)
EnrollReleaseLate(p) ==
  /\ ProcMove(p, "release", IF idx[p] = -1 THEN "dead" ELSE "install")
  /\ sem' = IF idx[p] = -1 THEN sem ELSE sem + 1
  /\ UNCHANGED <<segment, history, sending, idx, signals, reading>>

(* _sem_op(MUTEX, +1); a full table ends the process.                      *)
EnrollRelease(p) ==
  /\ ProcMove(p, "release", IF idx[p] = -1 THEN "dead" ELSE "install")
  /\ sem' = sem + 1
  /\ UNCHANGED <<segment, history, sending, idx, signals, reading>>

(* sem_init, sigaction, _instance = this and the reader thread.            *)
Install(p) ==
  /\ ProcMove(p, "install", "up") /\ ReadTo(p, "sleep")
  /\ UNCHANGED <<segment, sem, history, sending, idx, signals, reg, rframe, got>>

(***************************************************************************)
(* The destructor, run when no thread of p is in _send.  SIG_IGN discards  *)
(* a pending SIGUSR1.                                                      *)
(***************************************************************************)
LeaveIgnore(p) ==
  /\ p \in Leavers /\ \A s \in Senders : ProcOf[s] = p => spc[s] = "idle"
  /\ ProcMove(p, "up", "ignoring")
  /\ pending' = [pending EXCEPT ![p] = FALSE]
  /\ UNCHANGED <<segment, sem, history, sending, idx, notify, reading>>

(* find(getpid()) and pids[i] = 0, without the semaphore.                  *)
LeaveDeregister(p) ==
  /\ ProcMove(p, "ignoring", "deregistered")
  /\ pids' = [i \in Entries |-> IF i \in Find(p) THEN NoPid ELSE pids[i]]
  /\ UNCHANGED <<tail, heads, slots, sem, history, sending, idx, signals, reading>>

(* _running = false, sem_post(&_notify_sem).                               *)
LeaveStop(p) ==
  /\ ProcMove(p, "deregistered", "stopping")
  /\ notify' = [notify EXCEPT ![p] = @ + 1]
  /\ UNCHANGED <<segment, sem, history, sending, idx, pending, reading>>

LeaveJoin(p) ==
  /\ ReadAt(p, "exit") /\ ProcMove(p, "stopping", "gone")
  /\ UNCHANGED <<segment, sem, history, sending, idx, signals, reading>>

SendStep(s) ==
  \/ SendAcquire(s) \/ SendScan(s) \/ SendWait(s) \/ SendCopy(s)
  \/ SendLoad(s) \/ SendStore(s) \/ SendNotify(s)
ReadStep(p) == ReadWake(p) \/ ReadLoad(p) \/ ReadCopy(p) \/ ReadAdvance(p)
EnrollStep(p) ==
  \/ EnrollAcquire(p) \/ EnrollFind(p) \/ EnrollClaim(p) \/ EnrollLoad(p)
  \/ EnrollStore(p) \/ EnrollRelease(p) \/ Install(p)
LeaveStep(p) == LeaveDeregister(p) \/ LeaveStop(p) \/ LeaveJoin(p)

Next ==
  \/ \E s \in Senders : SendBegin(s) \/ SendStep(s) \/ SemopInterrupted(s)
  \/ \E p \in Procs : \/ Handler(p) \/ ReadStep(p)
                      \/ Construct(p) \/ EnrollStep(p)
                      \/ LeaveIgnore(p) \/ LeaveStep(p)

Spec == Init /\ [][Next]_vars

(* The kernel runs every thread that can run, delivers a pending signal,   *)
(* and serves the waiters of a semaphore in order.  Calling _send,         *)
(* constructing and destroying are the program's choice.                   *)
Fairness ==
  /\ \A s \in Senders : WF_vars(SendStep(s)) /\ SF_vars(SendAcquire(s))
  /\ \A p \in Procs : /\ WF_vars(Handler(p)) /\ WF_vars(ReadStep(p))
                      /\ WF_vars(EnrollStep(p)) /\ SF_vars(EnrollAcquire(p))
                      /\ WF_vars(LeaveStep(p))

FairSpec == Spec /\ Fairness

-----------------------------------------------------------------------------
(* Type correctness.                                                       *)
TypeOK ==
  /\ tail \in Counter /\ heads \in [Entries -> Counter]
  /\ pids \in [Entries -> Procs \cup {NoPid}]
  /\ slots \in [Slots -> Nat]
  /\ sem \in Nat /\ nframes \in Nat /\ published \in Nat
  /\ spc \in [Senders -> SendPCs]
  /\ si \in [Senders -> 0 .. PROCS] /\ sreg \in [Senders -> Counter]
  /\ proc \in [Procs -> ProcPCs] /\ idx \in [Procs -> Entries \cup {-1}]
  /\ pending \in [Procs -> BOOLEAN] /\ notify \in [Procs -> Nat]
  /\ rpc \in [Procs -> ReadPCs] /\ reg \in [Procs -> Counter]
  /\ rframe \in [Procs -> Nat] /\ got \in [Procs -> Nat]

(* The threads and constructors between a _sem_op(MUTEX, -1) and the       *)
(* matching +1, those of processes that exited in between included.        *)
SendHolders   == {s \in Senders : spc[s] \in SendPCs \ {"idle", "acquire", "reacquire"}}
EnrollHolders == {p \in Procs : proc[p] \in {"find", "claim", "load", "store", "release"}}
Constructed   == {p \in Procs : proc[p] # "new"}

(* No permit of the MUTEX semaphore is lost or made up by any path through *)
(* _send, its wait loop, the constructor and exit(1), the one of a full    *)
(* table and the one on EINTR: whoever takes a permit gives it back, or    *)
(* dies holding it.  How many there are in all is the constructors' doing  *)
(* (line 40), and every other step leaves their number alone.              *)
Permits == sem + Cardinality(SendHolders) + Cardinality(EnrollHolders)
PermitsKept == [][Constructed' = Constructed => Permits' = Permits]_vars

(* "entra na seção crítica (só um processo por vez pode escrever na fila)" *)
(* (line 122): no two processes are writing to the ring together.          *)
AtRing(s) == SendAt(s, "copy") \/ SendAt(s, "load") \/ SendAt(s, "store")
OneAtATime == \A s, t \in Senders : AtRing(s) /\ AtRing(t) => ProcOf[s] = ProcOf[t]

(* The processes that only read.                                           *)
Readers == {p \in Procs : \A s \in Senders : ProcOf[s] # p}

(* p is registered: from the load of tail in enroll to pids[i] = 0.        *)
Registered(p) ==
  idx[p] # -1 /\ proc[p] \in {"store", "release", "install", "up", "ignoring"}

Broadcast == INSTANCE FrameBroadcast WITH
  Capacity  <- N,
  delivered <- [p \in Readers |-> IF Registered(p) THEN got[p] ELSE -1]

(* The ring implements the bounded broadcast: with one writer, a process   *)
(* that only reads takes every frame published while it is registered,     *)
(* once, in order, unmixed with later ones, across the wrap of the slots   *)
(* and although it enrols and leaves while the writer is anywhere in       *)
(* _send.  (Up to the wrap of the counters: while a process enrols, its    *)
(* entry shows head zero, which after 2^32 frames may pass for room.)      *)
BroadcastSpec == Broadcast!Spec

(* The wake-up of a reader is never lost, although signals coalesce and    *)
(* the semaphore is read after the handler posts it: a reader thread that  *)
(* sleeps on a zero _notify_sem while frames are waiting for it has a      *)
(* SIGUSR1 pending, or a writer about to send it one.  (A process that     *)
(* joins may lose one between enroll and Install.)                         *)
NoLostWakeup ==
  \A p \in Readers \ Joiners :
    proc[p] = "up" /\ rpc[p] = "sleep" /\ notify[p] = 0 /\ heads[idx[p]] # tail =>
      \/ pending[p]
      \/ \E s \in Senders : SendAt(s, "notify") /\ si[s] <= idx[p]

(* A call of _send by a running process returns (the loop of line 133      *)
(* "fica repetindo até a fila ter espaço", and it gets space).             *)
SendCompletes == \A s \in Senders : spc[s] # "idle" ~> spc[s] = "idle"

(* Every frame published reaches every process that only reads and was     *)
(* there from the start.                                                   *)
AllDelivered ==
  \A p \in Readers \ Joiners, k \in 1 .. MaxFrames : published >= k ~> got[p] >= k
==============================================================================
