----------------------------- MODULE BufferPool -----------------------------
(***************************************************************************)
(* The pool of frame buffers of one NIC (nic/nic.hpp, utils/buffer.hpp),   *)
(* used by the threads that send through Protocol::send and by the         *)
(* engine's receiving thread, which runs NIC::_handle, Protocol::update    *)
(* and Protocol::free (protocol.hpp).                                      *)
(*                                                                         *)
(* alloc and _handle search the pool under _pool_mutex, and _handle keeps  *)
(* it through the whole notification; release() runs without it.  A frame, *)
(* and its size, is named by the thread that wrote it.  The engine's       *)
(* thread runs before attach_nic and after detach_nic too.                 *)
(***************************************************************************)
EXTENDS Integers, FiniteSets

CONSTANTS
  Senders,       \* the threads that call Protocol::send
  Receivers,     \* the engine's thread that calls _handle (one per NIC)
  None,          \* no thread: the mutex is free, a frame or size is cleared
  BUFFER_COUNT   \* NICBase::BUFFER_COUNT, the buffers of the pool

Threads == Senders \cup Receivers
Buffers == 0 .. BUFFER_COUNT - 1

ASSUME PoolAssumption ==
  /\ Senders \cap Receivers = {} /\ None \notin Threads
  /\ BUFFER_COUNT \in Nat

VARIABLES
  free, size, frame,   \* per buffer: _state = FREE, _meta.size, _frame
  owned,               \* per buffer: _owner is set
  channel,             \* the Protocol: not there yet, attached to the NIC, gone
  mutex,               \* the holder of _pool_mutex
  pc, buf              \* per thread: where, and the buffer it looks at or holds

vars == <<free, size, frame, owned, channel, mutex, pc, buf>>

PCs == {"idle", "scan", "found", "fill", "send", "notify", "clear"}

(* The pool is new: no buffer was ever handed out by alloc.  Buffer() does *)
(* not set _owner: the 128 buffers of 1.5 KB are above malloc's threshold  *)
(* for mmap, so the vector's memory comes zeroed from the kernel.          *)
Init ==
  /\ free = [b \in Buffers |-> TRUE] /\ owned = [b \in Buffers |-> FALSE]
  /\ size = [b \in Buffers |-> None] /\ frame = [b \in Buffers |-> None]
  /\ channel = "new" /\ mutex = None
  /\ pc = [t \in Threads |-> "idle"] /\ buf = [t \in Threads |-> 0]

(* Protocol::attach_nic and detach_nic, which ~Protocol comes down to; the *)
(* threads that send are joined by then.                                   *)
Attach ==
  /\ channel = "new" /\ channel' = "attached"
  /\ UNCHANGED <<free, size, frame, owned, mutex, pc, buf>>

Detach ==
  /\ channel = "attached" /\ \A s \in Senders : pc[s] = "idle"
  /\ channel' = "gone"
  /\ UNCHANGED <<free, size, frame, owned, mutex, pc, buf>>

Move(t, from, to) == pc[t] = from /\ pc' = [pc EXCEPT ![t] = to]

(* Mutant: the search does not wait for the mutex.                         *)
LockBarges(t) ==
  /\ t \in Senders => channel = "attached"
  /\ Move(t, "idle", "scan")
  /\ mutex' = t
  /\ buf' = [buf EXCEPT ![t] = 0]
  /\ UNCHANGED <<free, size, frame, owned, channel>>

(* lock_guard of alloc and of _handle (for a frame of this quadrant; any   *)
(* other frame changes nothing), and the head of the search.  Who sends    *)
(* has a Protocol with this NIC in its list.                               *)
Lock(t) ==
  /\ t \in Senders => channel = "attached"
  /\ Move(t, "idle", "scan")
  /\ mutex = None /\ mutex' = t
  /\ buf' = [buf EXCEPT ![t] = 0]
  /\ UNCHANGED <<free, size, frame, owned, channel>>
(* Mutant: the search goes one past the last buffer.                       *)
ScanPastEnd(t) ==
  /\ pc[t] = "scan" /\ buf[t] <= BUFFER_COUNT
  /\ IF buf[t] < BUFFER_COUNT /\ free[buf[t]]
     THEN pc' = [pc EXCEPT ![t] = "found"] /\ UNCHANGED buf
     ELSE buf' = [buf EXCEPT ![t] = @ + 1] /\ UNCHANGED pc
  /\ UNCHANGED <<free, size, frame, owned, mutex, channel>>

(* Mutant: the search does not look at is_free().                          *)
ScanTakesAny(t) ==
  /\ pc[t] = "scan" /\ buf[t] < BUFFER_COUNT
  /\ \/ pc' = [pc EXCEPT ![t] = "found"] /\ UNCHANGED buf
     \/ buf' = [buf EXCEPT ![t] = @ + 1] /\ UNCHANGED pc
  /\ UNCHANGED <<free, size, frame, owned, mutex, channel>>

(* is_free() of the next buffer; what was read is used by the next step.   *)
Scan(t) ==
  /\ pc[t] = "scan" /\ buf[t] < BUFFER_COUNT
  /\ IF free[buf[t]]
     THEN pc' = [pc EXCEPT ![t] = "found"] /\ UNCHANGED buf
     ELSE buf' = [buf EXCEPT ![t] = @ + 1] /\ UNCHANGED pc
  /\ UNCHANGED <<free, size, frame, owned, mutex, channel>>

(* No buffer: alloc returns nullptr and send goes on to the next NIC;      *)
(* _handle drops the frame.                                                *)
Exhausted(t) ==
  /\ buf[t] = BUFFER_COUNT /\ Move(t, "scan", "idle")
  /\ mutex' = None
  /\ UNCHANGED <<free, size, frame, owned, buf, channel>>

(* alloc: allocate, set_size, the addresses, set_owner, unlock.            *)
Alloc(s) ==
  /\ Move(s, "found", "fill")
  /\ free' = [free EXCEPT ![buf[s]] = FALSE]
  /\ size' = [size EXCEPT ![buf[s]] = s]
  /\ owned' = [owned EXCEPT ![buf[s]] = TRUE]
  /\ mutex' = None
  /\ UNCHANGED <<frame, buf, channel>>

(* Protocol::send: the header and the payload ...                          *)
Fill(s) ==
  /\ Move(s, "fill", "send")
  /\ frame' = [frame EXCEPT ![buf[s]] = s]
  /\ UNCHANGED <<free, size, owned, mutex, buf, channel>>

(* ... nic->send(buf), then nic->free(buf): release() sets FREE first ...  *)
Send(s) ==
  /\ Move(s, "send", "clear")
  /\ free' = [free EXCEPT ![buf[s]] = TRUE]
  /\ UNCHANGED <<size, frame, owned, mutex, buf, channel>>

(* ... and clears the metadata afterwards.                                 *)
Clear(s) ==
  /\ s \in Senders /\ Move(s, "clear", "idle")
  /\ size' = [size EXCEPT ![buf[s]] = None]
  /\ UNCHANGED <<free, frame, owned, mutex, buf, channel>>

(* Mutant: _handle leaves the size that was there.                         *)
TakeKeepsSize(r) ==
  /\ Move(r, "found", "notify")
  /\ free' = [free EXCEPT ![buf[r]] = FALSE]
  /\ frame' = [frame EXCEPT ![buf[r]] = r]
  /\ UNCHANGED <<size, owned, mutex, buf, channel>>

(* _handle: allocate, set_size and the copy of the frame; no set_owner.    *)
Take(r) ==
  /\ Move(r, "found", "notify")
  /\ free' = [free EXCEPT ![buf[r]] = FALSE]
  /\ size' = [size EXCEPT ![buf[r]] = r]
  /\ frame' = [frame EXCEPT ![buf[r]] = r]
  /\ UNCHANGED <<owned, mutex, buf, channel>>
(* Mutant: Protocol::update does not call free.                            *)
NotifiedKeeps(r) ==
  /\ Move(r, "notify", "idle") /\ mutex' = None
  /\ UNCHANGED <<free, size, frame, owned, buf, channel>>

(* Protocol::update: the observers have copied the payload, then           *)
(* free(buf), which does nothing to a buffer without an owner.  When no    *)
(* Protocol is attached, notify calls nobody.                              *)
Frees(r) == channel = "attached" /\ owned[buf[r]]
Notified(r) ==
  /\ \/ /\ Move(r, "notify", "clear") /\ Frees(r)
        /\ free' = [free EXCEPT ![buf[r]] = TRUE] /\ UNCHANGED mutex
     \/ /\ Move(r, "notify", "idle") /\ ~Frees(r)
        /\ mutex' = None /\ UNCHANGED free
  /\ UNCHANGED <<size, frame, owned, buf, channel>>

(* The rest of release(), and the end of _handle unlocks.                  *)
ClearUnlock(r) ==
  /\ r \in Receivers /\ Move(r, "clear", "idle")
  /\ size' = [size EXCEPT ![buf[r]] = None]
  /\ mutex' = None
  /\ UNCHANGED <<free, frame, owned, buf, channel>>

SendStep(s) == Scan(s) \/ Exhausted(s) \/ Alloc(s) \/ Fill(s) \/ Send(s) \/ Clear(s)
HandleStep(r) == Scan(r) \/ Exhausted(r) \/ Take(r) \/ Notified(r) \/ ClearUnlock(r)

Next ==
  \/ Attach \/ Detach
  \/ \E t \in Threads : Lock(t)
  \/ \E s \in Senders : SendStep(s)
  \/ \E r \in Receivers : HandleStep(r)

Spec == Init /\ [][Next]_vars

-----------------------------------------------------------------------------
(* Type correctness.                                                       *)
TypeOK ==
  /\ free \in [Buffers -> BOOLEAN] /\ owned \in [Buffers -> BOOLEAN]
  /\ size \in [Buffers -> Threads \cup {None}] /\ frame \in [Buffers -> Threads \cup {None}]
  /\ channel \in {"new", "attached", "gone"} /\ mutex \in Threads \cup {None}
  /\ pc \in [Threads -> PCs] /\ buf \in [Threads -> 0 .. BUFFER_COUNT]

Holds(t, b) == buf[t] = b /\ pc[t] \in {"fill", "send", "notify"}

(* A buffer is never handed to two threads: although release() runs        *)
(* outside the mutex, the frame a thread sends or the observers read is    *)
(* the one it wrote, in a buffer that is not free and that no other thread *)
(* holds.                                                                  *)
ExclusiveUse ==
  \A t \in Threads, b \in Buffers : Holds(t, b) =>
    /\ ~free[b] /\ \A u \in Threads \ {t} : ~Holds(u, b)
    /\ pc[t] \in {"send", "notify"} => frame[b] = t

(* The buffers alloc has ever handed out are recycled until the Protocol   *)
(* is detached: one that is taken is held by a thread that will release    *)
(* it.  (What comes in after that stays in its buffer.)                    *)
OwnedRecycled ==
  channel # "gone" =>
    \A b \in Buffers : owned[b] /\ ~free[b] => \E t \in Threads : Holds(t, b)

(* The size of a frame in hand is its own, or cleared by a release() that  *)
(* set FREE before (buffer.hpp:62); it is never that of another frame: a   *)
(* frame is sent whole or empty, and never with the bytes of another.      *)
OwnSizeOrNone == \A t \in Threads, b \in Buffers : Holds(t, b) => size[b] \in {t, None}

(* A buffer that was lost is lost for good: neither alloc, _handle nor the *)
(* release of another buffer brings it back, so every loss makes the pool  *)
(* smaller.                                                                *)
Lost(b) == ~free[b] /\ \A t \in Threads : ~Holds(t, b)
LostForGood == [][\A b \in Buffers : Lost(b) => Lost(b)']_vars

(* "não libera aqui - o Protocol libera após o notify" (nic.hpp:118): with *)
(* a Protocol attached, no step leaves a buffer that is neither free nor   *)
(* held by a thread.                                                       *)
NoLeak == [][channel = "attached" => \A b \in Buffers : Lost(b)' => Lost(b)]_vars
=============================================================================
