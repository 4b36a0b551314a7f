-------------------------- MODULE BufferPoolProofs --------------------------
(***************************************************************************)
(* The buffer pool for any number of threads and of buffers.               *)
(***************************************************************************)
EXTENDS BufferPool, TLAPS

(* What the search under _pool_mutex relies on: who searches holds the     *)
(* mutex, and so does the receiver until _handle returns; the buffer it    *)
(* found is still free, because only the holder of the mutex takes one.    *)
Searching ==
  \A t \in Threads :
    /\ pc[t] \in {"scan", "found"} => mutex = t
    /\ pc[t] = "found" => buf[t] \in Buffers /\ free[buf[t]]
    /\ pc[t] \in {"fill", "send", "notify", "clear"} => buf[t] \in Buffers
    /\ t \in Receivers /\ pc[t] \in {"notify", "clear"} => mutex = t

(* A sender is never in the receiver's part of the code.                   *)
Roles ==
  /\ \A s \in Senders : pc[s] # "notify"
  /\ \A r \in Receivers : pc[r] \notin {"fill", "send"}

(* Nobody sends, and before that no buffer has an owner, without Protocol. *)
Attached ==
  /\ channel # "attached" => \A s \in Senders : pc[s] = "idle"
  /\ channel = "new" => \A b \in Buffers : ~owned[b]

IInv == TypeOK /\ Searching /\ Roles /\ Attached /\ ExclusiveUse /\ OwnedRecycled

LEMMA InitInv == Init => IInv
BY PoolAssumption DEF Init, IInv, TypeOK, Searching, Roles, Attached, ExclusiveUse, OwnedRecycled,
   Holds, Buffers, Threads, PCs

LEMMA NextType == TypeOK /\ Searching /\ [Next]_vars => TypeOK'
<1> SUFFICES ASSUME TypeOK, Searching, [Next]_vars PROVE TypeOK'
  OBVIOUS
<1> USE PoolAssumption DEF TypeOK, Buffers, PCs, Move
<1>1. CASE \E t \in Threads : Lock(t)
  BY <1>1 DEF Lock
<1>2. ASSUME NEW t \in Threads, Scan(t) \/ Exhausted(t) PROVE TypeOK'
  <2>1. CASE Scan(t)
    <3>1. \/ pc' = [pc EXCEPT ![t] = "found"]
          \/ pc' = pc
      BY <2>1 DEF Scan
    <3>2. pc' \in [Threads -> PCs]
      BY <3>1
    <3>3. \/ buf' = buf
          \/ buf' = [buf EXCEPT ![t] = @ + 1] /\ buf[t] < BUFFER_COUNT
      BY <2>1 DEF Scan
    <3>4. buf' \in [Threads -> 0 .. BUFFER_COUNT]
      BY <3>3
    <3> QED BY <2>1, <3>2, <3>4 DEF Scan
  <2>2. CASE Exhausted(t)
    BY <2>2 DEF Exhausted
  <2> QED BY <1>2, <2>1, <2>2
<1>3. ASSUME NEW t \in Threads,
             Alloc(t) \/ Fill(t) \/ Send(t) \/ Clear(t) \/ Take(t) \/ ClearUnlock(t)
      PROVE TypeOK'
  <2>1. CASE Alloc(t)
    BY <2>1 DEF Alloc
  <2>2. CASE Fill(t)
    BY <2>2 DEF Fill
  <2>3. CASE Send(t)
    BY <2>3 DEF Send
  <2>4. CASE Clear(t)
    BY <2>4 DEF Clear
  <2>5. CASE Take(t)
    BY <2>5 DEF Take
  <2>6. CASE ClearUnlock(t)
    BY <2>6 DEF ClearUnlock
  <2> QED
    BY <1>3, <2>1, <2>2, <2>3, <2>4, <2>5, <2>6
<1>4. ASSUME NEW r \in Receivers, Notified(r) PROVE TypeOK'
  BY <1>4 DEF Notified, Threads
<1>5. CASE UNCHANGED vars
  BY <1>5 DEF vars
<1>6. CASE Attach \/ Detach
  BY <1>6 DEF Attach, Detach
<1> QED
  BY <1>1, <1>2, <1>3, <1>4, <1>5, <1>6 DEF Next, SendStep, HandleStep, Threads

LEMMA NextInv == IInv /\ [Next]_vars => IInv'
<1> SUFFICES ASSUME IInv, [Next]_vars PROVE IInv'
  OBVIOUS
<1>0. TypeOK'
  BY NextType DEF IInv
<1> DEFINE Rest == Searching /\ Roles /\ Attached /\ ExclusiveUse /\ OwnedRecycled
<1> USE PoolAssumption
<1>1. ASSUME NEW t \in Threads, Lock(t) PROVE Rest'
  <2> USE <1>1 DEF Lock, Move, IInv, TypeOK, Threads
  <2>1. Searching'
    BY DEF Searching
  <2>2. Roles' /\ Attached'
    BY DEF Roles, Attached
  <2>3. \A u \in Threads, b \in Buffers : Holds(u, b)' <=> Holds(u, b)
    BY DEF Holds
  <2>4. ExclusiveUse'
    BY <2>3 DEF ExclusiveUse, Holds
  <2>5. OwnedRecycled'
    BY <2>3 DEF OwnedRecycled
  <2> QED
    BY <2>1, <2>2, <2>4, <2>5
<1>2. ASSUME NEW t \in Threads, Scan(t) \/ Exhausted(t) PROVE Rest'
  <2> USE <1>2 DEF Scan, Exhausted, Move, IInv, TypeOK, Threads
  <2>1. Searching'
    BY DEF Searching, Buffers
  <2>2. Roles' /\ Attached'
    BY DEF Roles, Attached
  <2>3. \A u \in Threads, b \in Buffers : Holds(u, b)' <=> Holds(u, b)
    BY DEF Holds
  <2>4. ExclusiveUse'
    BY <2>3 DEF ExclusiveUse, Holds
  <2>5. OwnedRecycled'
    BY <2>3 DEF OwnedRecycled
  <2> QED
    BY <2>1, <2>2, <2>4, <2>5
<1>3. ASSUME NEW t \in Threads,
             \/ Alloc(t) /\ t \in Senders
             \/ Take(t) /\ t \in Receivers
      PROVE Rest'
  <2> USE <1>3 DEF Alloc, Take, Move, IInv, TypeOK, Threads
  <2>1. mutex = t /\ buf[t] \in Buffers /\ free[buf[t]] /\ pc[t] = "found"
    BY DEF Searching
  <2>2. \A u \in Threads : ~Holds(u, buf[t])
    BY <2>1 DEF ExclusiveUse
  <2>3. Searching'
    BY <2>1 DEF Searching
  <2>4. Roles' /\ Attached'
    BY DEF Roles, Attached
  <2>5. /\ Holds(t, buf[t])'
        /\ \A u \in Threads \ {t}, b \in Buffers : Holds(u, b)' <=> Holds(u, b)
        /\ \A b \in Buffers : Holds(t, b)' <=> b = buf[t]
    BY <2>1 DEF Holds
  <2>6. ExclusiveUse'
    BY <2>1, <2>2, <2>5 DEF ExclusiveUse, Holds
  <2>7. OwnedRecycled'
    BY <2>1, <2>2, <2>5 DEF OwnedRecycled, Holds
  <2> QED
    BY <2>3, <2>4, <2>6, <2>7
<1>4. ASSUME NEW s \in Senders, Fill(s) PROVE Rest'
  <2> USE <1>4 DEF Fill, Move, IInv, TypeOK, Threads
  <2>1. buf[s] \in Buffers /\ Holds(s, buf[s])
    BY DEF Searching, Holds
  <2>2. \A u \in Threads \ {s} : ~Holds(u, buf[s])
    BY <2>1 DEF ExclusiveUse
  <2>3. Searching'
    BY DEF Searching
  <2>4. Roles' /\ Attached'
    BY DEF Roles, Attached
  <2>5. \A u \in Threads, b \in Buffers : Holds(u, b)' <=> Holds(u, b)
    BY DEF Holds
  <2>6. ExclusiveUse'
    BY <2>1, <2>2, <2>5 DEF ExclusiveUse, Holds
  <2>7. OwnedRecycled'
    BY <2>5 DEF OwnedRecycled
  <2> QED
    BY <2>3, <2>4, <2>6, <2>7
<1>5. ASSUME NEW t \in Threads,
             \/ Send(t) /\ t \in Senders
             \/ Notified(t) /\ Frees(t) /\ t \in Receivers
      PROVE Rest'
  <2> USE <1>5 DEF Send, Notified, Move, IInv, TypeOK, Threads
  <2>1. /\ buf[t] \in Buffers /\ Holds(t, buf[t]) /\ pc' = [pc EXCEPT ![t] = "clear"]
        /\ pc[t] \in {"send", "notify"}
        /\ free' = [free EXCEPT ![buf[t]] = TRUE] /\ UNCHANGED <<mutex, buf, frame, owned, channel>>
    BY DEF Searching, Holds
  <2>2. \A u \in Threads \ {t} : ~Holds(u, buf[t])
    BY <2>1 DEF ExclusiveUse
  <2>3. Searching'
    BY <2>1 DEF Searching, Roles
  <2>4. Roles' /\ Attached'
    BY <2>1 DEF Roles, Attached
  <2>5. /\ \A u \in Threads \ {t}, b \in Buffers : Holds(u, b)' <=> Holds(u, b)
        /\ \A b \in Buffers : ~Holds(t, b)'
    BY <2>1 DEF Holds
  <2>6. ExclusiveUse'
    BY <2>1, <2>2, <2>5 DEF ExclusiveUse, Holds
  <2>7. OwnedRecycled'
    BY <2>1, <2>2, <2>5 DEF OwnedRecycled, Holds
  <2> QED
    BY <2>3, <2>4, <2>6, <2>7
<1>6. ASSUME NEW r \in Receivers, Notified(r), ~Frees(r) PROVE Rest'
  <2> USE <1>6 DEF Notified, Move, IInv, TypeOK, Threads
  <2>1. pc[r] = "notify" /\ mutex = r /\ buf[r] \in Buffers
    BY DEF Searching
  <2>2. Searching'
    BY <2>1 DEF Searching
  <2>3. Roles' /\ Attached'
    BY DEF Roles, Attached
  <2>4. /\ \A u \in Threads \ {r}, b \in Buffers : Holds(u, b)' <=> Holds(u, b)
        /\ \A b \in Buffers : ~Holds(r, b)'
        /\ \A b \in Buffers : Holds(r, b) => b = buf[r]
    BY <2>1 DEF Holds
  <2>5. ExclusiveUse'
    BY <2>1, <2>4 DEF ExclusiveUse, Holds
  <2>6. OwnedRecycled'
    BY <2>1, <2>4 DEF OwnedRecycled, Attached, Frees
  <2> QED
    BY <2>2, <2>3, <2>5, <2>6
<1>7. ASSUME NEW t \in Threads, Clear(t) \/ ClearUnlock(t) PROVE Rest'
  <2> USE <1>7 DEF Clear, ClearUnlock, Move, IInv, TypeOK, Threads
  <2>1. Searching'
    BY DEF Searching
  <2>2. Roles' /\ Attached'
    BY DEF Roles, Attached
  <2>3. \A u \in Threads, b \in Buffers : Holds(u, b)' <=> Holds(u, b)
    BY DEF Holds
  <2>4. ExclusiveUse'
    BY <2>3 DEF ExclusiveUse, Holds
  <2>5. OwnedRecycled'
    BY <2>3 DEF OwnedRecycled
  <2> QED
    BY <2>1, <2>2, <2>4, <2>5
<1>8. ASSUME UNCHANGED vars PROVE Rest'
  <2> USE <1>8 DEF vars, IInv
  <2>1. Searching' /\ Roles' /\ Attached'
    BY DEF Searching, Roles, Attached
  <2>2. \A u \in Threads, b \in Buffers : Holds(u, b)' <=> Holds(u, b)
    BY DEF Holds
  <2>3. ExclusiveUse'
    BY <2>2 DEF ExclusiveUse
  <2>4. OwnedRecycled'
    BY <2>2 DEF OwnedRecycled
  <2> QED
    BY <2>1, <2>3, <2>4
<1>10. ASSUME Attach \/ Detach PROVE Rest'
  <2> USE <1>10 DEF Attach, Detach, IInv
  <2>1. Searching' /\ Roles' /\ Attached'
    BY DEF Searching, Roles, Attached
  <2>2. \A u \in Threads, b \in Buffers : Holds(u, b)' <=> Holds(u, b)
    BY DEF Holds
  <2>3. ExclusiveUse'
    BY <2>2 DEF ExclusiveUse
  <2>4. OwnedRecycled'
    BY <2>2 DEF OwnedRecycled
  <2> QED
    BY <2>1, <2>3, <2>4
<1>9. Rest'
  <2> HIDE DEF Rest
  <2>1. ASSUME NEW s \in Senders, SendStep(s) PROVE Rest'
    <3>1. s \in Threads
      BY DEF Threads
    <3>2. CASE Scan(s) \/ Exhausted(s)
      BY <3>1, <3>2, <1>2
    <3>3. CASE Alloc(s)
      BY <3>1, <3>3, <1>3
    <3>4. CASE Fill(s)
      BY <3>4, <1>4
    <3>5. CASE Send(s)
      BY <3>1, <3>5, <1>5
    <3>6. CASE Clear(s)
      BY <3>1, <3>6, <1>7
    <3> QED
      BY <2>1, <3>2, <3>3, <3>4, <3>5, <3>6 DEF SendStep
  <2>2. ASSUME NEW r \in Receivers, HandleStep(r) PROVE Rest'
    BY <2>2, <1>2, <1>3, <1>5, <1>6, <1>7 DEF HandleStep, Threads
  <2> QED
    BY <1>1, <1>8, <1>10, <2>1, <2>2 DEF Next
<1> QED
  BY <1>0, <1>9 DEF IInv

LEMMA Invariance == Spec => []IInv
BY InitInv, NextInv, PTL DEF Spec

(* No buffer of the pool is in two hands, for every number of sending      *)
(* threads and buffers: release() needs no mutex for that, because it only *)
(* ever makes a held buffer free, and the search takes free ones under the *)
(* mutex.                                                                  *)
THEOREM PoolSafety == Spec => [](TypeOK /\ ExclusiveUse)
<1>1. IInv => TypeOK /\ ExclusiveUse
  BY DEF IInv
<1> QED BY Invariance, <1>1, PTL

(* A buffer that alloc has once handed out is recycled as long as there is *)
(* a Protocol: whoever holds it, sender or receiving thread, is on a path  *)
(* that releases it.                                                       *)
THEOREM Recycling == Spec => []OwnedRecycled
<1>1. IInv => OwnedRecycled
  BY DEF IInv
<1> QED BY Invariance, <1>1, PTL

(* The size of a held buffer depends on who may write it: the holder, or a *)
(* release() that clears it late, and no other thread.                     *)
LEMMA NextSize == IInv /\ OwnSizeOrNone /\ [Next]_vars => OwnSizeOrNone'
<1> SUFFICES ASSUME IInv, OwnSizeOrNone, [Next]_vars,
                    NEW t \in Threads, NEW b \in Buffers, Holds(t, b)'
             PROVE  size'[b] \in {t, None}
  BY DEF OwnSizeOrNone
<1> USE PoolAssumption DEF Move, IInv, TypeOK
<1>1. ASSUME NEW u \in Threads,
             \/ Alloc(u) /\ u \in Senders
             \/ Take(u) /\ u \in Receivers
      PROVE  size'[b] \in {t, None}
  <2> USE <1>1 DEF Alloc, Take
  <2>1. buf[u] \in Buffers /\ free[buf[u]]
    BY DEF Searching
  <2>2. ~Holds(t, buf[u])
    BY <2>1 DEF ExclusiveUse
  <2>3. CASE t = u
    BY <2>1, <2>3 DEF Holds
  <2>4. CASE t # u
    BY <2>1, <2>2, <2>4 DEF Holds, OwnSizeOrNone
  <2> QED
    BY <2>3, <2>4
<1>2. ASSUME NEW u \in Threads, Clear(u) \/ ClearUnlock(u) PROVE size'[b] \in {t, None}
  BY <1>2 DEF Clear, ClearUnlock, Holds, OwnSizeOrNone
<1>3. ASSUME size' = size, Holds(t, b) PROVE size'[b] \in {t, None}
  BY <1>3 DEF OwnSizeOrNone
<1>4. ASSUME NEW u \in Threads,
             Lock(u) \/ Scan(u) \/ Exhausted(u) \/ Fill(u) \/ Send(u) \/ Notified(u)
      PROVE  size' = size /\ Holds(t, b)
  BY <1>4 DEF Lock, Scan, Exhausted, Fill, Send, Notified, Holds
<1>5. ASSUME UNCHANGED vars \/ Attach \/ Detach PROVE size' = size /\ Holds(t, b)
  BY <1>5 DEF vars, Attach, Detach, Holds
<1> QED
  BY <1>1, <1>2, <1>3, <1>4, <1>5 DEF Next, SendStep, HandleStep, Threads

(* A frame never goes out, or up, with the size of another one, although   *)
(* release() clears the size of a buffer that may already be in new hands: *)
(* the late store can only make the new frame empty.                       *)
THEOREM SizeIsOwn == Spec => []OwnSizeOrNone
<1>1. Init => OwnSizeOrNone
  BY DEF Init, OwnSizeOrNone, Holds
<1> QED
  BY <1>1, NextSize, Invariance, PTL DEF Spec

(* What LostForGood says of one step.                                      *)
StaysLost == \A b \in Buffers : Lost(b) => Lost(b)'

LEMMA NextLost == IInv /\ [Next]_vars => StaysLost
<1> SUFFICES ASSUME IInv, [Next]_vars, NEW b \in Buffers, Lost(b) PROVE Lost(b)'
  BY DEF StaysLost
<1> USE PoolAssumption DEF Move, IInv, TypeOK
<1>1. ASSUME NEW u \in Threads,
             \/ Alloc(u) /\ u \in Senders
             \/ Take(u) /\ u \in Receivers
      PROVE  Lost(b)'
  <2>1. buf[u] \in Buffers /\ free[buf[u]]
    BY <1>1 DEF Alloc, Take, Searching
  <2>2. buf[u] # b
    BY <2>1 DEF Lost
  <2> QED
    BY <1>1, <2>1, <2>2 DEF Alloc, Take, Lost, Holds
<1>2. ASSUME NEW u \in Threads, Send(u) \/ Notified(u) PROVE Lost(b)'
  <2>1. buf[u] \in Buffers /\ Holds(u, buf[u])
    BY <1>2 DEF Send, Notified, Searching, Holds
  <2>2. buf[u] # b
    BY <2>1 DEF Lost
  <2> QED
    BY <1>2, <2>1, <2>2 DEF Send, Notified, Lost, Holds
<1>3. ASSUME NEW u \in Threads,
             Lock(u) \/ Scan(u) \/ Exhausted(u) \/ Fill(u) \/ Clear(u) \/ ClearUnlock(u)
      PROVE  Lost(b)'
  BY <1>3 DEF Lock, Scan, Exhausted, Fill, Clear, ClearUnlock, Lost, Holds
<1>4. ASSUME UNCHANGED vars \/ Attach \/ Detach PROVE Lost(b)'
  BY <1>4 DEF vars, Attach, Detach, Lost, Holds
<1> QED
  BY <1>1, <1>2, <1>3, <1>4 DEF Next, SendStep, HandleStep, Threads

(* A buffer that _handle lost, because alloc never gave it an owner, is    *)
(* never found again: the pool only shrinks, for every number of threads.  *)
THEOREM LossIsFinal == Spec => LostForGood
<1>1. IInv /\ [Next]_vars => [StaysLost]_vars
  BY NextLost
<1>2. LostForGood <=> [][StaysLost]_vars
  BY DEF LostForGood, StaysLost
<1> QED
  BY <1>1, <1>2, Invariance, PTL DEF Spec
=============================================================================
