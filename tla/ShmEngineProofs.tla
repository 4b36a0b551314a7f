--------------------------- MODULE ShmEngineProofs ---------------------------
(***************************************************************************)
(* What holds of ShmEngine for every number of processes, threads, entries *)
(* and slots and every range of the counters.                              *)
(***************************************************************************)
EXTENDS ShmEngine, FiniteSetTheorems, TLAPS

(***************************************************************************)
(* Type correctness.  By itself TypeOK is not inductive: the loop index of *)
(* a waiting writer and the entry of a reader must point into the table.   *)
(***************************************************************************)
InTable ==
  /\ \A s \in Senders : spc[s] \in {"wait", "reacquire"} => si[s] < PROCS
  /\ \A p \in Procs :
       \/ proc[p] \in {"claim", "load", "store", "install", "up", "ignoring"}
       \/ rpc[p] # "none"
       => idx[p] \in Entries

(* A counter reduced modulo its range, and a slot number, are in range.    *)
LEMMA ModRange ==
  ASSUME NEW n \in Nat \ {0}, NEW k \in Int
  PROVE  k % n \in 0 .. n - 1
OBVIOUS

LEMMA InitTyping == Init => TypeOK /\ InTable
<1> SUFFICES ASSUME Init PROVE TypeOK /\ InTable
  OBVIOUS
<1> USE ShmAssumption
<1>1. Cardinality(Procs \ Joiners) \in Nat
  BY FS_Difference, FS_CardinalityType
<1>2. TypeOK
  BY <1>1 DEF Init, TypeOK, Entries, Slots, Counter, SendPCs, ProcPCs, EnrollPCs, ReadPCs
<1>3. InTable
  BY DEF Init, InTable
<1> QED
  BY <1>2, <1>3

LEMMA NextTyping == TypeOK /\ InTable /\ [Next]_vars => TypeOK' /\ InTable'
<1> SUFFICES ASSUME TypeOK, InTable, [Next]_vars PROVE TypeOK' /\ InTable'
  OBVIOUS
<1> USE ShmAssumption
<1>mod. \A k \in Int : k % W \in Counter /\ k % N \in Slots
  BY ModRange DEF Counter, Slots
<1>1. ASSUME NEW s \in Senders, SendBegin(s) PROVE TypeOK' /\ InTable'
  BY <1>1 DEF TypeOK, InTable, SendBegin, SendAt, SendTo, SendPCs, segment, history, process,
              signals, reading
<1>2. ASSUME NEW s \in Senders, SendAcquire(s) PROVE TypeOK' /\ InTable'
  BY <1>2 DEF TypeOK, InTable, SendAcquire, SendAt, SendTo, SendPCs, segment, history, process,
              signals, reading
<1>3. ASSUME NEW s \in Senders, SendScan(s) PROVE TypeOK' /\ InTable'
  BY <1>3 DEF TypeOK, InTable, SendScan, SendAt, SendTo, SendPCs, segment, history, process,
              signals, reading
<1>4. ASSUME NEW s \in Senders, SendWait(s) PROVE TypeOK' /\ InTable'
  BY <1>4 DEF TypeOK, InTable, SendWait, SendAt, SendTo, SendPCs, segment, history, process,
              signals, reading
<1>5. ASSUME NEW s \in Senders, SendCopy(s) PROVE TypeOK' /\ InTable'
  <2>1. PICK k \in Slots : slots' = [slots EXCEPT ![k] = nframes + 1]
    <3>1. tail \in Int
      BY DEF TypeOK, Counter
    <3>2. tail % N \in Slots
      BY <3>1, <1>mod
    <3> QED
      BY <1>5, <3>2, Zenon DEF SendCopy
  <2>2. /\ spc' = [spc EXCEPT ![s] = "load"] /\ nframes' = nframes + 1
        /\ UNCHANGED <<tail, pids, heads, sem, published, si, sreg, process, signals, reading>>
    BY <1>5 DEF SendCopy, SendTo
  <2> QED
    BY <2>1, <2>2 DEF TypeOK, InTable, SendPCs, process, signals, reading
<1>6. ASSUME NEW s \in Senders, SendLoad(s) PROVE TypeOK' /\ InTable'
  BY <1>6 DEF TypeOK, InTable, SendLoad, SendAt, SendTo, SendPCs, segment, history, process,
              signals, reading
<1>7. ASSUME NEW s \in Senders, SendStore(s) PROVE TypeOK' /\ InTable'
  <2>1. tail' \in Counter
    <3>1. sreg[s] + 1 \in Int
      BY DEF TypeOK, Counter
    <3>2. (sreg[s] + 1) % W \in Counter
      BY <3>1, <1>mod
    <3> QED
      BY <1>7, <3>2, Zenon DEF SendStore
  <2>2. /\ spc' = [spc EXCEPT ![s] = "notify"] /\ published' = published + 1
        /\ si' = [si EXCEPT ![s] = 0]
        /\ UNCHANGED <<pids, heads, slots, sem, nframes, sreg, process, signals, reading>>
    BY <1>7 DEF SendStore, SendTo
  <2> QED
    BY <2>1, <2>2 DEF TypeOK, InTable, SendPCs, process, signals, reading
<1>8. ASSUME NEW s \in Senders, SendNotify(s) PROVE TypeOK' /\ InTable'
  <2>1. pending' \in [Procs -> BOOLEAN]
    BY <1>8 DEF TypeOK, SendNotify
  <2> QED
    BY <1>8, <2>1 DEF TypeOK, InTable, SendNotify, SendAt, SendTo, SendPCs, segment, history,
                      process, reading
<1>9. ASSUME NEW s \in Senders, SemopInterrupted(s) PROVE TypeOK' /\ InTable'
  BY <1>9 DEF TypeOK, InTable, SemopInterrupted, ProcPCs, EnrollPCs, segment, history, sending,
              reading
<1>10. ASSUME NEW p \in Procs, Handler(p) PROVE TypeOK' /\ InTable'
  BY <1>10 DEF TypeOK, InTable, Handler, ReadAt, ReadTo, ReadPCs, segment, history, sending, process
<1>11. ASSUME NEW p \in Procs, ReadWake(p) PROVE TypeOK' /\ InTable'
  BY <1>11 DEF TypeOK, InTable, ReadWake, ReadAt, ReadTo, ReadPCs, segment, history, sending, process
<1>12. ASSUME NEW p \in Procs, ReadLoad(p) PROVE TypeOK' /\ InTable'
  BY <1>12 DEF TypeOK, InTable, ReadLoad, ReadAt, ReadTo, ReadPCs, segment, history, sending,
               process, signals
<1>13. ASSUME NEW p \in Procs, ReadCopy(p) PROVE TypeOK' /\ InTable'
  <2>1. PICK k \in Slots : rframe' = [rframe EXCEPT ![p] = slots[k]]
    <3>1. reg[p] \in Int
      BY DEF TypeOK, Counter
    <3>2. reg[p] % N \in Slots
      BY <3>1, <1>mod
    <3> QED
      BY <1>13, <3>2, Zenon DEF ReadCopy
  <2>2. /\ rpc[p] = "copy" /\ rpc' = [rpc EXCEPT ![p] = "advance"]
        /\ UNCHANGED <<segment, sem, history, sending, process, signals, reg, got>>
    BY <1>13 DEF ReadCopy, ReadAt, ReadTo
  <2> QED
    BY <2>1, <2>2 DEF TypeOK, InTable, ReadPCs, segment, history, sending, process, signals
<1>14. ASSUME NEW p \in Procs, ReadAdvance(p) PROVE TypeOK' /\ InTable'
  <2>1. PICK h \in Counter : heads' = [heads EXCEPT ![idx[p]] = h]
    <3>1. reg[p] + 1 \in Int
      BY DEF TypeOK, Counter
    <3>2. (reg[p] + 1) % W \in Counter
      BY <3>1, <1>mod
    <3> QED
      BY <1>14, <3>2, Zenon DEF ReadAdvance
  <2>2. /\ rpc[p] = "advance" /\ rpc' = [rpc EXCEPT ![p] = "load"]
        /\ got' = [got EXCEPT ![p] = rframe[p]]
        /\ UNCHANGED <<tail, pids, slots, sem, history, sending, process, signals, reg, rframe>>
    BY <1>14 DEF ReadAdvance, ReadAt, ReadTo
  <2> QED
    BY <2>1, <2>2 DEF TypeOK, InTable, ReadPCs, history, sending, process, signals
<1>15. ASSUME NEW p \in Procs, Construct(p) PROVE TypeOK' /\ InTable'
  BY <1>15 DEF TypeOK, InTable, Construct, ProcMove, ProcPCs, EnrollPCs, segment, history, sending,
               signals, reading
<1>16. ASSUME NEW p \in Procs, EnrollAcquire(p) PROVE TypeOK' /\ InTable'
  BY <1>16 DEF TypeOK, InTable, EnrollAcquire, ProcMove, ProcPCs, EnrollPCs, segment, history,
               sending, signals, reading
<1>17. ASSUME NEW p \in Procs, EnrollFind(p) PROVE TypeOK' /\ InTable'
  BY <1>17 DEF TypeOK, InTable, EnrollFind, Find, ProcMove, ProcPCs, EnrollPCs, segment, history,
               sending, signals, reading
<1>18. ASSUME NEW p \in Procs, EnrollClaim(p) PROVE TypeOK' /\ InTable'
  BY <1>18 DEF TypeOK, InTable, EnrollClaim, ProcMove, ProcPCs, EnrollPCs, history, sending,
               signals, reading
<1>19. ASSUME NEW p \in Procs, EnrollLoad(p) PROVE TypeOK' /\ InTable'
  BY <1>19 DEF TypeOK, InTable, EnrollLoad, ProcMove, ProcPCs, EnrollPCs, segment, history,
               sending, signals
<1>20. ASSUME NEW p \in Procs, EnrollStore(p) PROVE TypeOK' /\ InTable'
  BY <1>20 DEF TypeOK, InTable, EnrollStore, ProcMove, ProcPCs, EnrollPCs, history, sending,
               signals, reading
<1>21. ASSUME NEW p \in Procs, EnrollRelease(p) PROVE TypeOK' /\ InTable'
  BY <1>21 DEF TypeOK, InTable, EnrollRelease, ProcMove, ProcPCs, EnrollPCs, segment, history,
               sending, signals, reading
<1>22. ASSUME NEW p \in Procs, Install(p) PROVE TypeOK' /\ InTable'
  BY <1>22 DEF TypeOK, InTable, Install, ProcMove, ReadTo, ProcPCs, EnrollPCs, ReadPCs, segment,
               history, sending, signals
<1>23. ASSUME NEW p \in Procs, LeaveIgnore(p) PROVE TypeOK' /\ InTable'
  BY <1>23 DEF TypeOK, InTable, LeaveIgnore, ProcMove, ProcPCs, segment, history, sending, reading
<1>24. ASSUME NEW p \in Procs, LeaveDeregister(p) PROVE TypeOK' /\ InTable'
  BY <1>24 DEF TypeOK, InTable, LeaveDeregister, ProcMove, ProcPCs, history, sending, signals,
               reading
<1>25. ASSUME NEW p \in Procs, LeaveStop(p) PROVE TypeOK' /\ InTable'
  BY <1>25 DEF TypeOK, InTable, LeaveStop, ProcMove, ProcPCs, segment, history, sending, reading
<1>26. ASSUME NEW p \in Procs, LeaveJoin(p) PROVE TypeOK' /\ InTable'
  BY <1>26 DEF TypeOK, InTable, LeaveJoin, ProcMove, ProcPCs, segment, history, sending, signals,
               reading
<1>27. CASE UNCHANGED vars
  BY <1>27 DEF TypeOK, InTable, vars, segment, history, sending, process, signals, reading
<1> QED
  BY <1>1, <1>2, <1>3, <1>4, <1>5, <1>6, <1>7, <1>8, <1>9, <1>10, <1>11, <1>12, <1>13, <1>14,
     <1>15, <1>16, <1>17, <1>18, <1>19, <1>20, <1>21, <1>22, <1>23, <1>24, <1>25, <1>26, <1>27
     DEF Next, SendStep, ReadStep, EnrollStep, LeaveStep

(* The engine never leaves the table of entries, the ring or the range of  *)
(* its counters.                                                           *)
THEOREM Typing == Spec => [](TypeOK /\ InTable)
BY InitTyping, NextTyping, PTL DEF Spec

(***************************************************************************)
(* The permits of the semaphore.                                           *)
(***************************************************************************)
LEMMA CardinalityPlus ==
  ASSUME NEW S, NEW T, NEW x, IsFiniteSet(S), x \notin S, T = S \cup {x}
  PROVE  Cardinality(T) = Cardinality(S) + 1
BY FS_AddElement

LEMMA CardinalityMinus ==
  ASSUME NEW S, NEW T, NEW x, IsFiniteSet(S), x \in S, T = S \ {x}
  PROVE  Cardinality(T) = Cardinality(S) - 1
BY FS_RemoveElement

LEMMA HoldersFinite ==
  /\ IsFiniteSet(SendHolders) /\ Cardinality(SendHolders) \in Nat
  /\ IsFiniteSet(EnrollHolders) /\ Cardinality(EnrollHolders) \in Nat
BY ShmAssumption, FS_Subset, FS_CardinalityType DEF SendHolders, EnrollHolders

(* A step that takes a permit or gives one back changes the set of its     *)
(* holders by exactly that thread or process; a constructor begins; every  *)
(* other step leaves the permits and the holders alone.                    *)
LEMMA NextPermits ==
  TypeOK /\ [Next]_vars => (Constructed' = Constructed => Permits' = Permits)
<1> SUFFICES ASSUME TypeOK, [Next]_vars, Constructed' = Constructed PROVE Permits' = Permits
  OBVIOUS
<1> DEFINE Quiet == /\ sem' = sem /\ SendHolders' = SendHolders
                    /\ EnrollHolders' = EnrollHolders
<1>quiet. ASSUME Quiet PROVE Permits' = Permits
  BY <1>quiet DEF Permits
<1>1. ASSUME NEW s \in Senders,
             SendBegin(s) \/ SendScan(s) \/ SendCopy(s) \/ SendLoad(s) \/ SendStore(s)
      PROVE  Quiet
  <2>1. /\ sem' = sem /\ proc' = proc
        /\ \E pc, qc \in SendPCs :
             /\ spc[s] = pc /\ spc' = [spc EXCEPT ![s] = qc]
             /\ pc \in {"idle", "acquire", "reacquire"} <=> qc \in {"idle", "acquire", "reacquire"}
    BY <1>1 DEF TypeOK, SendBegin, SendScan, SendCopy, SendLoad, SendStore, SendAt, SendTo,
                SendPCs, process
  <2> QED
    BY <2>1 DEF TypeOK, SendHolders, EnrollHolders
<1>2. ASSUME NEW s \in Senders, SendAcquire(s) PROVE Permits' = Permits
  <2>1. s \notin SendHolders /\ SendHolders' = SendHolders \cup {s}
    BY <1>2 DEF TypeOK, SendAcquire, SendAt, SendTo, SendHolders, SendPCs
  <2>2. sem' = sem - 1 /\ EnrollHolders' = EnrollHolders
    BY <1>2 DEF SendAcquire, process, EnrollHolders
  <2>3. Cardinality(SendHolders') = Cardinality(SendHolders) + 1
    BY <2>1, HoldersFinite, CardinalityPlus
  <2> QED
    BY <2>2, <2>3, HoldersFinite DEF Permits, TypeOK
<1>3. ASSUME NEW s \in Senders, SendWait(s) \/ SendNotify(s) PROVE Permits' = Permits
  <2>1. EnrollHolders' = EnrollHolders
    BY <1>3 DEF SendWait, SendNotify, process, EnrollHolders
  <2>2. \/ Quiet
        \/ sem' = sem + 1 /\ s \in SendHolders /\ SendHolders' = SendHolders \ {s}
    BY <1>3, <2>1 DEF TypeOK, SendWait, SendNotify, SendAt, SendTo, SendHolders, SendPCs
  <2>3. CASE Quiet
    BY <2>3, <1>quiet
  <2>4. CASE sem' = sem + 1 /\ s \in SendHolders /\ SendHolders' = SendHolders \ {s}
    <3>1. Cardinality(SendHolders') = Cardinality(SendHolders) - 1
      BY <2>4, HoldersFinite, CardinalityMinus
    <3> QED
      BY <2>1, <2>4, <3>1, HoldersFinite DEF Permits, TypeOK
  <2> QED
    BY <2>2, <2>3, <2>4
<1>4. ASSUME NEW s \in Senders, SemopInterrupted(s) PROVE Quiet
  BY <1>4, ShmAssumption DEF TypeOK, SemopInterrupted, SendAt, sending, SendHolders, EnrollHolders
<1>5. ASSUME NEW p \in Procs, Handler(p) \/ ReadStep(p) PROVE Quiet
  BY <1>5 DEF Handler, ReadStep, ReadWake, ReadLoad, ReadCopy, ReadAdvance, sending, process,
              SendHolders, EnrollHolders
<1>6. ASSUME NEW p \in Procs, Construct(p) PROVE FALSE
  <2>1. p \notin Constructed /\ p \in Constructed'
    BY <1>6 DEF TypeOK, Construct, ProcMove, Constructed
  <2> QED
    BY <2>1
<1>7. ASSUME NEW p \in Procs, EnrollAcquire(p) PROVE Permits' = Permits
  <2>1. p \notin EnrollHolders /\ EnrollHolders' = EnrollHolders \cup {p}
    BY <1>7 DEF TypeOK, EnrollAcquire, ProcMove, EnrollHolders
  <2>2. sem' = sem - 1 /\ SendHolders' = SendHolders
    BY <1>7 DEF TypeOK, EnrollAcquire, ProcMove, sending, SendHolders
  <2>3. Cardinality(EnrollHolders') = Cardinality(EnrollHolders) + 1
    BY <2>1, HoldersFinite, CardinalityPlus
  <2> QED
    BY <2>2, <2>3, HoldersFinite DEF Permits, TypeOK
<1>8. ASSUME NEW p \in Procs, EnrollRelease(p) PROVE Permits' = Permits
  <2>1. p \in EnrollHolders /\ EnrollHolders' = EnrollHolders \ {p}
    BY <1>8 DEF TypeOK, EnrollRelease, ProcMove, EnrollHolders
  <2>2. sem' = sem + 1 /\ SendHolders' = SendHolders
    BY <1>8 DEF TypeOK, EnrollRelease, ProcMove, sending, SendHolders
  <2>3. Cardinality(EnrollHolders') = Cardinality(EnrollHolders) - 1
    BY <2>1, HoldersFinite, CardinalityMinus
  <2> QED
    BY <2>2, <2>3, HoldersFinite DEF Permits, TypeOK
<1>9. ASSUME NEW p \in Procs,
             EnrollFind(p) \/ EnrollClaim(p) \/ EnrollLoad(p) \/ EnrollStore(p) \/ Install(p)
      PROVE  Quiet
  BY <1>9 DEF TypeOK, EnrollFind, EnrollClaim, EnrollLoad, EnrollStore, Install, ProcMove, sending,
              SendHolders, EnrollHolders
<1>10. ASSUME NEW p \in Procs, LeaveIgnore(p) \/ LeaveStep(p) PROVE Quiet
  BY <1>10 DEF TypeOK, LeaveIgnore, LeaveStep, LeaveDeregister, LeaveStop, LeaveJoin, ProcMove,
               sending, SendHolders, EnrollHolders
<1>11. CASE UNCHANGED vars
  BY <1>11, <1>quiet DEF vars, sending, process, SendHolders, EnrollHolders
<1> QED
  BY <1>1, <1>2, <1>3, <1>4, <1>5, <1>6, <1>7, <1>8, <1>9, <1>10, <1>11, <1>quiet
     DEF Next, SendStep, EnrollStep

(* Through every interleaving of writers, constructors, destructors and    *)
(* processes that exit on EINTR or a full table, the permits of MUTEX,     *)
(* free and held, stay as many as the constructors made.                   *)
THEOREM PermitsConserved == Spec => PermitsKept
<1>1. TypeOK /\ [Next]_vars => [Constructed' = Constructed => Permits' = Permits]_vars
  BY NextPermits
<1> QED
  BY <1>1, InitTyping, NextTyping, PTL DEF Spec, PermitsKept

(***************************************************************************)
(* The wake-up of the readers.  A process that was registered from the     *)
(* start keeps its entry to itself until it leaves: nobody else's pid gets *)
(* into it and nobody else moves its head.                                 *)
(***************************************************************************)
OwnEntry ==
  \A p \in Procs \ Joiners :
    /\ proc[p] \notin EnrollPCs
    /\ proc[p] \in {"up", "ignoring"} =>
         pids[idx[p]] = p /\ \A q \in Procs \ {p} : idx[q] # idx[p]

LEMMA InitOwnEntry == Init => OwnEntry
<1> SUFFICES ASSUME Init, NEW p \in Procs \ Joiners
             PROVE  /\ proc[p] = "up" /\ pids[idx[p]] = p
                    /\ \A q \in Procs \ {p} : idx[q] # idx[p]
  BY DEF OwnEntry, EnrollPCs
<1>1. proc[p] = "up" /\ pids[idx[p]] = p /\ idx[p] # -1
  BY DEF Init
<1>2. ASSUME NEW q \in Procs \ {p} PROVE idx[q] # idx[p]
  BY <1>1 DEF Init
<1> QED
  BY <1>1, <1>2

LEMMA NextOwnEntry == TypeOK /\ InTable /\ OwnEntry /\ [Next]_vars => OwnEntry'
<1> SUFFICES ASSUME TypeOK, InTable, OwnEntry, [Next]_vars PROVE OwnEntry'
  OBVIOUS
<1> USE ShmAssumption
<1>1. ASSUME UNCHANGED <<proc, idx, pids>> PROVE OwnEntry'
  BY <1>1 DEF OwnEntry
<1>2. ASSUME NEW s \in Senders, SendBegin(s) \/ SendStep(s) PROVE OwnEntry'
  BY <1>1, <1>2 DEF SendBegin, SendStep, SendAcquire, SendScan, SendWait, SendCopy, SendLoad,
                    SendStore, SendNotify, segment, process
<1>3. ASSUME NEW s \in Senders, SemopInterrupted(s) PROVE OwnEntry'
  BY <1>3 DEF TypeOK, OwnEntry, SemopInterrupted, EnrollPCs, segment
<1>4. ASSUME NEW p \in Procs, Handler(p) \/ ReadStep(p) PROVE OwnEntry'
  BY <1>1, <1>4 DEF Handler, ReadStep, ReadWake, ReadLoad, ReadCopy, ReadAdvance, segment, process
<1>5. ASSUME NEW p \in Procs, Construct(p) \/ EnrollAcquire(p) \/ EnrollRelease(p) \/ Install(p)
                              \/ EnrollLoad(p) \/ EnrollStore(p)
      PROVE  OwnEntry'
  <2>1. p \in Joiners
    BY <1>5 DEF OwnEntry, Construct, EnrollAcquire, EnrollRelease, Install, EnrollLoad, EnrollStore,
                ProcMove, EnrollPCs
  <2>2. /\ \A q \in Procs \ {p} : proc'[q] = proc[q]
        /\ pids' = pids /\ idx' = idx
    BY <1>5 DEF TypeOK, Construct, EnrollAcquire, EnrollRelease, Install, EnrollLoad, EnrollStore,
                ProcMove, segment
  <2> QED
    BY <2>1, <2>2 DEF OwnEntry
<1>6. ASSUME NEW p \in Procs, EnrollFind(p) PROVE OwnEntry'
  <2>1. p \in Joiners /\ pids' = pids /\ \A q \in Procs \ {p} : proc'[q] = proc[q]
    BY <1>6 DEF TypeOK, OwnEntry, EnrollFind, ProcMove, EnrollPCs, segment
  <2>2. \/ idx' = idx
        \/ \E i \in Entries : pids[i] = NoPid /\ idx' = [idx EXCEPT ![p] = i]
    BY <1>6 DEF EnrollFind, Find
  <2> QED
    BY <2>1, <2>2 DEF OwnEntry, TypeOK
<1>7. ASSUME NEW p \in Procs, EnrollClaim(p) PROVE OwnEntry'
  <2>1. p \in Joiners /\ idx' = idx /\ \A q \in Procs \ {p} : proc'[q] = proc[q]
    BY <1>7 DEF TypeOK, OwnEntry, EnrollClaim, ProcMove, EnrollPCs
  <2>2. idx[p] \in Entries /\ pids' = [pids EXCEPT ![idx[p]] = p]
    BY <1>7 DEF InTable, EnrollClaim, ProcMove
  <2> QED
    BY <2>1, <2>2 DEF OwnEntry, TypeOK
<1>8. ASSUME NEW p \in Procs, LeaveIgnore(p) \/ LeaveStop(p) \/ LeaveJoin(p) PROVE OwnEntry'
  <2>1. /\ pids' = pids /\ idx' = idx
        /\ \A q \in Procs \ {p} : proc'[q] = proc[q]
        /\ proc'[p] \in {"ignoring", "stopping", "gone"}
        /\ proc'[p] = "ignoring" => proc[p] = "up"
    BY <1>8 DEF TypeOK, LeaveIgnore, LeaveStop, LeaveJoin, ProcMove, segment
  <2> QED
    BY <2>1 DEF OwnEntry, EnrollPCs
<1>9. ASSUME NEW p \in Procs, LeaveDeregister(p) PROVE OwnEntry'
  <2>1. /\ idx' = idx /\ proc'[p] = "deregistered"
        /\ \A q \in Procs \ {p} : proc'[q] = proc[q]
        /\ \A i \in Entries : pids[i] # p => pids'[i] = pids[i]
    BY <1>9 DEF TypeOK, LeaveDeregister, Find, ProcMove
  <2>2. \A q \in Procs \ Joiners : proc[q] \in {"up", "ignoring"} => idx[q] \in Entries
    BY DEF InTable
  <2> QED
    BY <2>1, <2>2 DEF OwnEntry, EnrollPCs
<1>10. CASE UNCHANGED vars
  BY <1>1, <1>10 DEF vars, segment, process
<1> QED
  BY <1>2, <1>3, <1>4, <1>5, <1>6, <1>7, <1>8, <1>9, <1>10 DEF Next, EnrollStep, LeaveStep

Asleep(p) == proc[p] = "up" /\ rpc[p] = "sleep" /\ notify[p] = 0 /\ heads[idx[p]] # tail
Woken(p) == pending[p] \/ \E s \in Senders : SendAt(s, "notify") /\ si[s] <= idx[p]

(* The two threads of one process are what breaks the wake-up: one of them *)
(* interrupted in semop ends the other in the middle of its signalling.    *)
OneThreadEach == \A s, t \in Senders : ProcOf[s] = ProcOf[t] => s = t

LEMMA NextNoLostWakeup ==
  ASSUME OneThreadEach, TypeOK, InTable, OwnEntry, NoLostWakeup, [Next]_vars
  PROVE  NoLostWakeup'
<1> SUFFICES ASSUME NEW p \in Readers \ Joiners, Asleep(p)' PROVE Woken(p)'
  BY DEF NoLostWakeup, Asleep, Woken, Readers
<1> USE ShmAssumption
<1>p. /\ p \in Procs /\ proc[p] \notin EnrollPCs
      /\ \A s \in Senders : ProcOf[s] # p
      /\ Asleep(p) => Woken(p)
  BY DEF Readers, OwnEntry, NoLostWakeup, Asleep, Woken
<1>e. ASSUME proc[p] = "up"
      PROVE  /\ idx[p] \in Entries /\ pids[idx[p]] = p
             /\ \A q \in Procs \ {p} : idx[q] # idx[p]
  BY <1>e, <1>p DEF OwnEntry, InTable
<1>1. ASSUME NEW s \in Senders, SendBegin(s) \/ SendAcquire(s) \/ SendScan(s) \/ SendWait(s)
                                \/ SendCopy(s) \/ SendLoad(s)
      PROVE  Woken(p)'
  <2>1. /\ UNCHANGED <<proc, rpc, notify, heads, idx, tail, pending>>
        /\ spc[s] # "notify"
        /\ \A t \in Senders \ {s} : spc'[t] = spc[t] /\ si'[t] = si[t]
    BY <1>1 DEF TypeOK, SendBegin, SendAcquire, SendScan, SendWait, SendCopy, SendLoad, SendAt, SendTo,
                segment, process, signals, reading
  <2>2. Asleep(p)
    BY <2>1 DEF Asleep
  <2> QED
    BY <1>p, <2>1, <2>2 DEF Woken, SendAt
<1>2. ASSUME NEW s \in Senders, SendStore(s) PROVE Woken(p)'
  <2>1. /\ UNCHANGED <<proc, idx>> /\ proc[ProcOf[s]] = "up"
        /\ spc'[s] = "notify" /\ si'[s] = 0
    BY <1>2 DEF TypeOK, SendStore, SendAt, SendTo, process
  <2>2. idx[p] >= 0
    BY <2>1, <1>e DEF Asleep, Entries
  <2> QED
    BY <2>1, <2>2 DEF Woken, SendAt
<1>3. ASSUME NEW s \in Senders, SendNotify(s) PROVE Woken(p)'
  <2>1. /\ UNCHANGED <<proc, rpc, notify, heads, idx, tail>>
        /\ SendAt(s, "notify")
        /\ \A t \in Senders \ {s} : spc'[t] = spc[t] /\ si'[t] = si[t]
        /\ pending[p] => pending'[p]
    BY <1>3, <1>p DEF TypeOK, SendNotify, SendTo, segment, process, reading
  <2>2. Asleep(p) /\ proc[p] = "up"
    BY <2>1 DEF Asleep
  <2>3. CASE pending[p] \/ \E t \in Senders \ {s} : SendAt(t, "notify") /\ si[t] <= idx[p]
    BY <2>1, <2>3 DEF Woken, SendAt
  <2>4. CASE si[s] < idx[p]
    <3>1. si[s] < PROCS /\ si[s] + 1 <= idx[p]
      BY <2>4, <2>2, <1>e DEF TypeOK, Entries
    <3>2. si'[s] <= idx'[p] /\ spc'[s] = "notify"
      BY <1>3, <2>1, <3>1 DEF TypeOK, SendNotify, SendAt
    <3> QED
      BY <2>1, <3>2 DEF Woken, SendAt
  <2>5. CASE si[s] = idx[p]
    <3>1. si[s] < PROCS /\ pids[si[s]] = p
      BY <2>5, <2>2, <1>e DEF Entries
    <3>2. pending'[p]
      BY <1>3, <1>p, <2>2, <3>1 DEF SendNotify, Catches
    <3> QED
      BY <3>2 DEF Woken
  <2>6. si[s] <= idx[p] => si[s] < idx[p] \/ si[s] = idx[p]
    BY <2>2, <1>e DEF TypeOK, Entries
  <2> QED
    BY <1>p, <2>2, <2>3, <2>4, <2>5, <2>6 DEF Woken
<1>4. ASSUME NEW s \in Senders, SemopInterrupted(s) PROVE Woken(p)'
  <2>1. /\ UNCHANGED <<rpc, notify, heads, idx, tail, spc, si>>
        /\ spc[s] # "notify"
        /\ \A q \in Procs \ {ProcOf[s]} : proc'[q] = proc[q] /\ pending'[q] = pending[q]
    BY <1>4 DEF TypeOK, SemopInterrupted, SendAt, segment, sending, reading
  <2>2. Asleep(p) /\ pending'[p] = pending[p]
    BY <1>p, <2>1 DEF Asleep
  <2>3. \A t \in Senders : SendAt(t, "notify") => SendAt(t, "notify")'
    BY <2>1 DEF SendAt, OneThreadEach
  <2> QED
    BY <1>p, <2>1, <2>2, <2>3 DEF Woken
<1>5. ASSUME NEW q \in Procs, Handler(q) \/ ReadStep(q) PROVE Woken(p)'
  <2>1. UNCHANGED <<proc, idx, tail, spc, si>>
    BY <1>5 DEF Handler, ReadStep, ReadWake, ReadLoad, ReadCopy, ReadAdvance, segment, sending, process
  <2>2. q # p
    <3>1. CASE q = p /\ Handler(q)
      BY <3>1, <1>p, <2>1 DEF Asleep, Handler, TypeOK
    <3>2. CASE q = p /\ ReadStep(q)
      BY <3>2, <1>p DEF Asleep, ReadStep, ReadWake, ReadLoad, ReadCopy, ReadAdvance, ReadTo,
                        TypeOK, segment, process
    <3> QED
      BY <1>5, <3>1, <3>2
  <2>3. rpc'[p] = rpc[p] /\ notify'[p] = notify[p] /\ pending'[p] = pending[p]
    BY <1>5, <1>p, <2>2 DEF TypeOK, Handler, ReadStep, ReadWake, ReadLoad, ReadCopy, ReadAdvance,
                            ReadTo, signals
  <2>4. proc[p] = "up" /\ heads'[idx[p]] = heads[idx[p]]
    <3>1. proc[p] = "up" /\ idx[q] # idx[p]
      BY <1>e, <2>1, <2>2 DEF Asleep
    <3> QED
      BY <1>5, <1>e, <3>1 DEF TypeOK, Handler, ReadStep, ReadWake, ReadLoad, ReadCopy, ReadAdvance,
                              segment
  <2> QED
    BY <1>p, <2>1, <2>3, <2>4 DEF Asleep, Woken, SendAt
<1>6. ASSUME NEW q \in Procs, Construct(q) \/ EnrollStep(q) \/ LeaveIgnore(q) \/ LeaveStep(q)
      PROVE  Woken(p)'
  <2>1. /\ UNCHANGED <<tail, spc, si>>
        /\ \A r \in Procs \ {q} : /\ proc'[r] = proc[r] /\ idx'[r] = idx[r] /\ rpc'[r] = rpc[r]
                                  /\ notify'[r] = notify[r] /\ pending'[r] = pending[r]
    BY <1>6 DEF TypeOK, Construct, EnrollStep, LeaveStep, EnrollAcquire, EnrollFind, EnrollClaim,
                EnrollLoad, EnrollStore, EnrollRelease, Install, LeaveIgnore, LeaveDeregister,
                LeaveStop, LeaveJoin, ProcMove, ReadTo, segment, sending, signals, reading
  <2>2. \A t \in Senders : ProcOf[t] = q => ~SendAt(t, "notify")
    BY <1>6 DEF Construct, EnrollStep, LeaveStep, EnrollAcquire, EnrollFind, EnrollClaim,
                EnrollLoad, EnrollStore, EnrollRelease, Install, LeaveIgnore, LeaveDeregister,
                LeaveStop, LeaveJoin, ProcMove, SendAt
  <2>3. q # p
    BY <1>6, <1>p DEF Asleep, TypeOK, Construct, EnrollStep, LeaveStep, EnrollAcquire, EnrollFind,
                EnrollClaim, EnrollLoad, EnrollStore, EnrollRelease, Install, LeaveIgnore,
                LeaveDeregister, LeaveStop, LeaveJoin, ProcMove, EnrollPCs
  <2>4. proc[p] = "up" /\ heads'[idx[p]] = heads[idx[p]]
    <3>1. proc[p] = "up" /\ idx[q] # idx[p]
      BY <1>e, <1>p, <2>1, <2>3 DEF Asleep
    <3> QED
      BY <1>6, <1>e, <3>1 DEF TypeOK, Construct, EnrollStep, LeaveStep, EnrollAcquire, EnrollFind,
                EnrollClaim, EnrollLoad, EnrollStore, EnrollRelease, Install, LeaveIgnore,
                LeaveDeregister, LeaveStop, LeaveJoin, segment
  <2>5. Asleep(p)
    BY <1>p, <2>1, <2>3, <2>4 DEF Asleep
  <2> QED
    BY <1>p, <2>1, <2>2, <2>3, <2>5 DEF Woken, SendAt
<1>7. CASE UNCHANGED vars
  BY <1>7, <1>p DEF vars, Asleep, Woken, SendAt, segment, sending, process, signals, reading
<1> QED
  BY <1>1, <1>2, <1>3, <1>4, <1>5, <1>6, <1>7 DEF Next, SendStep

LEMMA InitNoLostWakeup == Init => NoLostWakeup
<1> SUFFICES ASSUME Init, NEW p \in Readers \ Joiners PROVE heads[idx[p]] = tail
  BY DEF NoLostWakeup
<1> QED
  BY DEF Init, Readers

(* When every process sends from one thread, a registered reader is never  *)
(* left asleep with frames waiting: for any number of writers and of       *)
(* processes that come and go, and although the writers do not exclude     *)
(* each other.                                                             *)
THEOREM WakeupNotLost ==
  ASSUME OneThreadEach
  PROVE  Spec => []NoLostWakeup
BY OneThreadEach, InitTyping, NextTyping, InitOwnEntry, NextOwnEntry, InitNoLostWakeup,
   NextNoLostWakeup, PTL DEF Spec
==============================================================================
