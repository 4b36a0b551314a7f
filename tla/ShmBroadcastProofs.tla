-------------------------- MODULE ShmBroadcastProofs --------------------------
(***************************************************************************)
(* The ring of ShmEngine implements the bounded broadcast for any number   *)
(* of processes, threads, entries and slots, when the writers take turns   *)
(* and no entry of the table is ever given to two processes.               *)
(*                                                                         *)
(* The argument: tail and the heads are the numbers of frames published    *)
(* and taken, modulo W; a slot holds the last frame copied to it; and the  *)
(* writer, past the entry of a reader in its scan, has room there.  So the *)
(* frame a reader is about to copy is the next one and not yet overwritten.*)
(***************************************************************************)
EXTENDS ShmEngineProofs

(* The writers take turns, from the first _sem_op(MUTEX, -1) to tail++ and *)
(* while they wait for room: what a thread saw of the heads in its scan is *)
(* still true when it copies its frame.                                    *)
Writing(s) == spc[s] \in {"scan", "wait", "reacquire", "copy", "load", "store"}
Serial == \A s, t \in Senders : Writing(s) /\ Writing(t) => s = t

(* An entry without a store to heads[i] has head zero: once 2^32 frames    *)
(* were published, that is a head like any other to the writer.            *)
NoWrapYet == Joiners = {} \/ published < W

(* No entry is given to two processes, one after the other included.       *)
NoSharedEntry == \A p, q \in Procs : idx[p] = idx[q] /\ idx[p] # -1 => p = q

-----------------------------------------------------------------------------
(* Arithmetic modulo n.                                                    *)
LEMMA DivMod ==
  ASSUME NEW n \in Nat \ {0}, NEW a \in Int
  PROVE  a \div n \in Int /\ a % n \in 0 .. n - 1 /\ a = n * (a \div n) + (a % n)
OBVIOUS

LEMMA MultipleAtLeast ==
  ASSUME NEW n \in Nat \ {0}, NEW x \in Int, x >= 1
  PROVE  n * x \in Int /\ n * x >= n
OBVIOUS

LEMMA RemainderUnique ==
  ASSUME NEW n \in Nat \ {0}, NEW p \in Int, NEW q \in Int,
         NEW r \in 0 .. n - 1, NEW s \in 0 .. n - 1, n * p + r = n * q + s
  PROVE  r = s
<1>1. /\ n * p \in Int /\ n * q \in Int
      /\ n * (p - q) = n * p - n * q /\ n * (q - p) = n * q - n * p
  OBVIOUS
<1>2. CASE p = q
  BY <1>1, <1>2
<1>3. CASE p >= q + 1
  <2>1. p - q \in Int /\ p - q >= 1
    BY <1>3
  <2>2. n * (p - q) >= n
    BY <2>1, MultipleAtLeast
  <2> QED BY <1>1, <2>2
<1>4. CASE q >= p + 1
  <2>1. q - p \in Int /\ q - p >= 1
    BY <1>4
  <2>2. n * (q - p) >= n
    BY <2>1, MultipleAtLeast
  <2> QED BY <1>1, <2>2
<1> QED BY <1>2, <1>3, <1>4

LEMMA RemainderIs ==
  ASSUME NEW n \in Nat \ {0}, NEW q \in Int, NEW r \in 0 .. n - 1, NEW a \in Int, a = n * q + r
  PROVE  a % n = r
BY DivMod, RemainderUnique

(* Incrementing a counter that wraps.                                      *)
LEMMA ModNext ==
  ASSUME NEW n \in Nat \ {0}, NEW a \in Int
  PROVE  ((a % n) + 1) % n = (a + 1) % n
<1> DEFINE q == a \div n
           r == a % n
<1>1. q \in Int /\ r \in 0 .. n - 1 /\ a = n * q + r
  BY DivMod
<1> HIDE DEF q, r
<1>2. n * q \in Int /\ n * (q + 1) = n * q + n
  BY <1>1
<1>3. CASE r + 1 < n
  <2>1. (a + 1) % n = r + 1
    <3>1. a + 1 = n * q + (r + 1) /\ r + 1 \in 0 .. n - 1 /\ a + 1 \in Int
      BY <1>1, <1>2, <1>3
    <3> QED BY <1>1, <3>1, RemainderIs
  <2>2. (r + 1) % n = r + 1
    BY <1>1, <1>3
  <2> QED BY <2>1, <2>2 DEF r
<1>4. CASE r + 1 = n
  <2>1. (a + 1) % n = 0
    <3>1. a + 1 = n * (q + 1) + 0 /\ 0 \in 0 .. n - 1 /\ a + 1 \in Int /\ q + 1 \in Int
      BY <1>1, <1>2, <1>4
    <3> QED BY <3>1, RemainderIs
  <2>2. (r + 1) % n = 0
    <3>1. r + 1 = n * 1 + 0 /\ 0 \in 0 .. n - 1 /\ r + 1 \in Int
      BY <1>4, <1>1
    <3> QED BY <3>1, RemainderIs
  <2> QED BY <2>1, <2>2 DEF r
<1> QED BY <1>1, <1>3, <1>4

(* The slot of a counter is that of the number it counts.                  *)
LEMMA ModNested ==
  ASSUME NEW n \in Nat \ {0}, NEW w \in Nat \ {0}, w % n = 0, NEW a \in Int
  PROVE  (a % w) % n = a % n
<1> DEFINE q == a \div w
           r == a % w
           d == w \div n
           e == r \div n
           f == r % n
<1>1. q \in Int /\ r \in 0 .. w - 1 /\ a = w * q + r
  BY DivMod
<1>2. d \in Int /\ w = n * d
  <2>1. w \in Int /\ d \in Int /\ w = n * d + (w % n)
    BY DivMod
  <2>2. n * d \in Int
    BY <2>1
  <2> QED BY <2>1, <2>2
<1> HIDE DEF q, r, d
<1>3. e \in Int /\ f \in 0 .. n - 1 /\ r = n * e + f
  BY <1>1, DivMod
<1> HIDE DEF e, f
<1>4. w * q = n * (d * q) /\ d * q \in Int
  BY <1>1, <1>2
<1>5. n * (d * q + e) = n * (d * q) + n * e /\ n * (d * q) \in Int /\ n * e \in Int
  BY <1>3, <1>4
<1> DEFINE g == d * q + e
<1>6. a = n * g + f /\ g \in Int
  BY <1>1, <1>3, <1>4, <1>5
<1> HIDE DEF g
<1>7. a % n = f
  BY <1>3, <1>6, RemainderIs
<1> QED BY <1>7 DEF f, r

(* Unsigned subtraction of two counters that are close.                    *)
LEMMA ModDifference ==
  ASSUME NEW n \in Nat \ {0}, NEW a \in Int, NEW b \in Int, b <= a, a - b < n
  PROVE  ((a % n) - (b % n)) % n = a - b
<1> DEFINE p == a \div n
           r == a % n
           q == b \div n
           s == b % n
<1>1. p \in Int /\ r \in 0 .. n - 1 /\ a = n * p + r
  BY DivMod
<1>2. q \in Int /\ s \in 0 .. n - 1 /\ b = n * q + s
  BY DivMod
<1> HIDE DEF p, q, r, s
<1>3. n * (q - p) = n * q - n * p /\ n * q \in Int /\ n * p \in Int
  BY <1>1, <1>2
<1> DEFINE x == r - s
           y == a - b
           z == q - p
<1>4. x = n * z + y /\ z \in Int /\ y \in 0 .. n - 1 /\ x \in Int
  BY <1>1, <1>2, <1>3
<1> HIDE DEF x, y, z
<1>5. x % n = y
  BY <1>4, RemainderIs
<1> QED BY <1>5 DEF x, y, r, s

(* Numbers less than n apart are in different slots.                       *)
LEMMA ModApart ==
  ASSUME NEW n \in Nat \ {0}, NEW a \in Int, NEW b \in Int, b < a, a - b < n
  PROVE  a % n # b % n
<1>0. b <= a
  OBVIOUS
<1>1. ((a % n) - (b % n)) % n = a - b
  BY <1>0, ModDifference
<1>2. a % n \in Int /\ b % n \in Int
  BY DivMod
<1>3. 0 % n = 0
  <2>1. 0 = n * 0 + 0 /\ 0 \in 0 .. n - 1
    OBVIOUS
  <2> QED BY <2>1, RemainderIs
<1> QED BY <1>1, <1>2, <1>3

-----------------------------------------------------------------------------
(***************************************************************************)
(* The table: a process that enrolled has its pid in its entry, the head   *)
(* of an entry is zero until its process stores it, and the reader thread  *)
(* runs only after that.                                                   *)
(***************************************************************************)
PidInEntry ==
  \A p \in Procs :
    proc[p] \in {"load", "store", "release", "install", "up", "ignoring"} /\ idx[p] # -1 =>
      pids[idx[p]] = p
ReaderStarted == \A p \in Procs : rpc[p] # "none" => proc[p] \notin EnrollPCs
NoEntryYet == \A p \in Procs : proc[p] \in {"new", "acquire", "find"} => idx[p] = -1
FreshHeads ==
  /\ \A p \in Procs : proc[p] \in {"claim", "load", "store"} => heads[idx[p]] = 0
  /\ \A i \in Entries : (\A p \in Procs : idx[p] # i) => heads[i] = 0
Table == PidInEntry /\ ReaderStarted /\ NoEntryYet /\ FreshHeads

LEMMA InitTable == Init => Table
<1> SUFFICES ASSUME Init PROVE Table
  OBVIOUS
<1>1. PidInEntry
  BY DEF Init, PidInEntry
<1>2. ReaderStarted /\ NoEntryYet
  BY DEF Init, ReaderStarted, NoEntryYet, EnrollPCs
<1>3. FreshHeads
  BY DEF Init, FreshHeads
<1> QED BY <1>1, <1>2, <1>3 DEF Table

LEMMA NextTable ==
  ASSUME TypeOK, InTable, NoSharedEntry, NoSharedEntry', Table, [Next]_vars
  PROVE  Table'
<1> USE ShmAssumption
<1>q. CASE UNCHANGED <<pids, heads, idx, proc, rpc>>
  BY <1>q DEF Table, PidInEntry, ReaderStarted, NoEntryYet, FreshHeads
<1>1. ASSUME NEW s \in Senders, SendBegin(s) \/ SendStep(s) PROVE Table'
  BY <1>q, <1>1 DEF SendBegin, SendStep, SendAcquire, SendScan, SendWait, SendCopy, SendLoad,
                    SendStore, SendNotify, segment, process, reading
<1>2. ASSUME UNCHANGED <<pids, heads, idx>>, NEW p \in Procs,
             \A r \in Procs \ {p} : proc'[r] = proc[r] /\ rpc'[r] = rpc[r],
             proc'[p] \in {"load", "store", "release", "install", "up", "ignoring"} =>
               proc[p] \in {"load", "store", "release", "install", "up", "ignoring"},
             rpc'[p] # "none" => proc'[p] \notin EnrollPCs,
             proc'[p] \in {"new", "acquire", "find"} => proc[p] \in {"new", "acquire", "find"},
             proc'[p] \in {"claim", "load", "store"} => proc[p] \in {"claim", "load", "store"}
      PROVE  Table'
  <2>1. PidInEntry'
    BY <1>2 DEF Table, PidInEntry
  <2>2. ReaderStarted' /\ NoEntryYet'
    BY <1>2 DEF Table, ReaderStarted, NoEntryYet
  <2>3. FreshHeads'
    BY <1>2 DEF Table, FreshHeads
  <2> QED BY <2>1, <2>2, <2>3 DEF Table
<1>3. ASSUME NEW s \in Senders, SemopInterrupted(s) PROVE Table'
  <2>1. ProcOf[s] \in Procs /\ proc'[ProcOf[s]] = "dead"
    BY <1>3 DEF SemopInterrupted, TypeOK
  <2>2. /\ UNCHANGED <<pids, heads, idx, rpc>>
        /\ \A r \in Procs \ {ProcOf[s]} : proc'[r] = proc[r]
    BY <1>3 DEF SemopInterrupted, TypeOK, segment, reading
  <2> QED BY <1>2, <2>1, <2>2 DEF EnrollPCs
<1>4. ASSUME NEW p \in Procs, Handler(p) \/ ReadWake(p) \/ ReadLoad(p) \/ ReadCopy(p)
      PROVE  Table'
  <2>1. /\ UNCHANGED <<pids, heads, idx, proc>>
        /\ \A r \in Procs \ {p} : rpc'[r] = rpc[r]
        /\ rpc'[p] # "none" => rpc[p] # "none"
    BY <1>4 DEF Handler, ReadWake, ReadLoad, ReadCopy, ReadAt, ReadTo, TypeOK, segment, process
  <2>2. rpc'[p] # "none" => proc'[p] \notin EnrollPCs
    BY <2>1 DEF Table, ReaderStarted
  <2> QED BY <1>2, <2>1, <2>2
<1>5. ASSUME NEW p \in Procs, ReadAdvance(p) PROVE Table'
  <2>1. /\ UNCHANGED <<pids, idx, proc>> /\ rpc[p] # "none" /\ proc[p] \notin EnrollPCs
        /\ \A r \in Procs \ {p} : rpc'[r] = rpc[r]
        /\ idx[p] \in Entries /\ \A i \in Entries \ {idx[p]} : heads'[i] = heads[i]
    BY <1>5 DEF ReadAdvance, ReadAt, ReadTo, TypeOK, InTable, Table, ReaderStarted, process
  <2>2. PidInEntry' /\ ReaderStarted' /\ NoEntryYet'
    BY <2>1 DEF Table, PidInEntry, ReaderStarted, NoEntryYet
  <2>3. FreshHeads'
    <3>1. \A r \in Procs : proc[r] \in {"claim", "load", "store"} =>
            r # p /\ idx[r] \in Entries /\ idx[r] # idx[p]
      BY <2>1 DEF InTable, NoSharedEntry, EnrollPCs, Entries
    <3> QED BY <2>1, <3>1 DEF Table, FreshHeads
  <2> QED BY <2>2, <2>3 DEF Table
<1>6. ASSUME NEW p \in Procs, Construct(p) \/ EnrollAcquire(p) \/ EnrollLoad(p) \/ EnrollRelease(p)
      PROVE  Table'
  <2>1. /\ UNCHANGED <<pids, heads, idx, rpc>>
        /\ \A r \in Procs \ {p} : proc'[r] = proc[r]
        /\ proc[p] \in EnrollPCs
    BY <1>6 DEF Construct, EnrollAcquire, EnrollLoad, EnrollRelease, ProcMove, TypeOK, segment,
                reading, EnrollPCs
  <2>2. rpc'[p] = "none"
    BY <2>1 DEF Table, ReaderStarted
  <2>3. \/ proc[p] = "new" /\ proc'[p] = "acquire"
        \/ proc[p] = "acquire" /\ proc'[p] = "find"
        \/ proc[p] = "load" /\ proc'[p] = "store"
        \/ proc[p] = "release" /\ proc'[p] \in {"dead", "install"}
    BY <1>6 DEF Construct, EnrollAcquire, EnrollLoad, EnrollRelease, ProcMove, TypeOK
  <2> QED BY <1>2, <2>1, <2>2, <2>3
<1>7. ASSUME NEW p \in Procs, EnrollFind(p) PROVE Table'
  <2>1. /\ UNCHANGED <<pids, heads, rpc>> /\ proc[p] = "find" /\ idx[p] = -1
        /\ \A r \in Procs \ {p} : proc'[r] = proc[r] /\ idx'[r] = idx[r]
    BY <1>7 DEF EnrollFind, ProcMove, TypeOK, segment, reading, Table, NoEntryYet
  <2>2. \/ proc'[p] = "release" /\ idx'[p] = -1
        \/ proc'[p] = "claim" /\ idx'[p] \in Entries
    BY <1>7, <2>1 DEF EnrollFind, ProcMove, TypeOK, Find
  <2>3. PidInEntry' /\ NoEntryYet'
    BY <2>1, <2>2 DEF Table, PidInEntry, NoEntryYet
  <2>4. ReaderStarted'
    BY <2>1, <2>2 DEF Table, ReaderStarted, EnrollPCs
  <2>5. FreshHeads'
    <3>1. ASSUME NEW i \in Entries, \A r \in Procs : idx'[r] # i PROVE heads'[i] = 0
      <4>1. -1 \notin Entries
        BY DEF Entries
      <4>2. \A r \in Procs : idx[r] # i
        BY <2>1, <3>1, <4>1
      <4> QED BY <2>1, <4>2 DEF Table, FreshHeads
    <3>2. ASSUME proc'[p] = "claim" PROVE heads'[idx'[p]] = 0
      <4>1. idx'[p] \in Entries /\ -1 \notin Entries
        BY <2>2, <3>2 DEF Entries
      <4>2. \A r \in Procs : idx[r] # idx'[p]
        BY <2>1, <4>1 DEF NoSharedEntry
      <4> QED BY <2>1, <4>1, <4>2 DEF Table, FreshHeads
    <3> QED BY <2>1, <2>2, <3>1, <3>2 DEF Table, FreshHeads
  <2> QED BY <2>3, <2>4, <2>5 DEF Table
<1>8. ASSUME NEW p \in Procs, EnrollClaim(p) PROVE Table'
  <2>1. /\ UNCHANGED <<idx, heads, rpc>> /\ proc[p] = "claim" /\ proc'[p] = "load"
        /\ \A r \in Procs \ {p} : proc'[r] = proc[r]
        /\ idx[p] \in Entries /\ -1 \notin Entries /\ pids'[idx[p]] = p
        /\ \A i \in Entries \ {idx[p]} : pids'[i] = pids[i]
    BY <1>8 DEF EnrollClaim, ProcMove, TypeOK, InTable, reading, Entries
  <2>2. PidInEntry'
    <3>1. \A r \in Procs \ {p} : idx[r] # -1 => idx[r] \in Entries \ {idx[p]}
      BY <2>1 DEF NoSharedEntry, TypeOK
    <3> QED BY <2>1, <3>1 DEF Table, PidInEntry
  <2>3. NoEntryYet' /\ ReaderStarted'
    BY <2>1 DEF Table, NoEntryYet, ReaderStarted, EnrollPCs
  <2>4. FreshHeads'
    BY <2>1 DEF Table, FreshHeads
  <2> QED BY <2>2, <2>3, <2>4 DEF Table
<1>9. ASSUME NEW p \in Procs, EnrollStore(p) PROVE Table'
  <2>1. /\ UNCHANGED <<idx, pids, rpc>> /\ proc[p] = "store" /\ proc'[p] = "release"
        /\ \A r \in Procs \ {p} : proc'[r] = proc[r]
        /\ idx[p] \in Entries /\ \A i \in Entries \ {idx[p]} : heads'[i] = heads[i]
    BY <1>9 DEF EnrollStore, ProcMove, TypeOK, InTable, reading
  <2>2. PidInEntry'
    BY <2>1 DEF Table, PidInEntry
  <2>3. NoEntryYet' /\ ReaderStarted'
    BY <2>1 DEF Table, NoEntryYet, ReaderStarted, EnrollPCs
  <2>4. FreshHeads'
    <3>1. \A r \in Procs : proc'[r] \in {"claim", "load", "store"} =>
            r # p /\ idx[r] \in Entries /\ idx[r] # idx[p]
      BY <2>1 DEF InTable, NoSharedEntry, Entries
    <3> QED BY <2>1, <3>1 DEF Table, FreshHeads
  <2> QED BY <2>2, <2>3, <2>4 DEF Table
<1>10. ASSUME NEW p \in Procs, Install(p) \/ LeaveIgnore(p) \/ LeaveStop(p) \/ LeaveJoin(p)
       PROVE  Table'
  <2>1. /\ UNCHANGED <<pids, heads, idx>>
        /\ \A r \in Procs \ {p} : proc'[r] = proc[r] /\ rpc'[r] = rpc[r]
    BY <1>10 DEF Install, LeaveIgnore, LeaveStop, LeaveJoin, ProcMove, ReadTo, TypeOK, segment,
                 reading
  <2>2. \/ proc[p] = "install" /\ proc'[p] = "up"
        \/ proc[p] = "up" /\ proc'[p] = "ignoring"
        \/ proc'[p] \in {"stopping", "gone"}
    BY <1>10 DEF Install, LeaveIgnore, LeaveStop, LeaveJoin, ProcMove, TypeOK
  <2> QED BY <1>2, <2>1, <2>2 DEF EnrollPCs
<1>11. ASSUME NEW p \in Procs, LeaveDeregister(p) PROVE Table'
  <2>1. /\ UNCHANGED <<idx, heads, rpc>> /\ proc'[p] = "deregistered"
        /\ \A r \in Procs \ {p} : proc'[r] = proc[r]
        /\ \A i \in Entries : pids[i] # p => pids'[i] = pids[i]
    BY <1>11 DEF LeaveDeregister, Find, ProcMove, TypeOK, reading
  <2>2. PidInEntry'
    BY <2>1 DEF Table, PidInEntry, TypeOK
  <2>3. NoEntryYet' /\ ReaderStarted'
    BY <2>1 DEF Table, NoEntryYet, ReaderStarted, EnrollPCs
  <2>4. FreshHeads'
    BY <2>1 DEF Table, FreshHeads
  <2> QED BY <2>2, <2>3, <2>4 DEF Table
<1>12. CASE UNCHANGED vars
  BY <1>q, <1>12 DEF vars, segment, process, reading
<1> QED
  BY <1>1, <1>3, <1>4, <1>5, <1>6, <1>7, <1>8, <1>9, <1>10, <1>11, <1>12
     DEF Next, ReadStep, EnrollStep, LeaveStep

-----------------------------------------------------------------------------
(***************************************************************************)
(* The writer: the counter shows the frames published, and the slots hold  *)
(* the last N frames copied.                                               *)
(***************************************************************************)
Copied(s) == spc[s] \in {"load", "store"}   \* and not yet published
Counting ==
  /\ tail = published % W
  /\ \A s \in Senders : Copied(s) => nframes = published + 1
  /\ \A s \in Senders : spc[s] = "store" => sreg[s] = tail
  /\ (\A s \in Senders : ~Copied(s)) => nframes = published

SlotsHold == \A k \in 1 .. nframes : nframes - k < N => slots[(k - 1) % N] = k

LEMMA Constants ==
  /\ N \in Nat \ {0} /\ W \in Nat \ {0} /\ N < W /\ W % N = 0 /\ MaxFrames \in Nat
BY ShmAssumption

LEMMA CounterTypes ==
  ASSUME TypeOK
  PROVE  tail \in Int /\ nframes \in Nat /\ published \in Nat
BY DEF TypeOK, Counter

LEMMA InitCounting == Init => Counting /\ SlotsHold
<1> SUFFICES ASSUME Init PROVE Counting /\ SlotsHold
  OBVIOUS
<1>1. tail = 0 /\ nframes = 0 /\ published = 0 /\ \A s \in Senders : spc[s] = "idle"
  BY DEF Init
<1>2. 0 % W = 0
  <2>1. 0 = W * 0 + 0 /\ 0 \in 0 .. W - 1
    BY Constants
  <2> QED BY <2>1, Constants, RemainderIs
<1> QED BY <1>1, <1>2, Constants DEF Counting, Copied, SlotsHold

(* Everything but _send leaves the writer's side alone.                    *)
WriterStep(s) == SendBegin(s) \/ SendStep(s)
LEMMA WriterView ==
  ASSUME [Next]_vars
  PROVE  \/ \E s \in Senders : WriterStep(s)
         \/ UNCHANGED <<tail, slots, nframes, published, spc, si, sreg>>
BY DEF Next, WriterStep, SemopInterrupted, Handler, ReadStep, ReadWake, ReadLoad, ReadCopy,
       ReadAdvance, Construct, EnrollStep, EnrollAcquire, EnrollFind, EnrollClaim, EnrollLoad,
       EnrollStore, EnrollRelease, Install, LeaveIgnore, LeaveStep, LeaveDeregister, LeaveStop,
       LeaveJoin, vars, segment, history, sending

LEMMA NextCounting ==
  ASSUME Serial, TypeOK, Counting, [Next]_vars
  PROVE  Counting'
<1>c. nframes \in Nat /\ published \in Nat /\ published \in Int
  BY CounterTypes
<1>w. W \in Nat \ {0}
  BY Constants
<1>q. CASE UNCHANGED <<tail, nframes, published, spc, sreg>>
  BY <1>q DEF Counting, Copied
<1>1. ASSUME NEW s \in Senders, WriterStep(s) PROVE Counting'
  <2>t. \A t \in Senders \ {s} : spc'[t] = spc[t] /\ sreg'[t] = sreg[t]
    BY <1>1 DEF WriterStep, SendBegin, SendStep, SendAcquire, SendScan, SendWait, SendCopy, SendLoad,
                SendStore, SendNotify, SendTo, TypeOK
  <2>1. CASE SendBegin(s) \/ SendAcquire(s) \/ SendScan(s) \/ SendWait(s) \/ SendNotify(s)
    <3>1. UNCHANGED <<tail, nframes, published>> /\ ~Copied(s) /\ ~Copied(s)'
      BY <2>1 DEF SendBegin, SendAcquire, SendScan, SendWait, SendNotify, SendAt, SendTo, TypeOK,
                  Copied, segment, history
    <3> QED BY <2>t, <3>1 DEF Counting, Copied
  <2>2. ASSUME spc[s] \in {"copy", "load", "store"}
        PROVE  \A t \in Senders \ {s} : ~Copied(t)
    BY <2>2 DEF Serial, Writing, Copied
  <2>3. CASE SendCopy(s)
    <3>1. /\ UNCHANGED <<tail, published>> /\ nframes' = nframes + 1
          /\ spc[s] = "copy" /\ spc'[s] = "load"
      BY <2>3 DEF SendCopy, SendAt, SendTo, TypeOK
    <3>2. nframes = published
      BY <2>2, <3>1 DEF Counting, Copied
    <3> QED BY <2>2, <2>t, <3>1, <3>2 DEF Counting, Copied
  <2>4. CASE SendLoad(s)
    <3>1. /\ UNCHANGED <<tail, nframes, published>>
          /\ spc[s] = "load" /\ spc'[s] = "store" /\ sreg'[s] = tail
      BY <2>4 DEF SendLoad, SendAt, SendTo, TypeOK, segment, history
    <3> QED BY <2>t, <3>1 DEF Counting, Copied
  <2>5. CASE SendStore(s)
    <3>1. /\ published' = published + 1 /\ nframes' = nframes
          /\ spc[s] = "store" /\ spc'[s] = "notify"
      BY <2>5 DEF SendStore, SendAt, SendTo, TypeOK
    <3>2. tail = published % W /\ nframes = published + 1 /\ sreg[s] = tail
      BY <3>1 DEF Counting, Copied
    <3>3. ((published % W) + 1) % W = (published + 1) % W
      BY <1>c, <1>w, ModNext
    <3>4. tail' = published' % W
      BY <2>5, <3>1, <3>2, <3>3, Zenon DEF SendStore
    <3>5. \A t \in Senders : ~Copied(t)'
      BY <2>2, <2>t, <3>1 DEF Copied
    <3> QED BY <3>1, <3>2, <3>4, <3>5 DEF Counting, Copied
  <2> QED BY <1>1, <2>1, <2>3, <2>4, <2>5 DEF WriterStep, SendStep
<1> QED BY <1>q, <1>1, WriterView

(* The frame being copied overwrites the one N before it.                  *)
LEMMA NextSlotsHold ==
  ASSUME Serial, TypeOK, Counting, SlotsHold, [Next]_vars
  PROVE  SlotsHold'
<1>c. nframes \in Nat /\ nframes \in Int /\ published \in Nat /\ published \in Int
  BY CounterTypes
<1>w. N \in Nat \ {0} /\ W \in Nat \ {0} /\ W % N = 0
  BY Constants
<1>q. CASE UNCHANGED <<slots, nframes>>
  BY <1>q DEF SlotsHold
<1>1. ASSUME NEW s \in Senders, SendCopy(s) PROVE SlotsHold'
  <2>1. /\ spc[s] = "copy" /\ nframes' = nframes + 1
        /\ slots' = [slots EXCEPT ![tail % N] = nframes + 1]
    BY <1>1 DEF SendCopy, SendAt
  <2>2. tail % N = nframes % N
    <3>1. tail = published % W /\ nframes = published
      BY <2>1 DEF Counting, Serial, Writing, Copied
    <3>2. (published % W) % N = published % N
      BY <1>c, <1>w, ModNested
    <3> QED BY <3>1, <3>2
  <2>3. \A k \in Int : k % N \in Slots
    BY Constants, ModRange DEF Slots
  <2>4. /\ slots'[nframes % N] = nframes + 1
        /\ \A i \in Slots : i # nframes % N => slots'[i] = slots[i]
    <3>1. slots \in [Slots -> Nat] /\ nframes % N \in Slots
      BY <2>3, <1>c DEF TypeOK
    <3> QED BY <2>1, <2>2, <3>1, Zenon
  <2> SUFFICES ASSUME NEW k \in 1 .. nframes + 1, nframes + 1 - k < N
               PROVE  slots'[(k - 1) % N] = k
    BY <2>1, <1>c DEF SlotsHold
  <2>5. CASE k = nframes + 1
    <3>1. k - 1 = nframes
      BY <2>5, <1>c
    <3> QED BY <2>4, <2>5, <3>1
  <2>6. CASE k # nframes + 1
    <3>1. k \in 1 .. nframes /\ nframes - k < N
      BY <2>6, <1>c, Constants
    <3>2. slots[(k - 1) % N] = k
      BY <3>1 DEF SlotsHold
    <3>3. k - 1 \in Int /\ k - 1 < nframes /\ nframes - (k - 1) < N
      BY <2>6, <1>c, Constants
    <3>4. nframes % N # (k - 1) % N
      BY <3>3, <1>c, <1>w, ModApart
    <3>5. (k - 1) % N \in Slots
      BY <2>3, <3>3
    <3> QED BY <2>4, <3>2, <3>4, <3>5
  <2> QED BY <2>5, <2>6
<1>2. ASSUME NEW s \in Senders, WriterStep(s), ~SendCopy(s) PROVE UNCHANGED <<slots, nframes>>
  BY <1>2 DEF WriterStep, SendBegin, SendStep, SendAcquire, SendScan, SendWait, SendLoad,
              SendStore, SendNotify, segment, history
<1> QED BY <1>q, <1>1, <1>2, WriterView

-----------------------------------------------------------------------------
(***************************************************************************)
(* A registered reader.                                                    *)
(***************************************************************************)
(* Its head counts the frames it took (until EnrollStore, the register     *)
(* does), it is never more than N behind, and the frame in hand is the     *)
(* next one.                                                               *)
Reading(p) ==
  /\ got[p] <= published /\ published - got[p] <= N
  /\ proc[p] = "store" => reg[p] = got[p] % W
  /\ proc[p] # "store" => heads[idx[p]] = got[p] % W
  /\ rpc[p] \in {"copy", "advance"} => reg[p] = got[p] % W /\ got[p] < published
  /\ rpc[p] = "advance" => rframe[p] = got[p] + 1
InOrder == \A p \in Readers : Registered(p) => Reading(p)

(* The writer, past a reader's entry, has room there for its frame.        *)
Passed(s, p) ==
  \/ spc[s] \in {"copy", "load", "store"}
  \/ spc[s] \in {"scan", "wait", "reacquire"} /\ idx[p] < si[s]
Room == \A s \in Senders, p \in Readers :
          Registered(p) /\ Passed(s, p) => published - got[p] < N

Ring == Table /\ Counting /\ SlotsHold /\ InOrder /\ Room

(* A step of another thread leaves a reader and its entry alone.           *)
SparedReader(p) ==
  /\ proc'[p] = proc[p] /\ idx'[p] = idx[p] /\ rpc'[p] = rpc[p] /\ reg'[p] = reg[p]
  /\ rframe'[p] = rframe[p] /\ got'[p] = got[p]
  /\ idx[p] \in Entries => heads'[idx[p]] = heads[idx[p]]
OwnStep(p) ==
  \/ Handler(p) \/ ReadStep(p) \/ Construct(p) \/ EnrollStep(p) \/ LeaveIgnore(p) \/ LeaveStep(p)

LEMMA WriterSpares ==
  ASSUME TypeOK, NEW p \in Readers, NEW s \in Senders, WriterStep(s) \/ SemopInterrupted(s)
  PROVE  SparedReader(p)
<1>p. p \in Procs /\ ProcOf[s] # p
  BY DEF Readers
<1>1. CASE WriterStep(s)
  <2>1. UNCHANGED <<process, reading>> /\ UNCHANGED heads
    BY <1>1 DEF WriterStep, SendBegin, SendStep, SendAcquire, SendScan, SendWait, SendCopy,
       SendLoad, SendStore, SendNotify, segment
  <2> QED BY <2>1 DEF SparedReader, process, reading
<1>2. CASE SemopInterrupted(s)
  BY <1>2, <1>p DEF SemopInterrupted, TypeOK, SparedReader, segment, reading
<1> QED BY <1>1, <1>2

LEMMA OthersSpare ==
  ASSUME TypeOK, InTable, NoSharedEntry, NEW p \in Readers, NEW q \in Procs, q # p, OwnStep(q)
  PROVE  SparedReader(p)
<1>p. p \in Procs
  BY DEF Readers
<1>1. CASE Handler(q) \/ ReadWake(q) \/ ReadLoad(q) \/ ReadCopy(q)
  BY <1>1, <1>p DEF Handler, ReadWake, ReadLoad, ReadCopy, ReadTo, TypeOK, SparedReader, segment,
                    process
<1>2. CASE ReadAdvance(q)
  <2>1. idx[q] \in Entries /\ -1 \notin Entries
    BY <1>2 DEF ReadAdvance, ReadAt, InTable, Entries
  <2>2. idx[p] # idx[q]
    BY <1>p, <2>1 DEF NoSharedEntry
  <2> QED BY <1>2, <1>p, <2>1, <2>2 DEF ReadAdvance, ReadTo, TypeOK, SparedReader, process
<1>3. CASE EnrollStore(q)
  <2>1. idx[q] \in Entries /\ -1 \notin Entries
    BY <1>3 DEF EnrollStore, ProcMove, InTable, Entries
  <2>2. idx[p] # idx[q]
    BY <1>p, <2>1 DEF NoSharedEntry
  <2> QED BY <1>3, <1>p, <2>1, <2>2 DEF EnrollStore, ProcMove, TypeOK, SparedReader, reading
<1>4. CASE \/ Construct(q) \/ EnrollAcquire(q) \/ EnrollFind(q) \/ EnrollClaim(q)
           \/ EnrollLoad(q) \/ EnrollRelease(q)
  BY <1>4, <1>p DEF Construct, EnrollAcquire, EnrollFind, EnrollClaim, EnrollLoad, EnrollRelease,
                    ProcMove, TypeOK, SparedReader, segment, reading
<1>5. CASE Install(q) \/ LeaveIgnore(q) \/ LeaveStep(q)
  BY <1>5, <1>p DEF Install, LeaveIgnore, LeaveStep, LeaveDeregister, LeaveStop, LeaveJoin,
                    ProcMove, ReadTo, TypeOK, SparedReader, segment, reading
<1> QED BY <1>1, <1>2, <1>3, <1>4, <1>5 DEF OwnStep, ReadStep, EnrollStep

LEMMA StepView ==
  ASSUME [Next]_vars
  PROVE  \/ \E s \in Senders : WriterStep(s) \/ SemopInterrupted(s)
         \/ \E q \in Procs : OwnStep(q)
         \/ UNCHANGED vars
BY DEF Next, WriterStep, OwnStep

LEMMA ReaderView ==
  ASSUME TypeOK, InTable, NoSharedEntry, [Next]_vars, NEW p \in Readers
  PROVE  SparedReader(p) \/ OwnStep(p)
<1>1. CASE UNCHANGED vars
  BY <1>1 DEF SparedReader, vars, segment, process, reading
<1> QED BY <1>1, StepView, WriterSpares, OthersSpare

LEMMA ReaderTypes ==
  ASSUME TypeOK, NEW p \in Readers
  PROVE  /\ p \in Procs /\ got[p] \in Int /\ published \in Int /\ nframes \in Int
         /\ N \in Nat \ {0} /\ W \in Nat \ {0} /\ N < W /\ W % N = 0
         /\ Registered(p) => idx[p] \in Entries
BY Constants DEF TypeOK, Readers, Registered

LEMMA OwnView ==
  ASSUME NEW p \in Procs, OwnStep(p)
  PROVE  UNCHANGED <<tail, slots, nframes, published, spc, si, sreg>>
BY DEF OwnStep, Handler, ReadStep, ReadWake, ReadLoad, ReadCopy, ReadAdvance, Construct,
       EnrollStep, EnrollAcquire, EnrollFind, EnrollClaim, EnrollLoad, EnrollStore, EnrollRelease,
       Install, LeaveIgnore, LeaveStep, LeaveDeregister, LeaveStop, LeaveJoin, segment, history,
       sending

(* Only SendStore publishes, and it finds room with every reader.          *)
LEMMA Publishing ==
  ASSUME TypeOK, Room, [Next]_vars, NEW p \in Readers, Registered(p)
  PROVE  published' = published \/ (published' = published + 1 /\ published - got[p] < N)
<1>1. ASSUME NEW s \in Senders, SendStore(s)
      PROVE  published' = published + 1 /\ published - got[p] < N
  BY <1>1 DEF SendStore, SendAt, Room, Passed
<1>2. ASSUME NEW s \in Senders, WriterStep(s), ~SendStore(s) PROVE published' = published
  BY <1>2 DEF WriterStep, SendBegin, SendStep, SendAcquire, SendScan, SendWait, SendCopy, SendLoad,
              SendNotify, history
<1> QED BY <1>1, <1>2, WriterView

(* The slot a reader looks at holds the frame after the last one it took.  *)
LEMMA SlotOfReader ==
  ASSUME TypeOK, Counting, SlotsHold, Room, NEW p \in Readers, Registered(p), Reading(p),
         got[p] < published
  PROVE  slots[(got[p] % W) % N] = got[p] + 1
<1>t. got[p] \in Int /\ published \in Int /\ nframes \in Int
  BY ReaderTypes
<1>w. N \in Nat \ {0} /\ W \in Nat \ {0} /\ W % N = 0
  BY Constants
<1>1. (got[p] % W) % N = got[p] % N
  BY <1>t, <1>w, ModNested
<1> DEFINE k == got[p] + 1
<1>2. k \in 1 .. nframes /\ nframes - k < N
  <2>0. got[p] >= 0
    BY DEF TypeOK, Readers
  <2>1. CASE nframes = published
    BY <2>0, <2>1, <1>t, <1>w DEF Reading
  <2>2. CASE nframes # published
    <3>1. PICK s \in Senders : spc[s] \in {"load", "store"} /\ nframes = published + 1
      BY <2>2 DEF Counting, Copied
    <3>2. published - got[p] < N
      BY <3>1 DEF Room, Passed
    <3> QED BY <2>0, <3>1, <3>2, <1>t, <1>w
  <2> QED BY <2>1, <2>2
<1>3. k - 1 = got[p]
  BY <1>t
<1> HIDE DEF k
<1>4. slots[(k - 1) % N] = k
  BY <1>2 DEF SlotsHold
<1> QED BY <1>1, <1>3, <1>4, Zenon DEF k

(* A reader's own steps.                                                   *)
LEMMA OwnInOrder ==
  ASSUME TypeOK, InTable, Ring, NEW p \in Readers, OwnStep(p), Registered(p)'
  PROVE  Reading(p)'
<1>t. /\ p \in Procs /\ got[p] \in Int /\ published \in Int
      /\ N \in Nat \ {0} /\ W \in Nat \ {0}
  BY ReaderTypes
<1>u. tail' = tail /\ published' = published /\ tail = published % W
  BY <1>t, OwnView DEF Ring, Counting
<1>r. Registered(p) => Reading(p) /\ idx[p] \in Entries
  BY ReaderTypes DEF Ring, InOrder
<1>s. rpc[p] # "none" => proc[p] \notin EnrollPCs
  BY <1>t DEF Ring, Table, ReaderStarted
<1>k. ASSUME Registered(p), proc'[p] = "store" <=> proc[p] = "store", idx'[p] = idx[p],
             got'[p] = got[p], reg'[p] = reg[p], rframe'[p] = rframe[p],
             heads'[idx[p]] = heads[idx[p]],
             rpc'[p] \in {"copy", "advance"} => rpc'[p] = rpc[p]
      PROVE  Reading(p)'
  BY <1>k, <1>r, <1>u, Zenon DEF Reading
<1>1. CASE Handler(p) \/ ReadWake(p)
  <2>1. /\ UNCHANGED <<proc, idx, got, reg, rframe, heads>>
        /\ rpc'[p] \in {"copy", "advance"} => rpc'[p] = rpc[p]
    BY <1>1, <1>t DEF Handler, ReadWake, ReadTo, TypeOK, segment, process
  <2>2. Registered(p)
    BY <2>1 DEF Registered
  <2> QED BY <1>k, <2>1, <2>2
<1>2. CASE ReadLoad(p)
  <2>1. /\ UNCHANGED <<proc, idx, got, rframe, heads>> /\ rpc[p] = "load"
        /\ reg'[p] = heads[idx[p]]
        /\ rpc'[p] # "advance"
        /\ rpc'[p] = "copy" => heads[idx[p]] # tail
    BY <1>2, <1>t DEF ReadLoad, ReadAt, ReadTo, TypeOK, segment, process
  <2>2. Registered(p) /\ proc[p] # "store"
    BY <2>1, <1>s DEF Registered, EnrollPCs
  <2>3. heads[idx[p]] = got[p] % W /\ got[p] <= published /\ published - got[p] <= N
    BY <2>2, <1>r DEF Reading
  <2>4. rpc'[p] = "copy" => got[p] < published
    <3>1. heads[idx[p]] # tail => got[p] # published
      BY <2>3, <1>u, Zenon
    <3> QED BY <2>1, <2>3, <3>1, <1>t
  <2> QED BY <2>1, <2>2, <2>3, <2>4, <1>u, Zenon DEF Reading
<1>3. CASE ReadCopy(p)
  <2>1. /\ UNCHANGED <<proc, idx, got, reg, heads>> /\ rpc[p] = "copy" /\ rpc'[p] = "advance"
        /\ rframe'[p] = slots[reg[p] % N]
    BY <1>3, <1>t DEF ReadCopy, ReadAt, ReadTo, TypeOK, segment, process
  <2>2. Registered(p)
    BY <2>1 DEF Registered
  <2>3. reg[p] = got[p] % W /\ got[p] < published
    BY <2>1, <2>2, <1>r DEF Reading
  <2>4. slots[(got[p] % W) % N] = got[p] + 1
    BY <2>2, <2>3, <1>r, SlotOfReader DEF Ring
  <2>5. rframe'[p] = got[p] + 1
    BY <2>1, <2>3, <2>4, Zenon
  <2> QED BY <2>1, <2>2, <2>3, <2>5, <1>r, <1>u, Zenon DEF Reading
<1>4. CASE ReadAdvance(p)
  <2>1. /\ UNCHANGED <<proc, idx>> /\ rpc[p] = "advance" /\ rpc'[p] = "load"
        /\ got'[p] = rframe[p] /\ idx[p] \in Entries /\ heads'[idx[p]] = (reg[p] + 1) % W
    BY <1>4, <1>t DEF ReadAdvance, ReadAt, ReadTo, TypeOK, InTable, process
  <2>2. Registered(p) /\ proc[p] # "store"
    BY <2>1, <1>s DEF Registered, EnrollPCs
  <2>3. /\ reg[p] = got[p] % W /\ got[p] < published /\ published - got[p] <= N
        /\ rframe[p] = got[p] + 1
    BY <2>1, <2>2, <1>r DEF Reading
  <2>4. ((got[p] % W) + 1) % W = (got[p] + 1) % W
    BY <1>t, ModNext
  <2>5. heads'[idx[p]] = got'[p] % W
    BY <2>1, <2>3, <2>4, Zenon
  <2>6. got'[p] <= published /\ published - got'[p] <= N
    BY <2>1, <2>3, <1>t
  <2> QED BY <2>1, <2>2, <2>5, <2>6, <1>u DEF Reading
<1>5. CASE EnrollLoad(p)
  <2>1. /\ proc[p] = "load" /\ proc'[p] = "store" /\ reg'[p] = tail /\ got'[p] = published
        /\ rpc' = rpc
    BY <1>5, <1>t DEF EnrollLoad, ProcMove, TypeOK
  <2>2. rpc[p] = "none"
    BY <2>1, <1>s DEF EnrollPCs
  <2>3. published <= published /\ published - published <= N
    BY <1>t
  <2> QED BY <2>1, <2>2, <2>3, <1>u, Zenon DEF Reading
<1>6. CASE EnrollStore(p)
  <2>1. /\ proc[p] = "store" /\ proc'[p] = "release" /\ idx' = idx /\ idx[p] \in Entries
        /\ heads'[idx[p]] = reg[p] /\ UNCHANGED <<rpc, reg, rframe, got>>
    BY <1>6, <1>t DEF EnrollStore, ProcMove, TypeOK, InTable, reading
  <2>2. Registered(p) /\ rpc[p] = "none"
    BY <2>1, <1>s DEF Registered, Entries, EnrollPCs
  <2>3. reg[p] = got[p] % W /\ got[p] <= published /\ published - got[p] <= N
    BY <2>1, <2>2, <1>r DEF Reading
  <2> QED BY <2>1, <2>2, <2>3, <1>u, Zenon DEF Reading
<1>7. CASE EnrollRelease(p) \/ Install(p) \/ LeaveIgnore(p)
  <2>1. /\ UNCHANGED <<idx, got, reg, rframe, heads>>
        /\ rpc'[p] \in {"copy", "advance"} => rpc'[p] = rpc[p]
        /\ proc[p] \in {"release", "install", "up"} /\ proc'[p] # "store"
    BY <1>7, <1>t DEF EnrollRelease, Install, LeaveIgnore, ProcMove, ReadTo, TypeOK, segment,
                      reading
  <2>2. Registered(p)
    BY <2>1 DEF Registered
  <2> QED BY <1>k, <2>1, <2>2
<1>8. CASE Construct(p) \/ EnrollAcquire(p) \/ EnrollFind(p) \/ EnrollClaim(p) \/ LeaveStep(p)
  <2>1. CASE EnrollFind(p)
    <3>1. proc'[p] = "claim" \/ (proc'[p] = "release" /\ idx' = idx /\ proc[p] = "find")
      BY <2>1, <1>t DEF EnrollFind, ProcMove, TypeOK
    <3> QED BY <3>1, <1>t DEF Registered, Ring, Table, NoEntryYet
  <2>2. CASE ~EnrollFind(p)
    BY <1>8, <2>2, <1>t DEF Construct, EnrollAcquire, EnrollClaim, LeaveStep, LeaveDeregister,
       LeaveStop, LeaveJoin, ProcMove, TypeOK, Registered
  <2> QED BY <2>1, <2>2
<1> QED
  BY <1>1, <1>2, <1>3, <1>4, <1>5, <1>6, <1>7, <1>8 DEF OwnStep, ReadStep, EnrollStep

LEMMA NextInOrder ==
  ASSUME TypeOK, InTable, NoSharedEntry, Ring, [Next]_vars
  PROVE  InOrder'
<1> SUFFICES ASSUME NEW p \in Readers, Registered(p)' PROVE Reading(p)'
  BY DEF InOrder
<1>1. CASE SparedReader(p)
  <2>1. Registered(p)
    BY <1>1 DEF SparedReader, Registered
  <2>2. Reading(p) /\ idx[p] \in Entries
    BY <2>1, ReaderTypes DEF Ring, InOrder
  <2>3. published' = published \/ (published' = published + 1 /\ published - got[p] < N)
    BY <2>1, Publishing DEF Ring
  <2>4. /\ got[p] <= published' /\ published' - got[p] <= N
        /\ got[p] < published => got[p] < published'
    BY <2>2, <2>3, ReaderTypes DEF Reading
  <2> QED BY <1>1, <2>2, <2>4, Zenon DEF SparedReader, Reading
<1> QED BY <1>1, OwnInOrder, ReaderView

(* The wait of _send for an entry: the difference of the counters is the   *)
(* number of frames its reader has to take.  Before the reader stored its  *)
(* head the entry shows zero, which is behind.                             *)
LEMMA RoomSeen ==
  ASSUME NoWrapYet, TypeOK, OwnEntry, Ring, NEW s \in Senders, NEW p \in Readers,
         Registered(p), Ahead(tail, heads[idx[p]]) < N
  PROVE  published - got[p] < N
<1>t. /\ p \in Procs /\ got[p] \in Int /\ published \in Int
      /\ N \in Nat \ {0} /\ W \in Nat \ {0} /\ N < W
  BY ReaderTypes
<1>r. Reading(p) /\ tail = published % W
  BY DEF Ring, InOrder, Counting
<1>1. CASE proc[p] # "store"
  <2>1. heads[idx[p]] = got[p] % W /\ got[p] <= published /\ published - got[p] <= N
    BY <1>1, <1>r DEF Reading
  <2>2. published - got[p] < W
    BY <2>1, <1>t
  <2>3. ((published % W) - (got[p] % W)) % W = published - got[p]
    BY <2>1, <2>2, <1>t, ModDifference
  <2>4. Ahead(tail, heads[idx[p]]) = published - got[p]
    BY <1>r, <2>1, <2>3, Zenon DEF Ahead
  <2> QED BY <2>4
<1>2. CASE proc[p] = "store"
  <2>1. p \in Joiners /\ heads[idx[p]] = 0
    BY <1>2, <1>t DEF OwnEntry, EnrollPCs, Ring, Table, FreshHeads
  <2>2. published < W
    BY <2>1 DEF NoWrapYet
  <2>3. published \in 0 .. W - 1 /\ got[p] >= 0
    BY <2>2, <1>t DEF TypeOK, Readers
  <2>4. published % W = published
    BY <2>3, <1>t
  <2>5. published - 0 = published
    BY <1>t
  <2>6. Ahead(tail, heads[idx[p]]) = published
    BY <1>r, <2>1, <2>4, <2>5, Zenon DEF Ahead
  <2> QED BY <2>6, <2>3, <1>t
<1> QED BY <1>1, <1>2

(* The writer's own steps.                                                 *)
LEMMA WriterRoom ==
  ASSUME NoWrapYet, TypeOK, OwnEntry, Ring, NEW s \in Senders, NEW p \in Readers,
         WriterStep(s), Registered(p)', Passed(s, p)'
  PROVE  published' - got'[p] < N
<1>t. p \in Procs /\ p # NoPid /\ p # ProcOf[s] /\ si[s] \in 0 .. PROCS /\ PROCS \in Nat
  BY ShmAssumption DEF Readers, TypeOK
<1>u. UNCHANGED <<proc, idx, got, heads, pids>>
  BY DEF WriterStep, SendBegin, SendStep, SendAcquire, SendScan, SendWait, SendCopy, SendLoad,
         SendStore, SendNotify, segment, process, reading
<1>r. Registered(p) /\ idx[p] \in 0 .. PROCS - 1 /\ pids[idx[p]] = p
  <2>1. Registered(p)
    BY <1>u DEF Registered
  <2>2. idx[p] \in Entries
    BY <2>1, ReaderTypes
  <2> QED BY <1>t, <2>1, <2>2 DEF Entries, Registered, Ring, Table, PidInEntry
<1>k. ASSUME Passed(s, p), published' = published PROVE published' - got'[p] < N
  BY <1>k, <1>r, <1>u DEF Ring, Room
<1>1. CASE SendBegin(s) \/ SendStore(s) \/ SendNotify(s)
  <2>1. spc'[s] \in {"acquire", "notify", "idle"}
    BY <1>1 DEF SendBegin, SendStore, SendNotify, SendAt, SendTo, TypeOK
  <2> QED BY <2>1 DEF Passed
<1>2. CASE SendAcquire(s)
  <2>1. /\ published' = published
        /\ \/ spc[s] = "reacquire" /\ spc'[s] = "wait" /\ si'[s] = si[s]
           \/ spc'[s] = "scan" /\ si'[s] = 0
    BY <1>2 DEF SendAcquire, SendAt, SendTo, TypeOK, history
  <2>2. Passed(s, p)
    BY <2>1, <1>r, <1>u DEF Passed
  <2> QED BY <1>k, <2>1, <2>2
<1>3. CASE SendScan(s)
  <2>1. /\ published' = published /\ spc[s] = "scan"
        /\ \/ si[s] = PROCS
           \/ spc'[s] = "scan" /\ si'[s] = si[s] + 1 /\ pids[si[s]] \in {NoPid, ProcOf[s]}
           \/ spc'[s] = "wait" /\ si'[s] = si[s]
    BY <1>3 DEF SendScan, SendAt, SendTo, TypeOK, history
  <2>2. pids[si[s]] \in {NoPid, ProcOf[s]} => idx[p] # si[s]
    BY <1>r, <1>t
  <2>3. Passed(s, p)
    BY <2>1, <2>2, <1>r, <1>t, <1>u DEF Passed
  <2> QED BY <1>k, <2>1, <2>3
<1>4. CASE SendWait(s)
  <2>1. /\ published' = published /\ spc[s] = "wait"
        /\ \/ spc'[s] = "reacquire" /\ si'[s] = si[s]
           \/ spc'[s] = "scan" /\ si'[s] = si[s] + 1 /\ Ahead(tail, heads[si[s]]) < N
    BY <1>4 DEF SendWait, SendAt, SendTo, TypeOK, history
  <2>2. CASE idx[p] < si[s]
    BY <1>k, <2>1, <2>2 DEF Passed
  <2>3. CASE ~(idx[p] < si[s])
    <3>1. idx[p] = si[s] /\ Ahead(tail, heads[si[s]]) < N
      BY <2>1, <2>3, <1>r, <1>t, <1>u DEF Passed
    <3>2. published - got[p] < N
      BY <3>1, <1>r, RoomSeen
    <3> QED BY <2>1, <3>2, <1>u
  <2> QED BY <2>2, <2>3
<1>5. CASE SendCopy(s) \/ SendLoad(s)
  <2>1. spc[s] \in {"copy", "load"} /\ published' = published
    BY <1>5 DEF SendCopy, SendLoad, SendAt, history
  <2> QED BY <1>k, <2>1 DEF Passed
<1> QED BY <1>1, <1>2, <1>3, <1>4, <1>5 DEF WriterStep, SendStep

(* The reader's own steps: it only makes more room.                        *)
LEMMA OwnRoom ==
  ASSUME TypeOK, InTable, Ring, NEW p \in Readers, OwnStep(p), Registered(p)'
  PROVE  \/ Registered(p) /\ idx'[p] = idx[p] /\ got'[p] \in Int /\ got[p] <= got'[p]
         \/ got'[p] = published
<1>t. p \in Procs /\ got[p] \in Int
  BY ReaderTypes
<1>k. ASSUME Registered(p), idx'[p] = idx[p], got'[p] = got[p]
      PROVE  Registered(p) /\ idx'[p] = idx[p] /\ got'[p] \in Int /\ got[p] <= got'[p]
  BY <1>k, <1>t
<1>1. CASE Handler(p) \/ ReadWake(p) \/ ReadLoad(p) \/ ReadCopy(p)
  <2>1. UNCHANGED <<proc, idx, got>>
    BY <1>1 DEF Handler, ReadWake, ReadLoad, ReadCopy, process
  <2> QED BY <1>k, <2>1 DEF Registered
<1>2. CASE ReadAdvance(p)
  <2>1. UNCHANGED <<proc, idx>> /\ rpc[p] = "advance" /\ got'[p] = rframe[p]
    BY <1>2, <1>t DEF ReadAdvance, ReadAt, TypeOK, process
  <2>2. Registered(p)
    BY <2>1 DEF Registered
  <2>3. rframe[p] = got[p] + 1
    BY <2>1, <2>2 DEF Ring, InOrder, Reading
  <2> QED BY <2>1, <2>2, <2>3, <1>t
<1>3. CASE EnrollLoad(p)
  BY <1>3, <1>t DEF EnrollLoad, TypeOK
<1>4. CASE EnrollStore(p) \/ EnrollRelease(p) \/ Install(p) \/ LeaveIgnore(p)
  <2>1. UNCHANGED <<idx, got>> /\ proc[p] \in {"store", "release", "install", "up"}
    BY <1>4 DEF EnrollStore, EnrollRelease, Install, LeaveIgnore, ProcMove, reading
  <2> QED BY <1>k, <2>1 DEF Registered
<1>5. CASE EnrollFind(p)
  <2>1. proc'[p] = "claim" \/ (proc'[p] = "release" /\ idx' = idx /\ proc[p] = "find")
    BY <1>5, <1>t DEF EnrollFind, ProcMove, TypeOK
  <2> QED BY <2>1, <1>t DEF Registered, Ring, Table, NoEntryYet
<1>6. CASE Construct(p) \/ EnrollAcquire(p) \/ EnrollClaim(p) \/ LeaveStep(p)
  BY <1>6, <1>t DEF Construct, EnrollAcquire, EnrollClaim, LeaveStep, LeaveDeregister,
     LeaveStop, LeaveJoin, ProcMove, TypeOK, Registered
<1> QED
  BY <1>1, <1>2, <1>3, <1>4, <1>5, <1>6 DEF OwnStep, ReadStep, EnrollStep

LEMMA NextRoom ==
  ASSUME Serial, NoWrapYet, TypeOK, InTable, OwnEntry, NoSharedEntry, Ring, [Next]_vars
  PROVE  Room'
<1> SUFFICES ASSUME NEW s \in Senders, NEW p \in Readers, Registered(p)', Passed(s, p)'
             PROVE  published' - got'[p] < N
  BY DEF Room
<1>t. p \in Procs /\ got[p] \in Int /\ published \in Int /\ N \in Nat \ {0}
  BY ReaderTypes
<1>1. CASE WriterStep(s)
  BY <1>1, WriterRoom
<1>3. ASSUME NEW r \in Senders \ {s}, WriterStep(r) PROVE published' - got'[p] < N
  <2>1. /\ UNCHANGED <<proc, idx, got>> /\ spc'[s] = spc[s] /\ si'[s] = si[s]
        /\ published' = published \/ spc[r] = "store"
    BY <1>3 DEF WriterStep, SendBegin, SendStep, SendAcquire, SendScan, SendWait, SendCopy, SendLoad,
                SendStore, SendNotify, SendAt, SendTo, TypeOK, process, reading, history
  <2>2. Registered(p) /\ Passed(s, p)
    BY <2>1 DEF Registered, Passed
  <2>3. published' = published
    BY <2>1, <2>2 DEF Passed, Serial, Writing
  <2> QED BY <2>1, <2>2, <2>3 DEF Ring, Room
<1>2. CASE UNCHANGED <<tail, slots, nframes, published, spc, si, sreg>>
  <2>1. ASSUME Registered(p), idx'[p] = idx[p] PROVE published - got[p] < N
    <3>1. Passed(s, p)
      BY <1>2, <2>1 DEF Passed
    <3> QED BY <2>1, <3>1 DEF Ring, Room
  <2>2. CASE SparedReader(p)
    BY <1>2, <2>1, <2>2 DEF SparedReader, Registered
  <2>3. CASE OwnStep(p)
    BY <1>2, <2>1, <2>3, <1>t, OwnRoom
  <2> QED BY <2>2, <2>3, ReaderView
<1> QED BY <1>1, <1>2, <1>3, WriterView

-----------------------------------------------------------------------------
LEMMA InitRing == Init => Ring
<1> SUFFICES ASSUME Init PROVE Ring
  OBVIOUS
<1>c. N \in Nat \ {0} /\ W \in Nat \ {0}
  BY Constants
<1>1. Table /\ Counting /\ SlotsHold
  BY InitTable, InitCounting
<1>2. InOrder
  <2> SUFFICES ASSUME NEW p \in Readers, Registered(p) PROVE Reading(p)
    BY DEF InOrder
  <2>1. p \in Procs /\ idx[p] \in Entries
    BY DEF Init, Readers, Registered
  <2>2. /\ heads[idx[p]] = 0 /\ got[p] = 0 /\ published = 0
        /\ proc[p] # "store" /\ rpc[p] \in {"none", "sleep"}
    BY <2>1 DEF Init
  <2>3. 0 % W = 0
    <3>1. 0 = W * 0 + 0 /\ 0 \in 0 .. W - 1
      BY <1>c
    <3> QED BY <3>1, <1>c, RemainderIs
  <2> QED BY <2>2, <2>3, <1>c DEF Reading
<1>3. Room
  BY DEF Init, Room, Passed
<1> QED BY <1>1, <1>2, <1>3 DEF Ring

LEMMA NextRing ==
  ASSUME Serial, NoWrapYet, TypeOK, InTable, OwnEntry, NoSharedEntry, NoSharedEntry', Ring,
         [Next]_vars
  PROVE  Ring'
<1>1. Table' /\ Counting' /\ SlotsHold'
  BY NextTable, NextCounting, NextSlotsHold DEF Ring
<1> QED BY <1>1, NextInOrder, NextRoom DEF Ring

-----------------------------------------------------------------------------
(***************************************************************************)
(* The refinement: SendStore publishes, ReadAdvance of a registered reader *)
(* delivers, EnrollLoad joins, LeaveDeregister leaves; no other step is    *)
(* seen.                                                                   *)
(***************************************************************************)
Delivered == [p \in Readers |-> IF Registered(p) THEN got[p] ELSE -1]

LEMMA InitBroadcast == Init => Broadcast!Init
<1> SUFFICES ASSUME Init PROVE Broadcast!Init
  OBVIOUS
<1>1. published = 0 /\ \A p \in Readers : got[p] = 0
  BY DEF Init, Readers
<1> QED BY <1>1 DEF Broadcast!Init, Broadcast!Outside

(* What a step that only concerns reader p does to the deliveries.         *)
LEMMA OneDelivery ==
  ASSUME TypeOK, InTable, NoSharedEntry, NEW p \in Readers, OwnStep(p)
  PROVE  Delivered' = [Delivered EXCEPT ![p] = IF Registered(p)' THEN got'[p] ELSE -1]
<1>1. p \in Procs
  BY DEF Readers
<1>2. \A r \in Readers \ {p} : SparedReader(r)
  BY <1>1, OthersSpare
<1>3. \A r \in Readers \ {p} : (Registered(r)' <=> Registered(r)) /\ got'[r] = got[r]
  BY <1>2 DEF SparedReader, Registered
<1> QED BY <1>3 DEF Delivered

LEMMA NoDelivery ==
  ASSUME \A r \in Readers : SparedReader(r)
  PROVE  Delivered' = Delivered
<1>1. \A r \in Readers : (Registered(r)' <=> Registered(r)) /\ got'[r] = got[r]
  BY DEF SparedReader, Registered
<1> QED BY <1>1 DEF Delivered

LEMMA ReaderBroadcast ==
  ASSUME TypeOK, InTable, NoSharedEntry, Ring, NEW p \in Readers, OwnStep(p)
  PROVE  [Broadcast!Next]_<<published, Delivered>>
<1>t. p \in Procs /\ got[p] \in Nat
  BY DEF TypeOK, Readers
<1>u. published' = published
  BY <1>t, OwnView
<1>d. Delivered' = [Delivered EXCEPT ![p] = IF Registered(p)' THEN got'[p] ELSE -1]
  BY OneDelivery
<1>e. Delivered[p] = IF Registered(p) THEN got[p] ELSE -1
  BY DEF Delivered
<1>k. ASSUME Registered(p)' <=> Registered(p), Registered(p) => got'[p] = got[p]
      PROVE  UNCHANGED <<published, Delivered>>
  <2>1. Delivered' = [Delivered EXCEPT ![p] = Delivered[p]]
    BY <1>k, <1>d, <1>e
  <2> QED BY <1>u, <2>1 DEF Delivered
<1>1. CASE \/ Handler(p) \/ ReadWake(p) \/ ReadLoad(p) \/ ReadCopy(p)
  <2>1. UNCHANGED <<proc, idx, got>>
    BY <1>1 DEF Handler, ReadWake, ReadLoad, ReadCopy, process
  <2> QED BY <1>k, <2>1 DEF Registered
<1>2. CASE ReadAdvance(p)
  <2>1. UNCHANGED <<proc, idx>> /\ rpc[p] = "advance" /\ got'[p] = rframe[p]
    BY <1>2, <1>t DEF ReadAdvance, ReadAt, TypeOK, process
  <2>2. Registered(p)' <=> Registered(p)
    BY <2>1 DEF Registered
  <2>3. CASE ~Registered(p)
    BY <1>k, <2>2, <2>3
  <2>4. CASE Registered(p)
    <3>1. got[p] < published /\ rframe[p] = got[p] + 1
      BY <2>1, <2>4 DEF Ring, InOrder, Reading
    <3>2. Delivered[p] = got[p] /\ Delivered' = [Delivered EXCEPT ![p] = got[p] + 1]
      BY <1>d, <1>e, <2>1, <2>2, <2>4, <3>1
    <3>3. Delivered[p] # -1
      BY <3>2, <1>t
    <3>4. Broadcast!Deliver(p)
      BY <1>u, <3>1, <3>2, <3>3 DEF Broadcast!Deliver, Broadcast!Outside, Delivered
    <3> QED BY <3>4 DEF Broadcast!Next
  <2> QED BY <2>3, <2>4
<1>3. CASE EnrollLoad(p)
  <2>1. /\ proc[p] = "load" /\ proc'[p] = "store" /\ got'[p] = published /\ idx' = idx
        /\ idx[p] # -1
    BY <1>3, <1>t DEF EnrollLoad, ProcMove, TypeOK, InTable, Entries
  <2>2. ~Registered(p) /\ Registered(p)'
    BY <2>1 DEF Registered
  <2>3. Delivered[p] = -1 /\ Delivered' = [Delivered EXCEPT ![p] = published]
    BY <1>d, <1>e, <2>1, <2>2
  <2>4. Broadcast!Join(p)
    BY <1>u, <2>3 DEF Broadcast!Join, Broadcast!Outside, Delivered
  <2> QED BY <2>4 DEF Broadcast!Next
<1>4. CASE EnrollStore(p) \/ Install(p) \/ LeaveIgnore(p)
  <2>1. /\ UNCHANGED <<idx, got>> /\ proc[p] \in {"store", "install", "up"}
        /\ proc'[p] \in {"release", "up", "ignoring"}
    BY <1>4, <1>t DEF EnrollStore, Install, LeaveIgnore, ProcMove, reading, TypeOK
  <2> QED BY <1>k, <2>1 DEF Registered
<1>5. CASE EnrollRelease(p)
  <2>1. /\ UNCHANGED <<idx, got>> /\ proc[p] = "release"
        /\ idx[p] # -1 => proc'[p] = "install"
    BY <1>5, <1>t DEF EnrollRelease, ProcMove, reading, TypeOK
  <2> QED BY <1>k, <2>1 DEF Registered
<1>6. CASE EnrollFind(p)
  <2>1. /\ proc[p] = "find"
        /\ proc'[p] = "claim" \/ (proc'[p] = "release" /\ idx' = idx)
    BY <1>6, <1>t DEF EnrollFind, ProcMove, TypeOK
  <2>2. idx[p] = -1
    BY <2>1, <1>t DEF Ring, Table, NoEntryYet
  <2> QED BY <1>k, <2>1, <2>2 DEF Registered
<1>7. CASE Construct(p) \/ EnrollAcquire(p) \/ EnrollClaim(p) \/ LeaveStop(p) \/ LeaveJoin(p)
  <2>1. /\ proc[p] \in {"new", "acquire", "claim", "deregistered", "stopping"}
        /\ proc'[p] \in {"acquire", "find", "load", "stopping", "gone"}
    BY <1>7, <1>t DEF Construct, EnrollAcquire, EnrollClaim, LeaveStop, LeaveJoin, ProcMove, TypeOK
  <2> QED BY <1>k, <2>1 DEF Registered
<1>8. CASE LeaveDeregister(p)
  <2>1. proc[p] = "ignoring" /\ proc'[p] = "deregistered" /\ idx[p] # -1
    BY <1>8, <1>t DEF LeaveDeregister, ProcMove, TypeOK, InTable, Entries
  <2>2. Registered(p) /\ ~Registered(p)'
    BY <2>1 DEF Registered
  <2>3. Delivered[p] # -1 /\ Delivered' = [Delivered EXCEPT ![p] = -1]
    BY <1>d, <1>e, <1>t, <2>2
  <2>4. Broadcast!Leave(p)
    BY <1>u, <2>3 DEF Broadcast!Leave, Broadcast!Outside, Delivered
  <2> QED BY <2>4 DEF Broadcast!Next
<1> QED
  BY <1>1, <1>2, <1>3, <1>4, <1>5, <1>6, <1>7, <1>8 DEF OwnStep, ReadStep, EnrollStep, LeaveStep

LEMMA StepBroadcast ==
  ASSUME TypeOK, InTable, NoSharedEntry, Ring, [Next]_vars
  PROVE  [Broadcast!Next]_<<published, Delivered>>
<1>1. ASSUME NEW s \in Senders, SendStore(s) PROVE Broadcast!Next
  <2>1. \A r \in Readers : SparedReader(r)
    BY <1>1, WriterSpares DEF WriterStep, SendStep
  <2>2. Delivered' = Delivered
    BY <2>1, NoDelivery
  <2>3. published' = published + 1 /\ spc[s] = "store"
    BY <1>1 DEF SendStore, SendAt
  <2>4. ASSUME NEW r \in Readers, Delivered[r] # -1 PROVE published - Delivered[r] < N
    <3>1. Registered(r) /\ Delivered[r] = got[r]
      BY <2>4 DEF Delivered
    <3> QED BY <2>3, <3>1 DEF Ring, Room, Passed
  <2>5. Broadcast!Publish
    BY <2>2, <2>3, <2>4 DEF Broadcast!Publish, Broadcast!Outside, Delivered
  <2> QED BY <2>5 DEF Broadcast!Next
<1>2. ASSUME NEW s \in Senders, WriterStep(s) \/ SemopInterrupted(s), ~SendStore(s)
      PROVE  UNCHANGED <<published, Delivered>>
  <2>1. \A r \in Readers : SparedReader(r)
    BY <1>2, WriterSpares
  <2>2. published' = published
    BY <1>2 DEF WriterStep, SendBegin, SendStep, SendAcquire, SendScan, SendWait, SendCopy,
       SendLoad, SendNotify, SemopInterrupted, history
  <2> QED BY <2>1, <2>2, NoDelivery
<1>3. ASSUME NEW q \in Procs \ Readers, OwnStep(q) PROVE UNCHANGED <<published, Delivered>>
  <2>1. \A r \in Readers : SparedReader(r)
    BY <1>3, OthersSpare
  <2>2. published' = published
    BY <1>3, OwnView
  <2> QED BY <2>1, <2>2, NoDelivery
<1>4. ASSUME UNCHANGED vars PROVE UNCHANGED <<published, Delivered>>
  BY <1>4 DEF vars, history, process, reading, Delivered, Registered
<1> QED BY <1>1, <1>2, <1>3, <1>4, ReaderBroadcast, StepView

(* Whatever the number of processes, threads, entries, slots and frames:   *)
(* as long as the writers take turns, no entry of the table is given to    *)
(* two processes, and none enrols after the counters wrapped, _send and    *)
(* _try_read give each registered reader every frame published, once, in   *)
(* order and before its slot is written again.                             *)
THEOREM RingBroadcasts ==
  Spec /\ []Serial /\ []NoWrapYet /\ []NoSharedEntry => BroadcastSpec
<1>1. Init => Ring /\ OwnEntry /\ Broadcast!Init
  BY InitRing, InitOwnEntry, InitBroadcast
<1>2. /\ Serial /\ NoWrapYet /\ NoSharedEntry /\ NoSharedEntry'
      /\ TypeOK /\ InTable /\ OwnEntry /\ Ring /\ [Next]_vars
      => Ring' /\ OwnEntry'
  BY NextRing, NextOwnEntry
<1>3. TypeOK /\ InTable /\ NoSharedEntry /\ Ring /\ [Next]_vars =>
        [Broadcast!Next]_<<published, Delivered>>
  BY StepBroadcast
<1> QED BY <1>1, <1>2, <1>3, Typing, PTL DEF Spec, BroadcastSpec, Broadcast!Spec, Delivered

-----------------------------------------------------------------------------
(***************************************************************************)
(* Where no entry is shared: at most one process joins while the others,   *)
(* constructed before, stay.                                               *)
(***************************************************************************)
OneComesAndGoes ==
  /\ \A p, q \in Joiners : p = q
  /\ Joiners = {} \/ Leavers \subseteq Joiners

(* The processes that stay keep their entry, dead ones too.                *)
Residents ==
  \A p \in Procs \ Joiners :
    Joiners # {} => proc[p] \in {"up", "dead"} /\ idx[p] \in Entries /\ pids[idx[p]] = p

LEMMA InitApart == Init => NoSharedEntry /\ Residents
<1> SUFFICES ASSUME Init PROVE NoSharedEntry /\ Residents
  OBVIOUS
<1>1. \A p \in Procs : IF p \in Procs \ Joiners THEN idx[p] \in Entries /\ pids[idx[p]] = p
                                                ELSE idx[p] = -1
  BY DEF Init
<1>2. \A p \in Procs \ Joiners : proc[p] = "up"
  BY DEF Init
<1> QED BY <1>1, <1>2 DEF NoSharedEntry, Residents

LEMMA NextApart ==
  ASSUME OneComesAndGoes, TypeOK, InTable, OwnEntry, NoSharedEntry, Residents, [Next]_vars
  PROVE  NoSharedEntry' /\ Residents'
<1>n. NoPid \notin Procs /\ -1 \notin Entries
  BY ShmAssumption DEF Entries
<1>q. ASSUME UNCHANGED <<proc, idx, pids>> PROVE NoSharedEntry' /\ Residents'
  BY <1>q DEF NoSharedEntry, Residents
<1>k. ASSUME NEW q \in Procs, UNCHANGED <<idx, pids>>, \A r \in Procs \ {q} : proc'[r] = proc[r],
             q \in Joiners \/ Joiners = {} \/ proc'[q] \in {"up", "dead"}
      PROVE  NoSharedEntry' /\ Residents'
  BY <1>k DEF NoSharedEntry, Residents
<1>j. \A q \in Procs : proc[q] \in EnrollPCs => q \in Joiners
  BY DEF OwnEntry
<1>1. ASSUME NEW s \in Senders, WriterStep(s) PROVE NoSharedEntry' /\ Residents'
  <2>1. UNCHANGED process /\ UNCHANGED pids
    BY <1>1 DEF WriterStep, SendBegin, SendStep, SendAcquire, SendScan, SendWait, SendCopy,
       SendLoad, SendStore, SendNotify, segment
  <2> QED BY <1>q, <2>1 DEF process
<1>2. ASSUME NEW s \in Senders, SemopInterrupted(s) PROVE NoSharedEntry' /\ Residents'
  <2>1. ProcOf[s] \in Procs
    BY ShmAssumption
  <2>2. /\ UNCHANGED <<idx, pids>> /\ proc'[ProcOf[s]] = "dead"
        /\ \A r \in Procs \ {ProcOf[s]} : proc'[r] = proc[r]
    BY <1>2, <2>1 DEF SemopInterrupted, TypeOK, segment
  <2> QED BY <1>k, <2>1, <2>2
<1>3. ASSUME NEW q \in Procs, Handler(q) \/ ReadStep(q) PROVE NoSharedEntry' /\ Residents'
  BY <1>q, <1>3 DEF Handler, ReadStep, ReadWake, ReadLoad, ReadCopy, ReadAdvance, segment, process
<1>4. ASSUME NEW q \in Procs, \/ Construct(q) \/ EnrollAcquire(q) \/ EnrollLoad(q) \/ EnrollStore(q)
                              \/ EnrollRelease(q) \/ Install(q)
      PROVE  NoSharedEntry' /\ Residents'
  <2>1. /\ UNCHANGED <<idx, pids>> /\ proc[q] \in EnrollPCs
        /\ \A r \in Procs \ {q} : proc'[r] = proc[r]
    BY <1>4 DEF Construct, EnrollAcquire, EnrollLoad, EnrollStore, EnrollRelease, Install, ProcMove,
                TypeOK, EnrollPCs, segment
  <2> QED BY <1>k, <1>j, <2>1
<1>5. ASSUME NEW q \in Procs, EnrollFind(q) PROVE NoSharedEntry' /\ Residents'
  <2>1. /\ pids' = pids /\ proc[q] = "find" /\ \A r \in Procs \ {q} : proc'[r] = proc[r]
        /\ \A r \in Procs \ {q} : idx'[r] = idx[r]
    BY <1>5 DEF EnrollFind, ProcMove, TypeOK, segment
  <2>2. idx' = idx \/ (idx'[q] \in Entries /\ pids[idx'[q]] = NoPid)
    BY <1>5 DEF EnrollFind, Find, TypeOK
  <2>3. q \in Joiners /\ \A r \in Procs \ {q} : r \in Procs \ Joiners
    BY <1>j, <2>1 DEF EnrollPCs, OneComesAndGoes
  <2>4. \A r \in Procs \ {q} : idx[r] \in Entries /\ pids[idx[r]] = r
    BY <2>3 DEF Residents
  <2>5. NoSharedEntry'
    BY <1>n, <2>1, <2>2, <2>4 DEF NoSharedEntry
  <2> QED BY <2>1, <2>3, <2>5 DEF Residents
<1>6. ASSUME NEW q \in Procs, EnrollClaim(q) PROVE NoSharedEntry' /\ Residents'
  <2>1. /\ idx' = idx /\ proc[q] = "claim" /\ \A r \in Procs \ {q} : proc'[r] = proc[r]
        /\ idx[q] \in Entries /\ \A i \in Entries \ {idx[q]} : pids'[i] = pids[i]
    BY <1>6 DEF EnrollClaim, ProcMove, TypeOK, InTable
  <2>2. q \in Joiners
    BY <1>j, <2>1 DEF EnrollPCs
  <2>3. \A r \in Procs \ Joiners : idx[r] # idx[q]
    BY <1>n, <2>1, <2>2 DEF NoSharedEntry
  <2> QED BY <2>1, <2>2, <2>3 DEF NoSharedEntry, Residents
<1>7. ASSUME NEW q \in Procs, LeaveIgnore(q) \/ LeaveStop(q) \/ LeaveJoin(q)
      PROVE  NoSharedEntry' /\ Residents'
  <2>1. /\ UNCHANGED <<idx, pids>> /\ \A r \in Procs \ {q} : proc'[r] = proc[r]
        /\ q \in Leavers \/ proc[q] \in {"deregistered", "stopping"}
    BY <1>7 DEF LeaveIgnore, LeaveStop, LeaveJoin, ProcMove, TypeOK, segment
  <2>2. q \in Joiners \/ Joiners = {}
    BY <2>1 DEF OneComesAndGoes, Residents
  <2> QED BY <1>k, <2>1, <2>2
<1>8. ASSUME NEW q \in Procs, LeaveDeregister(q) PROVE NoSharedEntry' /\ Residents'
  <2>1. /\ idx' = idx /\ proc[q] = "ignoring" /\ \A r \in Procs \ {q} : proc'[r] = proc[r]
        /\ \A i \in Entries : pids[i] # q => pids'[i] = pids[i]
    BY <1>8 DEF LeaveDeregister, Find, ProcMove, TypeOK
  <2>2. q \in Joiners \/ Joiners = {}
    BY <2>1 DEF Residents
  <2> QED BY <2>1, <2>2 DEF NoSharedEntry, Residents
<1>9. CASE UNCHANGED vars
  BY <1>q, <1>9 DEF vars, segment, process
<1> QED
  BY <1>1, <1>2, <1>3, <1>4, <1>5, <1>6, <1>7, <1>8, <1>9
     DEF Next, WriterStep, EnrollStep, LeaveStep

(* When the processes of a vehicle are constructed one after the other and *)
(* at most one more comes and goes, enroll never hands an entry to two.    *)
THEOREM EntriesApart == OneComesAndGoes => (Spec => []NoSharedEntry)
<1> SUFFICES ASSUME OneComesAndGoes PROVE Spec => []NoSharedEntry
  OBVIOUS
<1>1. /\ TypeOK /\ InTable /\ OwnEntry /\ NoSharedEntry /\ Residents /\ [Next]_vars
      => NoSharedEntry' /\ Residents' /\ OwnEntry'
  BY NextApart, NextOwnEntry
<1> QED BY <1>1, InitApart, InitOwnEntry, Typing, PTL DEF Spec

-----------------------------------------------------------------------------
(***************************************************************************)
(* Any number of processes that join and stay: no entry is shared if they  *)
(* take turns in enroll.                                                   *)
(***************************************************************************)
(* No process looks for a free entry while another has found one that it   *)
(* did not yet put its pid into.                                           *)
Enrolling(p) == proc[p] \in {"find", "claim"}
SerialEnroll == \A p, q \in Procs : Enrolling(p) /\ Enrolling(q) => p = q

(* Nobody leaves, and an entry that was claimed keeps its pid.             *)
Kept ==
  /\ \A p \in Procs : proc[p] # "ignoring"
  /\ \A p \in Procs : idx[p] # -1 /\ proc[p] # "claim" => pids[idx[p]] = p

LEMMA NextKept ==
  ASSUME Leavers = {}, SerialEnroll, TypeOK, InTable, NoSharedEntry, Kept, [Next]_vars
  PROVE  NoSharedEntry' /\ Kept'
<1>n. NoPid \notin Procs /\ -1 \notin Entries
  BY ShmAssumption DEF Entries
<1>q. ASSUME UNCHANGED <<proc, idx, pids>> PROVE NoSharedEntry' /\ Kept'
  BY <1>q DEF NoSharedEntry, Kept
<1>k. ASSUME NEW q \in Procs, UNCHANGED <<idx, pids>>, \A r \in Procs \ {q} : proc'[r] = proc[r],
             proc[q] # "claim", proc'[q] # "ignoring"
      PROVE  NoSharedEntry' /\ Kept'
  BY <1>k DEF NoSharedEntry, Kept
<1>1. ASSUME NEW s \in Senders, WriterStep(s) PROVE NoSharedEntry' /\ Kept'
  <2>1. UNCHANGED process /\ UNCHANGED pids
    BY <1>1 DEF WriterStep, SendBegin, SendStep, SendAcquire, SendScan, SendWait, SendCopy,
       SendLoad, SendStore, SendNotify, segment
  <2> QED BY <1>q, <2>1 DEF process
<1>2. ASSUME NEW s \in Senders, SemopInterrupted(s) PROVE NoSharedEntry' /\ Kept'
  <2>1. ProcOf[s] \in Procs
    BY ShmAssumption
  <2>2. /\ UNCHANGED <<idx, pids>> /\ proc[ProcOf[s]] = "up" /\ proc'[ProcOf[s]] = "dead"
        /\ \A r \in Procs \ {ProcOf[s]} : proc'[r] = proc[r]
    BY <1>2, <2>1 DEF SemopInterrupted, SendAt, TypeOK, segment
  <2> QED BY <1>k, <2>1, <2>2
<1>3. ASSUME NEW q \in Procs, Handler(q) \/ ReadStep(q) PROVE NoSharedEntry' /\ Kept'
  BY <1>q, <1>3 DEF Handler, ReadStep, ReadWake, ReadLoad, ReadCopy, ReadAdvance, segment, process
<1>4. ASSUME NEW q \in Procs, \/ Construct(q) \/ EnrollAcquire(q) \/ EnrollLoad(q) \/ EnrollStore(q)
                              \/ EnrollRelease(q) \/ Install(q) \/ LeaveStop(q) \/ LeaveJoin(q)
      PROVE  NoSharedEntry' /\ Kept'
  <2>1. /\ UNCHANGED <<idx, pids>> /\ proc[q] # "claim" /\ proc'[q] # "ignoring"
        /\ \A r \in Procs \ {q} : proc'[r] = proc[r]
    BY <1>4 DEF Construct, EnrollAcquire, EnrollLoad, EnrollStore, EnrollRelease, Install, LeaveStop,
                LeaveJoin, ProcMove, TypeOK, segment
  <2> QED BY <1>k, <2>1
<1>5. ASSUME NEW q \in Procs, EnrollFind(q) PROVE NoSharedEntry' /\ Kept'
  <2>1. /\ pids' = pids /\ proc[q] = "find" /\ proc'[q] \in {"claim", "release"}
        /\ \A r \in Procs \ {q} : proc'[r] = proc[r] /\ idx'[r] = idx[r]
    BY <1>5 DEF EnrollFind, ProcMove, TypeOK, segment
  <2>2. \/ idx'[q] = idx[q]
        \/ proc'[q] = "claim" /\ idx'[q] \in Entries /\ pids[idx'[q]] = NoPid
    BY <1>5 DEF EnrollFind, ProcMove, Find, TypeOK
  <2>3. \A r \in Procs \ {q} : idx[r] # -1 => pids[idx[r]] = r
    BY <2>1 DEF SerialEnroll, Enrolling, Kept
  <2>4. NoSharedEntry'
    BY <1>n, <2>1, <2>2, <2>3 DEF NoSharedEntry
  <2>5. Kept'
    BY <2>1, <2>2 DEF Kept
  <2> QED BY <2>4, <2>5
<1>6. ASSUME NEW q \in Procs, EnrollClaim(q) PROVE NoSharedEntry' /\ Kept'
  <2>1. /\ idx' = idx /\ proc[q] = "claim" /\ proc'[q] = "load"
        /\ \A r \in Procs \ {q} : proc'[r] = proc[r]
        /\ idx[q] \in Entries /\ pids'[idx[q]] = q
        /\ \A i \in Entries \ {idx[q]} : pids'[i] = pids[i]
    BY <1>6 DEF EnrollClaim, ProcMove, TypeOK, InTable
  <2>2. \A r \in Procs \ {q} : idx[r] # -1 => idx[r] \in Entries \ {idx[q]}
    BY <1>n, <2>1 DEF NoSharedEntry, TypeOK
  <2> QED BY <2>1, <2>2 DEF NoSharedEntry, Kept
<1>7. ASSUME NEW q \in Procs PROVE ~LeaveIgnore(q) /\ ~LeaveDeregister(q)
  BY DEF LeaveIgnore, LeaveDeregister, ProcMove, Kept
<1>8. CASE UNCHANGED vars
  BY <1>q, <1>8 DEF vars, segment, process
<1> QED
  BY <1>1, <1>2, <1>3, <1>4, <1>5, <1>6, <1>7, <1>8 DEF Next, WriterStep, EnrollStep, LeaveStep

(* What the engine asks of MUTEX, and all it asks: that the writers take   *)
(* turns, waits for room included, and the processes in enroll.  Then any  *)
(* number of threads may send and any number of processes join, before the *)
(* counters wrap, and the ring is the bounded broadcast.  MUTEX grants     *)
(* neither: every constructor adds a permit to it (OneAtATime fails), and  *)
(* _send gives its permit back while it waits.                             *)
THEOREM TurnsSuffice ==
  Leavers = {} => (Spec /\ []Serial /\ []SerialEnroll /\ []NoWrapYet => BroadcastSpec)
<1> SUFFICES ASSUME Leavers = {}
             PROVE  Spec /\ []Serial /\ []SerialEnroll /\ []NoWrapYet => BroadcastSpec
  OBVIOUS
<1>1. Init => NoSharedEntry /\ Kept
  <2>1. Init => Kept
    BY DEF Init, Kept
  <2> QED BY <2>1, InitApart
<1>2. /\ SerialEnroll /\ TypeOK /\ InTable /\ NoSharedEntry /\ Kept /\ [Next]_vars
      => NoSharedEntry' /\ Kept'
  BY NextKept
<1>3. Spec /\ []SerialEnroll => []NoSharedEntry
  BY <1>1, <1>2, Typing, PTL DEF Spec
<1> QED BY <1>3, RingBroadcasts, PTL

-----------------------------------------------------------------------------
(* One thread calls _send, and no process enrols if the counters may wrap. *)
OneWriter == \A s, t \in Senders : s = t
NoWrapWhileEnrolling == Joiners = {} \/ MaxFrames < W

(* The bound on the frames, which _send looks at when it begins.           *)
Bounded ==
  /\ published <= nframes /\ nframes <= MaxFrames
  /\ \A s \in Senders : Copied(s) => published < nframes
  /\ \A s \in Senders :
       spc[s] \in {"acquire", "scan", "wait", "reacquire", "copy"} => nframes < MaxFrames

LEMMA NextBounded ==
  ASSUME OneWriter, TypeOK, Bounded, [Next]_vars
  PROVE  Bounded'
<1>c. nframes \in Nat /\ published \in Nat /\ MaxFrames \in Nat
  BY CounterTypes, Constants
<1>q. CASE UNCHANGED <<tail, slots, nframes, published, spc, si, sreg>>
  BY <1>q DEF Bounded, Copied
<1>1. ASSUME NEW s \in Senders, WriterStep(s) PROVE Bounded'
  <2>t. Senders = {s}
    BY DEF OneWriter
  <2>1. CASE SendBegin(s) \/ SendAcquire(s) \/ SendScan(s) \/ SendWait(s)
    <3>1. /\ UNCHANGED <<nframes, published>>
          /\ spc[s] \in {"acquire", "scan", "wait", "reacquire"} \/ nframes < MaxFrames
          /\ spc'[s] \in {"acquire", "scan", "wait", "reacquire", "copy"}
      BY <2>1 DEF SendBegin, SendAcquire, SendScan, SendWait, SendAt, SendTo, TypeOK, history
    <3> QED BY <2>t, <3>1 DEF Bounded, Copied
  <2>2. CASE SendCopy(s)
    <3>1. published' = published /\ nframes' = nframes + 1 /\ spc[s] = "copy" /\ spc'[s] = "load"
      BY <2>2 DEF SendCopy, SendAt, SendTo, TypeOK
    <3> QED BY <1>c, <2>t, <3>1 DEF Bounded, Copied
  <2>3. CASE SendLoad(s) \/ SendNotify(s)
    <3>1. /\ UNCHANGED <<nframes, published>>
          /\ \/ spc[s] = "load" /\ spc'[s] = "store"
             \/ spc[s] = "notify" /\ spc'[s] \in {"notify", "idle"}
      BY <2>3 DEF SendLoad, SendNotify, SendAt, SendTo, TypeOK, history
    <3> QED BY <2>t, <3>1 DEF Bounded, Copied
  <2>4. CASE SendStore(s)
    <3>1. nframes' = nframes /\ published' = published + 1 /\ spc[s] = "store" /\ spc'[s] = "notify"
      BY <2>4 DEF SendStore, SendAt, SendTo, TypeOK
    <3> QED BY <1>c, <2>t, <3>1 DEF Bounded, Copied
  <2> QED BY <1>1, <2>1, <2>2, <2>3, <2>4 DEF WriterStep, SendStep
<1> QED BY <1>q, <1>1, WriterView

(* With one writer, processes constructed one after the other and at most  *)
(* one that comes and goes, before the counters wrap, the ring implements  *)
(* the bounded broadcast; without a newcomer, across the wrap too.         *)
THEOREM Refinement ==
  OneWriter /\ NoWrapWhileEnrolling /\ OneComesAndGoes => (Spec => BroadcastSpec)
<1> SUFFICES ASSUME OneWriter, NoWrapWhileEnrolling, OneComesAndGoes PROVE Spec => BroadcastSpec
  OBVIOUS
<1>1. Serial
  BY DEF OneWriter, Serial
<1>2. Init => Bounded
  BY Constants DEF Init, Bounded, Copied
<1>3. TypeOK /\ Bounded /\ [Next]_vars => Bounded'
  BY NextBounded
<1>4. TypeOK /\ Bounded => NoWrapYet
  BY CounterTypes, Constants DEF NoWrapWhileEnrolling, NoWrapYet, Bounded
<1> QED BY <1>1, <1>2, <1>3, <1>4, RingBroadcasts, EntriesApart, Typing, PTL DEF Spec
==============================================================================
