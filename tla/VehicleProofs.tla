---------------------------- MODULE VehicleProofs ----------------------------
(***************************************************************************)
(* Safety of the processes of a vehicle, for any number of components,     *)
(* entries, slots, frames and signals.                                     *)
(***************************************************************************)
EXTENDS Vehicle, TLAPS

(* A component that main has yet to fork has done nothing.                 *)
Unborn == mpc \in {"build", "fork"} => \A c \in Children : c >= k => life[c] = "none"

(* The gateway is built before the first fork and has no destructor, and   *)
(* what a process has found is an entry.                                   *)
GatewayFirst ==
  /\ life[Main] \in {"forked", "found", "enrolled", "nic", "dead"}
  /\ mpc = "build" => \A c \in Children : life[c] = "none" /\ idx[c] = NoEntry
  /\ mpc # "build" => life[Main] \in {"nic", "dead"}
  /\ \A p \in Procs : life[p] \in {"found", "enrolled", "nic"} => idx[p] \in Entries

(* The loop of waitpid has dealt with the children before k.               *)
Waited ==
  mpc \in {"wait", "off"} =>
    \A c \in Children : c < k \/ mpc = "off" => Ended(c) \/ c \in hurried

Inv == TypeOK /\ Unborn /\ GatewayFirst /\ GatewayEntry /\ Waited

-----------------------------------------------------------------------------
LEMMA Constants ==
  /\ K \in Nat \ {0} /\ PROCS \in Nat /\ Main \in Procs /\ 0 \in Entries
  /\ Children \subseteq Procs /\ Main \notin Children /\ 1 \in 1 .. K + 1
  /\ NoPid \notin Procs /\ NoEntry \notin Entries
  BY VehicleAssumption DEF Main, Procs, Entries, Children, NoPid, NoEntry

(* The initial state is as described.                                      *)
LEMMA InitInv == Init => Inv
<1> SUFFICES ASSUME Init PROVE Inv
  OBVIOUS
<1>1. TypeOK
  BY Constants, VehicleAssumption
  DEF Init, TypeOK, MainPCs, Lives, Senders, Main, Children
<1>2. Unborn
  BY Constants DEF Init, Unborn
<1>3. GatewayFirst /\ GatewayEntry
  BY Constants DEF Init, GatewayFirst, GatewayEntry
<1>4. Waited
  BY DEF Init, Waited
<1> QED BY <1>1, <1>2, <1>3, <1>4 DEF Inv

-----------------------------------------------------------------------------
(* The steps of main.                                                      *)
LEMMA BuiltInv == Inv /\ Built => Inv'
<1> SUFFICES ASSUME Inv, Built PROVE Inv'
  OBVIOUS
<1> USE DEF Inv, Built, MainMove, flags, table, sending
<1>1. TypeOK'
  BY DEF TypeOK, MainPCs
<1>2. Unborn' /\ GatewayFirst' /\ GatewayEntry' /\ Waited'
  BY DEF Unborn, GatewayFirst, GatewayEntry, Waited, Alive, Ended
<1> QED BY <1>1, <1>2

LEMMA ForkInv == Inv /\ Fork => Inv'
<1> SUFFICES ASSUME Inv, Fork PROVE Inv'
  OBVIOUS
<1> USE DEF Inv, Fork, table, sending
<1>1. k \in Children /\ k \in Procs /\ k \in Nat /\ k + 1 \in 1 .. K + 1
  BY Constants DEF TypeOK, Children
<1>2. TypeOK'
  <2>1. life' \in [Procs -> Lives]
    BY DEF TypeOK, Lives
  <2>2. stop' \in [Procs -> BOOLEAN]
    BY Constants DEF TypeOK
  <2> QED BY <1>1, <2>1, <2>2 DEF TypeOK
<1>3. life[k] = "none"
  BY <1>1 DEF Unborn
<1>4. \A p \in Procs : p # k => life'[p] = life[p]
  BY DEF TypeOK
<1>5. Unborn'
  BY <1>1, <1>4, Constants DEF Unborn, TypeOK, Children
<1>6. k # Main /\ life'[Main] = life[Main]
  BY <1>1, <1>4, Constants
<1>7. GatewayFirst' /\ GatewayEntry'
  BY <1>1, <1>4, <1>6 DEF GatewayFirst, GatewayEntry, TypeOK
<1>8. Waited'
  BY DEF Waited
<1> QED BY <1>2, <1>5, <1>7, <1>8

LEMMA MainEnds == Inv /\ ForkFails => Inv'
<1> SUFFICES ASSUME Inv, ForkFails PROVE Inv'
  OBVIOUS
<1> USE Constants DEF Inv, ForkFails, Gone, MainMove
<1>1. TypeOK'
  BY DEF TypeOK, MainPCs, Lives, Senders
<1>2. Unborn' /\ Waited'
  BY DEF Unborn, Waited
<1>3. GatewayFirst' /\ GatewayEntry'
  BY DEF GatewayFirst, GatewayEntry, Alive, TypeOK
<1> QED BY <1>1, <1>2, <1>3

LEMMA LoopsInv == Inv /\ (Forked \/ Spin \/ Kill) => Inv'
<1> SUFFICES ASSUME Inv, Forked \/ Spin \/ Kill PROVE Inv'
  OBVIOUS
<1> USE Constants DEF Inv, MainMove, flags, table, sending
<1>1. k \in 1 .. K + 1 /\ k \in Int /\ K \in Int
  BY DEF TypeOK
<1>2. TypeOK'
  <2>1. CASE Forked \/ Spin
    BY <2>1 DEF Forked, Spin, TypeOK, MainPCs
  <2>2. CASE Kill
    <3>1. k' \in 1 .. K + 1 /\ mpc' \in MainPCs
      BY <1>1, <2>2 DEF Kill, TypeOK, MainPCs
    <3>2. term' \in [Procs -> BOOLEAN]
      BY <2>2 DEF Kill, TypeOK, Alive
    <3> QED BY <2>2, <3>1, <3>2 DEF Kill, TypeOK
  <2> QED BY <2>1, <2>2
<1>3. Unborn'
  BY DEF Forked, Spin, Kill, Unborn
<1>4. GatewayFirst' /\ GatewayEntry'
  BY DEF Forked, Spin, Kill, GatewayFirst, GatewayEntry, Alive
<1>5. Waited'
  <2>1. CASE Forked \/ Spin
    BY <2>1 DEF Forked, Spin, Waited
  <2>2. CASE Kill
    <3>1. mpc' # "off" /\ (mpc' = "wait" => k' = 1)
      BY <2>2 DEF Kill
    <3>2. \A c \in Children : ~(c < 1)
      BY DEF Children
    <3> QED BY <3>1, <3>2 DEF Waited
  <2> QED BY <2>1, <2>2
<1> QED BY <1>2, <1>3, <1>4, <1>5

(* k has ended or goes to hurried, and k is the next.                      *)
LEMMA WaitInv ==
  ASSUME Inv, mpc = "wait", k <= K, k' = k + 1, hurried' \in {hurried, hurried \cup {k}},
         Ended(k) \/ k \in hurried',
         UNCHANGED <<mpc, life>>
  PROVE  /\ k' \in 1 .. K + 1 /\ hurried' \subseteq Children
         /\ Unborn' /\ Waited'
<1>1. k \in Children /\ k \in Int /\ K \in Int
  BY Constants DEF Inv, TypeOK, Children
<1>2. k' \in 1 .. K + 1 /\ hurried' \subseteq Children
  BY <1>1 DEF Inv, TypeOK, Children
<1>3. Unborn'
  BY DEF Unborn
<1>4. ASSUME NEW c \in Children, c < k' PROVE (Ended(c) \/ c \in hurried)'
  <2>1. c < k \/ c = k
    BY <1>1, <1>4 DEF Children
  <2> QED BY <2>1 DEF Inv, Waited, Ended
<1>5. Waited'
  BY <1>4 DEF Waited
<1> QED BY <1>2, <1>3, <1>5

LEMMA WaitStepInv == Inv /\ (WaitChild \/ NetworkSignal \/ PowerOff) => Inv'
<1> SUFFICES ASSUME Inv, WaitChild \/ NetworkSignal \/ PowerOff PROVE Inv'
  OBVIOUS
<1> USE DEF flags, table, sending
<1>1. CASE WaitChild \/ NetworkSignal
  <2>1. /\ mpc = "wait" /\ k <= K /\ k' = k + 1 /\ hurried' \in {hurried, hurried \cup {k}}
        /\ Ended(k) \/ k \in hurried'
        /\ UNCHANGED <<mpc, life>>
    BY <1>1 DEF WaitChild, NetworkSignal
  <2>2. k' \in 1 .. K + 1 /\ hurried' \subseteq Children /\ Unborn' /\ Waited'
    <3> HIDE DEF Inv
    <3>1. UNCHANGED <<mpc, life>>
      BY <1>1 DEF WaitChild, NetworkSignal
    <3> QED BY <2>1, <3>1, WaitInv
  <2>3. TypeOK' /\ GatewayFirst' /\ GatewayEntry'
    BY <1>1, <2>2 DEF WaitChild, NetworkSignal, Inv, TypeOK, GatewayFirst, GatewayEntry, Alive
  <2> QED BY <2>2, <2>3 DEF Inv
<1>2. CASE PowerOff
  <2>1. \A c \in Children : c < k
    BY <1>2, Constants DEF PowerOff, Inv, TypeOK, Children
  <2>2. Waited'
    BY <1>2, <2>1 DEF PowerOff, MainMove, Inv, Waited, Ended
  <2>3. TypeOK' /\ Unborn' /\ GatewayFirst' /\ GatewayEntry'
    BY <1>2 DEF PowerOff, MainMove, Inv, TypeOK, MainPCs, Unborn, GatewayFirst, GatewayEntry, Alive
  <2> QED BY <2>2, <2>3 DEF Inv
<1> QED BY <1>1, <1>2

(* A handler on the main thread.                                           *)
LEMMA InterruptedInv ==
  ASSUME Inv, Interrupted, UNCHANGED <<mpc, life>>
  PROVE  /\ k' \in 1 .. K + 1 /\ hurried' \subseteq Children
         /\ Unborn' /\ Waited'
<1>1. CASE mpc = "wait" /\ k <= K /\ k' = k + 1 /\ hurried' = hurried \cup {k}
  BY <1>1, WaitInv
<1>2. CASE UNCHANGED <<k, hurried>>
  BY <1>2 DEF Inv, TypeOK, Unborn, Waited, Ended
<1> QED BY <1>1, <1>2 DEF Interrupted

LEMMA StopSignalInv == Inv /\ StopSignal => Inv'
<1> SUFFICES ASSUME Inv, StopSignal PROVE Inv'
  OBVIOUS
<1>1. k' \in 1 .. K + 1 /\ hurried' \subseteq Children /\ Unborn' /\ Waited'
  BY InterruptedInv DEF StopSignal
<1>2. signals' \in 0 .. MaxSignals
  BY VehicleAssumption DEF Inv, TypeOK, StopSignal
<1>3. TypeOK'
  BY <1>1, <1>2 DEF Inv, TypeOK, StopSignal, table, sending
<1>4. GatewayFirst' /\ GatewayEntry'
  BY DEF Inv, GatewayFirst, GatewayEntry, StopSignal, table, Alive
<1> QED BY <1>1, <1>3, <1>4 DEF Inv

-----------------------------------------------------------------------------
(* The steps of a process.  A change of life between two states of a       *)
(* process that exists leaves Unborn and Waited alone.                     *)
LEMMA LifeChange ==
  ASSUME Inv, NEW p \in Procs, NEW to,
         Alive(p), life' = [life EXCEPT ![p] = to], UNCHANGED main
  PROVE  Unborn' /\ Waited'
<1> USE DEF Inv, main
<1>1. \A c \in Procs : c # p => life'[c] = life[c]
  BY DEF TypeOK
<1>2. life[p] # "none" /\ ~Ended(p)
  BY DEF Alive, Ended
<1>3. Unborn'
  BY <1>1, <1>2, Constants DEF Unborn
<1>4. Waited'
  BY <1>1, <1>2, Constants DEF Waited, Ended
<1> QED BY <1>3, <1>4

(* The first entry that is free is not the gateway's, ...                  *)
LEMMA FindInv == ASSUME NEW p \in Procs, Inv, Find(p) PROVE Inv'
<1> USE DEF Find, LifeMove, Inv, flags, sending
<1>1. Unborn' /\ Waited'
  BY LifeChange DEF Alive
<1>2. TypeOK'
  BY DEF main, TypeOK, Lives, Free
<1>3. PICK i \in Free : idx' = [idx EXCEPT ![p] = i]
  OBVIOUS
<1>4. i \in Entries /\ pids[i] = NoPid
  BY DEF Free
<1>5. /\ \A q \in Procs : q # p => idx'[q] = idx[q] /\ life'[q] = life[q]
      /\ idx'[p] = i /\ life'[p] = "found"
  BY <1>3 DEF TypeOK
<1>6. CASE p = Main
  <2>1. mpc = "build" /\ mpc' = mpc
    BY <1>6 DEF GatewayFirst, main
  <2>2. GatewayFirst'
    BY <1>4, <1>5, <1>6, <2>1, Constants DEF GatewayFirst
  <2>3. GatewayEntry'
    BY <1>5, <1>6 DEF GatewayEntry
  <2> QED BY <1>1, <1>2, <2>2, <2>3
<1>7. CASE p # Main
  <2>1. p \in Children
    BY <1>7 DEF Procs, Children, Main
  <2>2. mpc # "build" /\ mpc' = mpc
    BY <2>1 DEF GatewayFirst, main
  <2>3. GatewayFirst'
    BY <1>4, <1>5, <1>7, <2>2, Constants DEF GatewayFirst
  <2>4. GatewayEntry'
    BY <1>4, <1>5, <1>7, Constants DEF GatewayEntry
  <2> QED BY <1>1, <1>2, <2>3, <2>4
<1> QED BY <1>6, <1>7

(* ... and what a component claims is what it has found.                   *)
LEMMA ClaimInv == ASSUME NEW p \in Procs, Inv, Claim(p) PROVE Inv'
<1> USE DEF Claim, LifeMove, Inv, flags, sending
<1>1. Unborn' /\ Waited'
  BY LifeChange DEF Alive
<1>2. TypeOK'
  BY DEF main, TypeOK, Lives
<1>3. idx[p] \in Entries
  BY DEF GatewayFirst
<1>4. /\ \A q \in Procs : q # p => life'[q] = life[q]
      /\ life'[p] = "enrolled" /\ idx' = idx /\ mpc' = mpc
      /\ \A i \in Entries : pids'[i] = IF i = idx[p] THEN p ELSE pids[i]
  BY DEF TypeOK, main
<1>5. CASE p = Main
  <2>1. mpc = "build"
    BY <1>5 DEF GatewayFirst
  <2>2. GatewayFirst'
    BY <1>3, <1>4, <1>5, <2>1, Constants DEF GatewayFirst
  <2>3. \A c \in Children : idx[c] = NoEntry
    BY <2>1 DEF GatewayFirst
  <2>4. GatewayEntry'
    BY <1>3, <1>4, <1>5, <2>3, Constants DEF GatewayEntry
  <2> QED BY <1>1, <1>2, <2>2, <2>4
<1>6. CASE p # Main
  <2>1. p \in Children
    BY <1>6 DEF Procs, Children, Main
  <2>2. mpc # "build"
    BY <2>1 DEF GatewayFirst
  <2>3. GatewayFirst'
    BY <1>3, <1>4, <1>6, <2>2, Constants DEF GatewayFirst
  <2>4. life[Main] \in {"enrolled", "nic"} => idx[Main] \in Entries /\ idx[p] # idx[Main]
    BY <2>1, Constants DEF GatewayFirst, GatewayEntry
  <2>5. GatewayEntry'
    BY <1>4, <1>6, <2>4, Constants DEF GatewayEntry
  <2> QED BY <1>1, <1>2, <2>3, <2>5
<1> QED BY <1>5, <1>6

LEMMA MovesInv ==
  ASSUME NEW p \in Procs, Inv, Install(p) \/ Setup(p) \/ LeaveLoop(p) \/ StopReader(p)
  PROVE  Inv'
<1> USE DEF Install, Setup, LeaveLoop, StopReader, LifeMove, Inv, flags, table, sending
<1>1. Unborn' /\ Waited'
  BY LifeChange DEF Alive
<1>2. TypeOK'
  BY DEF main, TypeOK, Lives, Senders
<1>3. /\ \A q \in Procs : q # p => life'[q] = life[q]
      /\ life[p] # "none" /\ life'[p] \in {"nic", "run", "stop", "joining"}
      /\ life'[p] = "nic" => life[p] = "enrolled"
      /\ p = Main => life'[p] = "nic"
      /\ idx' = idx /\ pids' = pids /\ mpc' = mpc
  BY Constants DEF GatewayFirst, TypeOK, main
<1>4. GatewayFirst'
  BY <1>3, Constants DEF GatewayFirst
<1>5. GatewayEntry'
  BY <1>3, Constants DEF GatewayEntry
<1> QED BY <1>1, <1>2, <1>4, <1>5

LEMMA DestroyInv == ASSUME NEW p \in Procs, Inv, Destroy(p) PROVE Inv'
<1> USE DEF Destroy, LifeMove, Inv, flags
<1>1. Unborn' /\ Waited'
  BY LifeChange DEF Alive
<1>2. TypeOK'
  <2>1. sig' \in [Procs -> BOOLEAN] /\ pids' \in [Entries -> Procs \cup {NoPid}]
    BY DEF TypeOK
  <2>2. life' \in [Procs -> Lives] /\ sender' \in [Procs -> Senders]
    BY DEF TypeOK, Lives, Senders
  <2> QED BY <2>1, <2>2 DEF main, TypeOK
<1>3. /\ p # Main /\ idx' = idx /\ mpc' = mpc
      /\ \A q \in Procs : q # p => life'[q] = life[q]
      /\ life[p] = "stop" /\ life'[p] = "left"
      /\ \A i \in Entries : pids[i] = Main => pids'[i] = Main
  BY Constants DEF GatewayFirst, TypeOK, main
<1>4. GatewayFirst'
  BY <1>3, Constants DEF GatewayFirst
<1>5. GatewayEntry'
  BY <1>3, Constants DEF GatewayFirst, GatewayEntry
<1> QED BY <1>1, <1>2, <1>4, <1>5

LEMMA GoneInv ==
  ASSUME NEW p \in Procs, Inv, Exit(p) \/ SemopFails(p) PROVE Inv'
<1>1. /\ Alive(p) /\ UNCHANGED main
      /\ Gone(p, "out") \/ Gone(p, "dead")
      /\ UNCHANGED <<stop, signals, pids, lag, frames>>
  BY DEF Exit, SemopFails, Alive
<1>2. PICK to \in {"out", "dead"} : Gone(p, to)
  BY <1>1
<1>3. Unborn' /\ Waited'
  BY <1>1, <1>2, LifeChange DEF Gone
<1>4. TypeOK'
  <2>1. life' \in [Procs -> Lives] /\ idx' \in [Procs -> Entries \cup {NoEntry}]
    BY <1>2 DEF Inv, Gone, TypeOK, Lives
  <2>2. term' \in [Procs -> BOOLEAN] /\ sig' \in [Procs -> BOOLEAN]
    BY <1>2 DEF Inv, Gone, TypeOK
  <2>3. /\ sender' \in [Procs -> Senders] /\ at' \in [Procs -> 0 .. PROCS]
        /\ \A q \in Procs : sender'[q] \in {"wait", "kill"} => at'[q] < PROCS
    BY <1>2, Constants DEF Inv, Gone, TypeOK, Senders
  <2> QED BY <1>1, <2>1, <2>2, <2>3 DEF Inv, main, TypeOK
<1>5. /\ \A q \in Procs : q # p => life'[q] = life[q] /\ idx'[q] = idx[q]
      /\ life'[p] = to /\ idx'[p] = NoEntry /\ life[p] # "none"
      /\ p = Main => life'[p] = "dead"
      /\ pids' = pids /\ mpc' = mpc
  BY <1>1, <1>2, Constants DEF Inv, Gone, GatewayFirst, TypeOK, Alive, Exit, SemopFails, main
<1>6. GatewayFirst'
  BY <1>5, Constants DEF Inv, GatewayFirst
<1>7. GatewayEntry'
  BY <1>5, Constants DEF Inv, GatewayFirst, GatewayEntry
<1> QED BY <1>3, <1>4, <1>6, <1>7 DEF Inv

(* What changes neither the lives, nor the table, nor main.                *)
LEMMA QuietInv ==
  ASSUME NEW p \in Procs, Inv,
         OnStop(p) \/ SendBegin(p) \/ Pass(p) \/ Full(p) \/ Room(p) \/ Publish(p) \/ Read(p)
  PROVE  Inv'
<1>1. UNCHANGED <<main, life, idx, pids>>
  BY DEF OnStop, SendBegin, Pass, Full, Room, Publish, Read, table
<1>2. Unborn' /\ GatewayFirst' /\ GatewayEntry' /\ Waited'
  BY <1>1, Constants DEF Inv, main, Unborn, GatewayFirst, GatewayEntry, Waited, Alive, Ended
<1>3. TypeOK'
  <2> USE DEF Inv, TypeOK, main, flags, table, sending
  <2>1. CASE OnStop(p)
    BY <2>1 DEF OnStop
  <2>2. CASE SendBegin(p)
    BY <2>2, VehicleAssumption DEF SendBegin, Senders
  <2>3. CASE Pass(p)
    BY <2>3, Constants DEF Pass
  <2>4. CASE Full(p)
    BY <2>4 DEF Full, Senders
  <2>5. CASE Room(p)
    BY <2>5, Constants DEF Room, Senders
  <2>6. CASE Publish(p)
    <3>1. lag' \in [Entries -> Nat]
      BY <2>6 DEF Publish
    <3>2. 0 < PROCS /\ PROCS \in Nat
      BY VehicleAssumption
    <3>3. at' \in [Procs -> 0 .. PROCS] /\ sender' \in [Procs -> Senders]
      BY <2>6, <3>2 DEF Publish, Senders
    <3> QED BY <2>6, <3>1, <3>2, <3>3 DEF Publish
  <2>7. CASE Read(p)
    BY <2>7 DEF Read
  <2> QED BY <2>1, <2>2, <2>3, <2>4, <2>5, <2>6, <2>7
<1> QED BY <1>2, <1>3 DEF Inv

LEMMA SignalInv == ASSUME NEW p \in Procs, Inv, Signal(p) PROVE Inv'
<1>1. Interrupted /\ UNCHANGED <<mpc, life, idx, pids>>
  BY DEF Signal, Interrupted, table
<1>2. k' \in 1 .. K + 1 /\ hurried' \subseteq Children /\ Unborn' /\ Waited'
  BY <1>1, InterruptedInv
<1>3. TypeOK'
  <2>1. sig' \in [Procs -> BOOLEAN]
    BY DEF Inv, TypeOK, Signal
  <2>2. at' \in [Procs -> 0 .. PROCS] /\ sender' \in [Procs -> Senders]
    BY Constants DEF Inv, TypeOK, Signal, Senders
  <2> QED BY <1>2, <2>1, <2>2 DEF Inv, TypeOK, Signal, flags, table
<1>4. GatewayFirst' /\ GatewayEntry'
  BY <1>1 DEF Inv, GatewayFirst, GatewayEntry
<1> QED BY <1>2, <1>3, <1>4 DEF Inv

(* Every step keeps the invariant.                                         *)
LEMMA NextInv == Inv /\ [Next]_vars => Inv'
<1> SUFFICES ASSUME Inv, [Next]_vars PROVE Inv'
  OBVIOUS
<1>1. CASE MainStep
  BY <1>1, BuiltInv, ForkInv, LoopsInv, WaitStepInv DEF MainStep
<1>2. CASE ForkFails \/ NetworkSignal \/ StopSignal
  BY <1>2, MainEnds, WaitStepInv, StopSignalInv
<1>3. ASSUME NEW p \in Procs, LifeStep(p) PROVE Inv'
  BY <1>3, FindInv, ClaimInv, MovesInv, DestroyInv, GoneInv DEF LifeStep
<1>4. ASSUME NEW p \in Procs, OnStop(p) \/ Read(p) \/ SendBegin(p) PROVE Inv'
  BY <1>4, QuietInv
<1>5. ASSUME NEW p \in Procs, SendStep(p) \/ SemopFails(p) PROVE Inv'
  BY <1>5, QuietInv, SignalInv, GoneInv DEF SendStep
<1>6. CASE UNCHANGED vars
  BY <1>6 DEF vars, main, flags, table, sending, Inv, TypeOK, Unborn, GatewayFirst,
             GatewayEntry, Waited, Alive, Ended
<1> QED BY <1>1, <1>2, <1>3, <1>4, <1>5, <1>6 DEF Next

LEMMA Invariance == Spec => []Inv
BY InitInv, NextInv, PTL DEF Spec

(* Whatever the components do to the table, the gateway keeps the entry it *)
(* has, for any number of components, entries, frames and signals.         *)
THEOREM TableSafety == Spec => [](TypeOK /\ GatewayEntry)
<1>1. Inv => TypeOK /\ GatewayEntry
  BY DEF Inv
<1> QED BY <1>1, Invariance, PTL

(* At power-off every child has ended, save those whose waitpid a signal   *)
(* has cut short.                                                          *)
THEOREM PowerOffSafety == Spec => []OffAfterChildren
<1>1. Inv => OffAfterChildren
  BY DEF Inv, Waited, OffAfterChildren
<1> QED BY <1>1, Invariance, PTL
==============================================================================
