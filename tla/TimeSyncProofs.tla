--------------------------- MODULE TimeSyncProofs ---------------------------
(***************************************************************************)
(* The numbering of the rounds is proved for any number of vehicles, RSUs  *)
(* and rounds and any range of the counter: what syncTime accepts belongs  *)
(* to the current round.                                                   *)
(*                                                                         *)
(* The argument: the frames alive after a step were alive before it, or    *)
(* were made by it (Alive' lies in Alive and the new copies).  A new       *)
(* request carries the current number and round, a new answer those of     *)
(* the request it answers, so NumbersInStep is inductive; and a frame      *)
(* whose number equals the counter is then of the current round.  The      *)
(* second part follows T1 to T4 through real time to bound the error of    *)
(* the clock, and shows that one RSU answered both requests.               *)
(***************************************************************************)
EXTENDS TimeSync, TLAPS

(* The counter after one more round: one more, or zero.                    *)
LEMMA NextNumber ==
  ASSUME NEW n \in Nat \ {0}, NEW x \in 0 .. n - 1
  PROVE  /\ (x + 1) % n \in 0 .. n - 1
         /\ (x + 1) % n \in {x + 1, x + 1 - n}
<1>1. CASE x + 1 = n
  BY <1>1
<1>2. CASE x + 1 < n
  BY <1>2
<1> QED BY <1>1, <1>2

(* Taking the head of a queue leaves only frames that were there.          *)
LEMMA QueuedTail ==
  ASSUME NEW S, NEW q \in Seq(S), q # << >>
  PROVE  /\ Tail(q) \in Seq(S) /\ Head(q) \in S
         /\ Head(q) \in {q[i] : i \in DOMAIN q}
         /\ {Tail(q)[i] : i \in DOMAIN Tail(q)} \subseteq {q[i] : i \in DOMAIN q}
<1>1. Tail(q) \in Seq(S) /\ Head(q) \in S /\ Len(q) >= 1 /\ Head(q) = q[1]
  OBVIOUS
<1>2. ASSUME NEW i \in DOMAIN Tail(q)
      PROVE  i + 1 \in DOMAIN q /\ Tail(q)[i] = q[i + 1]
  BY <1>1
<1>3. 1 \in DOMAIN q
  BY <1>1
<1> QED BY <1>1, <1>2, <1>3

(* Appending to a queue adds the one frame.                                *)
LEMMA QueuedAppend ==
  ASSUME NEW S, NEW q \in Seq(S), NEW e \in S
  PROVE  /\ Append(q, e) \in Seq(S)
         /\ {Append(q, e)[i] : i \in DOMAIN Append(q, e)} \subseteq {q[i] : i \in DOMAIN q} \cup {e}
<1>1. Append(q, e) \in Seq(S) /\ Len(Append(q, e)) = Len(q) + 1
  OBVIOUS
<1>2. ASSUME NEW i \in DOMAIN Append(q, e)
      PROVE  Append(q, e)[i] = e \/ (i \in DOMAIN q /\ Append(q, e)[i] = q[i])
  BY <1>1
<1> QED BY <1>1, <1>2

(* The copies that Protocol::send makes are frames and carry the number    *)
(* and round they are given.                                               *)
LEMMA FramesAreFrames ==
  ASSUME TypeOK, NEW x \in Stations, NEW type \in 0 .. 3, NEW base \in Nat,
         NEW n \in 0 .. SeqRange - 1, NEW ts \in Int, NEW k \in Nat
  PROVE  \A f \in Frames(x, type, base, n, ts, k) :
           /\ f \in Frame /\ f.type = type /\ f.base = base /\ f.seq = n
           /\ f.round = k /\ f.src = x
<1>1. Quadrant(x) \in Quadrants
  BY SyncAssumption DEF Quadrant, TypeOK, Stations
<1> QED BY <1>1 DEF Frames, Frame, Stations

(* Init establishes the invariant.                                         *)
LEMMA InitInv == Init => TypeOK /\ NumbersInStep /\ CurrentRound
<1> SUFFICES ASSUME Init PROVE TypeOK /\ NumbersInStep /\ CurrentRound
  OBVIOUS
<1>1. TypeOK
  <2>1. now \in Nat /\ drives \in 0 .. MaxDrives /\ air \subseteq Frame
    BY SyncAssumption DEF Init
  <2>2. inbox \in [Stations -> Seq(Frame)]
    BY DEF Init
  <2>3. /\ skew \in [Vehicles -> Int] /\ quad \in [Vehicles -> Quadrants]
        /\ moved \in [Vehicles -> BOOLEAN] /\ foreign \in [Vehicles -> BOOLEAN]
        /\ pc \in [Vehicles -> PCs]
    BY SyncAssumption DEF Init, PCs
  <2>4. seq \in [Vehicles -> 0 .. SeqRange - 1] /\ round \in [Vehicles -> Nat]
    BY SyncAssumption DEF Init
  <2>5. /\ a1 \in [Vehicles -> Frame \cup {None}] /\ a4 \in [Vehicles -> Frame \cup {None}]
        /\ t2 \in [Vehicles -> Int] /\ t3 \in [Vehicles -> Int] /\ target \in [Vehicles -> Int]
    BY DEF Init
  <2> QED BY <2>1, <2>2, <2>3, <2>4, <2>5 DEF TypeOK
<1>2. Alive = {}
  BY DEF Init, Alive, Queued
<1> QED BY <1>1, <1>2 DEF Init, NumbersInStep, CurrentRound

-----------------------------------------------------------------------------
(* What the steps do to the frames alive.                                  *)

LEMMA AliveTyped ==
  ASSUME TypeOK
  PROVE  /\ Alive \subseteq Frame
         /\ \A x \in Stations : \A i \in DOMAIN inbox[x] : inbox[x][i] \in Alive
         /\ \A x \in Stations : inbox[x] # << >> => Head(inbox[x]) \in Alive
<1>1. ASSUME NEW x \in Stations PROVE Queued(x) \subseteq Frame /\ Queued(x) \subseteq Alive
  BY DEF TypeOK, Queued, Alive
<1>2. ASSUME NEW x \in Stations, inbox[x] # << >> PROVE Head(inbox[x]) \in Queued(x)
  BY <1>2, QueuedTail DEF TypeOK, Queued
<1>3. Alive \subseteq Frame
  BY <1>1 DEF TypeOK, Alive
<1> QED BY <1>1, <1>2, <1>3 DEF Queued

(* A station that takes the head of its queue creates no frame.            *)
LEMMA AliveAfterTake ==
  ASSUME TypeOK, NEW x \in Stations, NEW N, inbox[x] # << >>,
         inbox' = [inbox EXCEPT ![x] = Tail(@)], air' \subseteq air \cup N
  PROVE  Alive' \subseteq Alive \cup N /\ inbox' \in [Stations -> Seq(Frame)]
<1>1. ASSUME NEW y \in Stations PROVE Queued(y)' \subseteq Queued(y) /\ inbox'[y] \in Seq(Frame)
  <2>1. CASE y = x
    BY <2>1, QueuedTail DEF TypeOK, Queued
  <2>2. CASE y # x
    BY <2>2 DEF TypeOK, Queued
  <2> QED BY <2>1, <2>2
<1>2. inbox' \in [Stations -> Seq(Frame)]
  BY <1>1 DEF TypeOK
<1> QED BY <1>1, <1>2 DEF Alive

LEMMA AliveAfterSend ==
  ASSUME NEW N, UNCHANGED inbox, air' \subseteq air \cup N
  PROVE  Alive' \subseteq Alive \cup N
BY DEF Alive, Queued

LEMMA AliveAfterArrive ==
  ASSUME TypeOK, NEW f \in air, Arrive(f)
  PROVE  Alive' \subseteq Alive /\ inbox' \in [Stations -> Seq(Frame)]
<1>1. f \in Frame /\ f.to \in Stations /\ f \in Alive
  BY DEF TypeOK, Frame, Alive
<1>2. ASSUME NEW y \in Stations
      PROVE  Queued(y)' \subseteq Queued(y) \cup {f} /\ inbox'[y] \in Seq(Frame)
  <2>1. CASE inbox'[y] = inbox[y]
    BY <2>1 DEF TypeOK, Queued
  <2>2. CASE inbox'[y] = Append(inbox[y], f)
    BY <2>2, <1>1, QueuedAppend DEF TypeOK, Queued
  <2> QED BY <2>1, <2>2, <1>1 DEF Arrive, TypeOK
<1>3. inbox' \in [Stations -> Seq(Frame)]
  BY <1>2 DEF TypeOK, Arrive
<1> QED BY <1>1, <1>2, <1>3 DEF Alive, Arrive

(* While the counters stand still, new frames in step keep all in step.    *)
LEMMA NumbersKept ==
  ASSUME NumbersInStep, UNCHANGED <<seq, round>>, NEW N, Alive' \subseteq Alive \cup N,
         \A f \in N : /\ \A v \in Vehicles : f.base = Base[v] => InStep(v, f)
                      /\ f.type \in {SyncResp, DelayResp} => f.src \in RSUs
  PROVE  NumbersInStep'
<1>1. ASSUME NEW v \in Vehicles, NEW f, InStep(v, f) PROVE InStep(v, f)'
  BY <1>1 DEF InStep
<1>2. ASSUME NEW f \in Alive', NEW v \in Vehicles, f.base = Base[v]
      PROVE  InStep(v, f)'
  BY <1>1, <1>2 DEF NumbersInStep
<1>3. ASSUME NEW f \in Alive', f.type \in {SyncResp, DelayResp} PROVE f.src \in RSUs
  BY <1>3 DEF NumbersInStep
<1> QED BY <1>2, <1>3 DEF NumbersInStep

LEMMA NumbersKeptNoNew ==
  ASSUME NumbersInStep, UNCHANGED <<seq, round>>, Alive' \subseteq Alive
  PROVE  NumbersInStep'
<1>1. ASSUME NEW v \in Vehicles, NEW f, InStep(v, f) PROVE InStep(v, f)'
  BY <1>1 DEF InStep
<1> QED BY <1>1 DEF NumbersInStep

(* A frame with the vehicle's current number is of its current round.      *)
LEMMA EqualNumberEqualRound ==
  ASSUME TypeOK, NumbersInStep, NEW v \in Vehicles, inbox[v] # << >>,
         NEW type \in {SyncResp, DelayResp}, Expected(v, Head(inbox[v]), type)
  PROVE  Head(inbox[v]) \in Frame /\ Answers(v, Head(inbox[v]), type)
<1> DEFINE f == Head(inbox[v])
<1>1. f \in Alive /\ f \in Frame
  BY AliveTyped DEF Stations
<1>2. InStep(v, f) /\ f.src \in RSUs
  BY <1>1 DEF NumbersInStep, Expected
<1>3. f.round = round[v]
  <2>1. f.seq = seq[v]
    BY DEF Expected
  <2>2. f.round \in Nat
    BY <1>1 DEF Frame
  <2>3. SeqRange \in Nat
    BY SyncAssumption
  <2>4. seq \in [Vehicles -> 0 .. SeqRange - 1] /\ round \in [Vehicles -> Nat]
    BY DEF TypeOK
  <2>5. seq[v] \in 0 .. SeqRange - 1 /\ round[v] \in Nat
    BY <2>4
  <2> HIDE DEF f
  <2> QED BY <2>1, <2>2, <2>3, <2>5, <1>2 DEF InStep
<1> QED BY <1>1, <1>2, <1>3 DEF Expected, Answers

-----------------------------------------------------------------------------
(* The actions, one lemma for those of the environment and the RSUs and    *)
(* one for each step of the client.                                        *)

LEMMA EnvironmentStep ==
  ASSUME TypeOK, NumbersInStep, CurrentRound,
         \/ Tick \/ (\E v \in Vehicles : Drive(v) \/ ForeignAnswer(v) \/ Discard(v))
         \/ (\E f \in air : Arrive(f)) \/ (\E r \in RSUs : Respond(r))
  PROVE  TypeOK' /\ NumbersInStep' /\ CurrentRound'
<1>0. UNCHANGED client
  BY DEF Tick, Drive, ForeignAnswer, Discard, Arrive, Respond
<1>1. CurrentRound'
  BY <1>0 DEF client, CurrentRound, Answers
<1>2. CASE Tick
  <2>1. now' \in Nat
    BY <1>2 DEF Tick, TypeOK
  <2>2. Alive' \subseteq Alive \cup {}
    BY <1>2, AliveAfterSend DEF Tick, network
  <2>3. NumbersInStep'
    BY <2>2, <1>0, NumbersKeptNoNew DEF client
  <2> QED BY <1>1, <1>2, <2>1, <2>3 DEF Tick, TypeOK, network, client
<1>3. ASSUME NEW v \in Vehicles, Drive(v) PROVE TypeOK' /\ NumbersInStep'
  <2>1. /\ drives' \in 0 .. MaxDrives /\ quad' \in [Vehicles -> Quadrants]
        /\ moved' \in [Vehicles -> BOOLEAN]
    BY <1>3, SyncAssumption DEF Drive, TypeOK
  <2>2. Alive' \subseteq Alive \cup {}
    BY <1>3, AliveAfterSend DEF Drive, network
  <2>3. NumbersInStep'
    BY <2>2, <1>0, NumbersKeptNoNew DEF client
  <2> QED BY <1>3, <2>1, <2>3 DEF Drive, TypeOK, network, client
<1>4. ASSUME NEW v \in Vehicles, Discard(v) PROVE TypeOK' /\ NumbersInStep'
  <2>1. v \in Stations /\ air' \subseteq air \cup {}
    BY <1>4 DEF Stations, Discard
  <2>2. Alive' \subseteq Alive \cup {} /\ inbox' \in [Stations -> Seq(Frame)]
    <3>1. CASE inbox[v] # << >>
      BY <1>4, <2>1, <3>1, AliveAfterTake DEF Discard
    <3>2. CASE UNCHANGED inbox
      BY <2>1, <3>2, AliveAfterSend DEF TypeOK
    <3> QED BY <1>4, <3>1, <3>2 DEF Discard
  <2>3. NumbersInStep'
    BY <2>2, <1>0, NumbersKeptNoNew DEF client
  <2>4. foreign' \in [Vehicles -> BOOLEAN]
    BY <1>4 DEF Discard, TypeOK
  <2> QED BY <1>4, <2>2, <2>3, <2>4 DEF Discard, TypeOK, clocks, client
<1>5. ASSUME NEW f \in air, Arrive(f) PROVE TypeOK' /\ NumbersInStep'
  <2>1. Alive' \subseteq Alive \cup {} /\ inbox' \in [Stations -> Seq(Frame)]
    BY <1>5, AliveAfterArrive
  <2>2. NumbersInStep'
    BY <2>1, <1>0, NumbersKeptNoNew DEF client
  <2> QED BY <1>5, <2>1, <2>2 DEF Arrive, TypeOK, clocks, client
<1>6. ASSUME NEW r \in RSUs, Respond(r) PROVE TypeOK' /\ NumbersInStep'
  <2> DEFINE f == Head(inbox[r])
             N == IF f.type \in {SyncReq, DelayReq}
                  THEN Frames(r, f.type + 1, f.base, f.seq, now + Skew[r], f.round) ELSE {}
  <2>1. r \in Stations /\ inbox[r] # << >> /\ inbox' = [inbox EXCEPT ![r] = Tail(@)]
    BY <1>6 DEF Stations, Respond
  <2>2. f \in Alive /\ f \in Frame
    BY <2>1, AliveTyped
  <2>3. ASSUME NEW g \in N
        PROVE  /\ g \in Frame /\ g.src \in RSUs
               /\ g.base = f.base /\ g.seq = f.seq /\ g.round = f.round
    <3>0. f.type \in {SyncReq, DelayReq}
      BY <2>3
    <3>3. f.type + 1 \in 0 .. 3
      BY <3>0 DEF SyncReq, DelayReq
    <3>4. f.base \in Nat /\ f.seq \in 0 .. SeqRange - 1 /\ f.round \in Nat
      BY <2>2 DEF Frame
    <3>1. now + Skew[r] \in Int
      BY SyncAssumption DEF TypeOK
    <3>2. g \in Frames(r, f.type + 1, f.base, f.seq, now + Skew[r], f.round)
      BY <2>3
    <3> HIDE DEF f, N
    <3> QED BY <3>3, <3>4, <3>1, <3>2, <2>1, FramesAreFrames
  <2>4. air' \subseteq air \cup N
    BY <1>6 DEF Respond, Transmit
  <2> HIDE DEF N
  <2>5. Alive' \subseteq Alive \cup N /\ inbox' \in [Stations -> Seq(Frame)]
    BY <2>1, <2>4, AliveAfterTake
  <2>6. \A g \in N : /\ \A v \in Vehicles : g.base = Base[v] => InStep(v, g)
                     /\ g.type \in {SyncResp, DelayResp} => g.src \in RSUs
    BY <2>2, <2>3 DEF NumbersInStep, InStep
  <2>7. NumbersInStep'
    BY <2>5, <2>6, <1>0, NumbersKept DEF client
  <2>8. air' \subseteq Frame
    BY <2>3, <2>4 DEF TypeOK
  <2> QED BY <1>6, <2>5, <2>7, <2>8 DEF Respond, TypeOK, clocks, client
<1>7. ASSUME NEW v \in Vehicles, ForeignAnswer(v) PROVE TypeOK' /\ NumbersInStep'
  <2>1. Alive' \subseteq Alive \cup {}
    BY <1>7, AliveAfterSend DEF ForeignAnswer
  <2>2. NumbersInStep'
    BY <2>1, <1>0, NumbersKeptNoNew DEF client
  <2> QED BY <1>7, <2>2 DEF ForeignAnswer, TypeOK, clocks, client
<1> QED BY <1>1, <1>2, <1>3, <1>4, <1>5, <1>6, <1>7

(* The counters of a vehicle are numbers.                                  *)
LEMMA SeqRangeType == SeqRange \in Nat \ {0}
  BY SyncAssumption

LEMMA CounterTypes ==
  ASSUME TypeOK, NEW v \in Vehicles
  PROVE  round[v] \in Nat /\ seq[v] \in 0 .. SeqRange - 1
<1>1. round \in [Vehicles -> Nat] /\ seq \in [Vehicles -> 0 .. SeqRange - 1]
  BY DEF TypeOK
<1> QED BY <1>1

(* The guard of Begin keeps every older frame less than a turn behind.     *)
LEMMA BeginStep ==
  ASSUME TypeOK, NumbersInStep, CurrentRound, NEW v \in Vehicles, Begin(v)
  PROVE  TypeOK' /\ NumbersInStep' /\ CurrentRound'
<1>1. /\ seq' = [seq EXCEPT ![v] = (seq[v] + 1) % SeqRange]
      /\ round' = [round EXCEPT ![v] = round[v] + 1]
      /\ pc' = [pc EXCEPT ![v] = "sync_req"]
      /\ UNCHANGED <<clocks, network, a1, a4, t2, t3, target, synced>>
      /\ \A f \in Alive : f.base = Base[v] => round[v] + 1 - f.round < SeqRange
  BY DEF Begin, ClientMove
<1>2. /\ seq'[v] = (seq[v] + 1) % SeqRange /\ round'[v] = round[v] + 1
      /\ \A w \in Vehicles : w # v => seq'[w] = seq[w] /\ round'[w] = round[w]
  BY <1>1 DEF TypeOK
<1>3. seq'[v] \in 0 .. SeqRange - 1 /\ seq'[v] \in {seq[v] + 1, seq[v] + 1 - SeqRange}
  <2>1. seq[v] \in 0 .. SeqRange - 1 /\ SeqRange \in Nat \ {0}
    BY CounterTypes, SeqRangeType
  <2> QED BY <2>1, <1>2, NextNumber
<1>4. Alive' = Alive
  BY <1>1 DEF network, Alive, Queued
<1>5. TypeOK'
  <2>1. seq' \in [Vehicles -> 0 .. SeqRange - 1] /\ round' \in [Vehicles -> Nat]
    BY <1>1, <1>2, <1>3 DEF TypeOK
  <2>2. pc' \in [Vehicles -> PCs]
    BY <1>1 DEF TypeOK, PCs
  <2> QED BY <1>1, <2>1, <2>2 DEF TypeOK, clocks, network
<1>6. ASSUME NEW f \in Alive', NEW w \in Vehicles, f.base = Base[w]
      PROVE  InStep(w, f)'
  <2>1. CASE w = v
    <3>1. InStep(v, f) /\ round[v] + 1 - f.round < SeqRange
      BY <2>1, <1>1, <1>4, <1>6 DEF NumbersInStep
    <3>2. /\ f.round \in Nat /\ f.seq \in 0 .. SeqRange - 1 /\ round[v] \in Nat
          /\ seq[v] \in 0 .. SeqRange - 1 /\ SeqRange \in Nat \ {0}
      BY <1>4, AliveTyped, SyncAssumption DEF Frame, TypeOK
    <3> QED BY <3>1, <3>2, <2>1, <1>2, <1>3 DEF InStep
  <2>2. CASE w # v
    <3>1. InStep(w, f)
      BY <1>4, <1>6 DEF NumbersInStep
    <3> QED BY <3>1, <2>2, <1>2 DEF InStep
  <2> QED BY <2>1, <2>2
<1>7. ASSUME NEW f \in Alive', f.type \in {SyncResp, DelayResp} PROVE f.src \in RSUs
  BY <1>4, <1>7 DEF NumbersInStep
<1>8. CurrentRound'
  BY <1>1, <1>2 DEF CurrentRound, Answers, TypeOK
<1> QED BY <1>5, <1>6, <1>7, <1>8 DEF NumbersInStep

(* An answer taken is one of this round.                                   *)
LEMMA TakeStep ==
  ASSUME TypeOK, NumbersInStep, CurrentRound, NEW v \in Vehicles, TakeT1(v) \/ TakeT4(v)
  PROVE  TypeOK' /\ NumbersInStep' /\ CurrentRound'
<1>1. /\ v \in Stations /\ inbox[v] # << >> /\ inbox' = [inbox EXCEPT ![v] = Tail(@)]
      /\ air' \subseteq air \cup {} /\ UNCHANGED <<clocks, air, foreign, seq, round, t3, synced>>
  BY DEF TakeT1, TakeT4, Stations
<1>2. Alive' \subseteq Alive /\ inbox' \in [Stations -> Seq(Frame)]
  BY <1>1, AliveAfterTake
<1>3. NumbersInStep'
  BY <1>1, <1>2, NumbersKeptNoNew
<1>4. Clock(v) \in Int
  BY DEF Clock, TypeOK
<1>5. CASE TakeT1(v)
  <2>1. Head(inbox[v]) \in Frame /\ Answers(v, Head(inbox[v]), SyncResp)
    BY <1>5, EqualNumberEqualRound DEF TakeT1
  <2>2. /\ a1' = [a1 EXCEPT ![v] = Head(inbox[v])] /\ t2' = [t2 EXCEPT ![v] = Clock(v)]
        /\ pc' = [pc EXCEPT ![v] = "delay_req"] /\ UNCHANGED <<a4, target>>
    BY <1>5 DEF TakeT1, ClientMove
  <2>3. TypeOK'
    BY <2>1, <2>2, <1>1, <1>2, <1>4 DEF TypeOK, clocks, PCs
  <2>4. CurrentRound'
    BY <2>1, <2>2, <1>1 DEF CurrentRound, Answers, TypeOK
  <2> QED BY <2>3, <2>4, <1>3
<1>6. CASE TakeT4(v)
  <2>1. Head(inbox[v]) \in Frame /\ Answers(v, Head(inbox[v]), DelayResp)
    BY <1>6, EqualNumberEqualRound DEF TakeT4
  <2>2. /\ a4' = [a4 EXCEPT ![v] = Head(inbox[v])] /\ pc[v] = "delay"
        /\ target' = [target EXCEPT ![v] =
             Clock(v) + Correction(Offset(a1[v].ts, t2[v], t3[v], Head(inbox[v]).ts))]
        /\ pc' = [pc EXCEPT ![v] = "settime"] /\ UNCHANGED <<a1, t2>>
    BY <1>6 DEF TakeT4, ClientMove
  <2>3. Clock(v) + Correction(Offset(a1[v].ts, t2[v], t3[v], Head(inbox[v]).ts)) \in Int
    <3>1. a1[v] \in Frame
      BY <2>2 DEF CurrentRound, Answers
    <3>2. /\ a1[v].ts \in Int /\ Head(inbox[v]).ts \in Int /\ t2[v] \in Int /\ t3[v] \in Int
      BY <3>1, <2>1 DEF Frame, TypeOK
    <3>3. Offset(a1[v].ts, t2[v], t3[v], Head(inbox[v]).ts) \in Int
      BY <3>2 DEF Offset, Quot
    <3> QED BY <3>3, <1>4 DEF Correction
  <2>4. TypeOK'
    BY <2>1, <2>2, <2>3, <1>1, <1>2 DEF TypeOK, clocks, PCs
  <2>5. CurrentRound'
    BY <2>1, <2>2, <1>1 DEF CurrentRound, Answers, TypeOK
  <2> QED BY <2>4, <2>5, <1>3
<1> QED BY <1>5, <1>6

LEMMA ReadT3Step ==
  ASSUME TypeOK, NumbersInStep, CurrentRound, NEW v \in Vehicles, ReadT3(v)
  PROVE  TypeOK' /\ NumbersInStep' /\ CurrentRound'
<1>1. /\ pc' = [pc EXCEPT ![v] = "delay_send"] /\ pc[v] = "delay_req"
      /\ t3' = [t3 EXCEPT ![v] = Clock(v)]
      /\ UNCHANGED <<clocks, network, seq, round, a1, a4, t2, target, synced>>
  BY DEF ReadT3, ClientMove
<1>2. Alive' \subseteq Alive
  BY <1>1 DEF network, Alive, Queued
<1>3. NumbersInStep'
  BY <1>1, <1>2, NumbersKeptNoNew
<1>4. TypeOK'
  <2>1. Clock(v) \in Int
    BY DEF Clock, TypeOK
  <2> QED BY <1>1, <2>1 DEF TypeOK, clocks, network, PCs
<1>5. CurrentRound'
  BY <1>1 DEF CurrentRound, Answers, TypeOK
<1> QED BY <1>3, <1>4, <1>5

(* A request carries the number and the round of its vehicle.              *)
LEMMA SendRequestStep ==
  ASSUME TypeOK, NumbersInStep, CurrentRound, NEW v \in Vehicles, NEW from, NEW to,
         NEW type \in {SyncReq, DelayReq}, SendRequest(v, from, to, type),
         \/ from = "sync_req" /\ to = "sync"
         \/ from = "delay_send" /\ to = "delay"
  PROVE  TypeOK' /\ NumbersInStep' /\ CurrentRound'
<1> DEFINE N == Frames(v, type, Base[v], seq[v], 0, round[v])
<1>1. /\ pc' = [pc EXCEPT ![v] = to] /\ pc[v] = from /\ air' \subseteq air \cup N
      /\ UNCHANGED <<clocks, inbox, foreign, seq, round, a1, a4, t2, t3, target, synced>>
  BY DEF SendRequest, ClientMove, Transmit
<1>2. ASSUME NEW f \in N
      PROVE  /\ f \in Frame /\ f.type = type /\ f.base = Base[v]
             /\ f.seq = seq[v] /\ f.round = round[v]
  <2>1. /\ v \in Stations /\ type \in 0 .. 3 /\ Base[v] \in Nat /\ 0 \in Int
        /\ round[v] \in Nat /\ seq[v] \in 0 .. SeqRange - 1
    BY SyncAssumption DEF Stations, SyncReq, DelayReq, TypeOK
  <2> QED BY <2>1, <1>2, FramesAreFrames
<1>3. Alive' \subseteq Alive \cup N
  BY <1>1, AliveAfterSend
<1> HIDE DEF N
<1>4. ASSUME NEW f \in N, NEW w \in Vehicles, f.base = Base[w] PROVE InStep(w, f)
  <2>1. w = v
    BY <1>2, <1>4, SyncAssumption
  <2>2. round[v] \in Nat /\ SeqRange \in Nat \ {0} /\ seq[v] \in 0 .. SeqRange - 1
    BY SyncAssumption DEF TypeOK
  <2>3. f.round = round[v] /\ f.seq = seq[v]
    BY <1>2
  <2> QED BY <2>1, <2>2, <2>3 DEF InStep
<1>5. \A f \in N : f.type \notin {SyncResp, DelayResp}
  BY <1>2 DEF SyncReq, DelayReq, SyncResp, DelayResp
<1>6. NumbersInStep'
  BY <1>1, <1>3, <1>4, <1>5, NumbersKept
<1>7. TypeOK'
  <2>1. air' \subseteq Frame
    BY <1>1, <1>2 DEF TypeOK
  <2> QED BY <1>1, <2>1 DEF TypeOK, clocks, PCs
<1>8. CurrentRound'
  BY <1>1 DEF CurrentRound, Answers, TypeOK
<1> QED BY <1>6, <1>7, <1>8

LEMMA SendStepInv ==
  ASSUME TypeOK, NumbersInStep, CurrentRound, NEW v \in Vehicles, SendStep(v)
  PROVE  TypeOK' /\ NumbersInStep' /\ CurrentRound'
BY SendRequestStep DEF SendStep, SendSyncReq, SendDelayReq

(* syncTime returns, with the clock set or not.                            *)
LEMMA ReturnStep ==
  ASSUME TypeOK, NumbersInStep, CurrentRound, NEW v \in Vehicles, SetTime(v) \/ Timeout(v)
  PROVE  TypeOK' /\ NumbersInStep' /\ CurrentRound'
<1>1. /\ pc' = [pc EXCEPT ![v] = "idle"] /\ Return(v)
      /\ UNCHANGED <<now, quad, drives, air, inbox, foreign>>
  BY DEF SetTime, Timeout, ClientMove, network
<1>2. /\ a1' = [a1 EXCEPT ![v] = None] /\ a4' = [a4 EXCEPT ![v] = None]
      /\ t2' = [t2 EXCEPT ![v] = 0] /\ t3' = [t3 EXCEPT ![v] = 0]
      /\ target' = [target EXCEPT ![v] = 0] /\ moved' = [moved EXCEPT ![v] = FALSE]
      /\ UNCHANGED <<seq, round>>
  BY <1>1 DEF Return
<1>3. NumbersInStep'
  <2>1. Alive' \subseteq Alive
    BY <1>1 DEF Alive, Queued
  <2> QED BY <2>1, <1>2, NumbersKeptNoNew
<1>4. skew' \in [Vehicles -> Int]
  <2>1. CASE Timeout(v)
    BY <2>1 DEF Timeout, TypeOK
  <2>2. CASE SetTime(v)
    <3> DEFINE t == Timespec(target[v])
    <3>1. target[v] \in Int /\ NSEC \in Nat \ {0} /\ now \in Int
      BY SyncAssumption DEF TypeOK
    <3>2. Quot(target[v], NSEC) \in Int
      BY <3>1 DEF Quot
    <3>3. NSEC * Quot(target[v], NSEC) \in Int
      BY <3>1, <3>2
    <3>4. Rem(target[v], NSEC) \in Int
      BY <3>1, <3>3 DEF Rem
    <3>5. t.sec \in Int /\ t.nsec \in Int
      BY <3>1, <3>2, <3>4 DEF Timespec
    <3> HIDE DEF t
    <3>6. t.sec * NSEC + t.nsec - now \in Int
      BY <3>1, <3>5
    <3>7. skew' = skew \/ skew' = [skew EXCEPT ![v] = t.sec * NSEC + t.nsec - now]
      BY <2>2 DEF SetTime, t
    <3> QED BY <3>6, <3>7 DEF TypeOK
  <2> QED BY <2>1, <2>2
<1>5. TypeOK'
  <2>1. pc' \in [Vehicles -> PCs] /\ moved' \in [Vehicles -> BOOLEAN]
    BY <1>1, <1>2 DEF TypeOK, PCs
  <2>2. a1' \in [Vehicles -> Frame \cup {None}] /\ a4' \in [Vehicles -> Frame \cup {None}]
    BY <1>2 DEF TypeOK
  <2>3. t2' \in [Vehicles -> Int] /\ t3' \in [Vehicles -> Int] /\ target' \in [Vehicles -> Int]
    BY <1>2 DEF TypeOK
  <2> QED BY <1>1, <1>2, <1>4, <2>1, <2>2, <2>3 DEF TypeOK
<1>6. CurrentRound'
  BY <1>1, <1>2 DEF CurrentRound, Answers, TypeOK
<1> QED BY <1>3, <1>5, <1>6

-----------------------------------------------------------------------------
LEMMA Invariance == Spec => [](TypeOK /\ NumbersInStep /\ CurrentRound)
<1> DEFINE Inv == TypeOK /\ NumbersInStep /\ CurrentRound
<1>1. Init => Inv
  BY InitInv
<1>2. Inv /\ [Next]_vars => Inv'
  <2> SUFFICES ASSUME TypeOK, NumbersInStep, CurrentRound, [Next]_vars PROVE Inv'
    OBVIOUS
  <2>1. CASE UNCHANGED vars
    <3>1. Alive' \subseteq Alive
      BY <2>1 DEF vars, network, Alive, Queued
    <3>2. NumbersInStep'
      BY <2>1, <3>1, NumbersKeptNoNew DEF vars, client
    <3>3. TypeOK' /\ CurrentRound'
      BY <2>1 DEF vars, clocks, network, client, TypeOK, CurrentRound, Answers
    <3> QED BY <3>2, <3>3
  <2>2. CASE \/ Tick \/ (\E v \in Vehicles : Drive(v) \/ ForeignAnswer(v) \/ Discard(v))
             \/ (\E f \in air : Arrive(f)) \/ (\E r \in RSUs : Respond(r))
    BY <2>2, EnvironmentStep
  <2>3. ASSUME NEW v \in Vehicles, Begin(v) PROVE Inv'
    BY <2>3, BeginStep
  <2>4. ASSUME NEW v \in Vehicles, TakeT1(v) \/ TakeT4(v) PROVE Inv'
    BY <2>4, TakeStep
  <2>5. ASSUME NEW v \in Vehicles, ReadT3(v) \/ SendStep(v) PROVE Inv'
    BY <2>5, ReadT3Step, SendStepInv
  <2>6. ASSUME NEW v \in Vehicles, SetTime(v) \/ Timeout(v) PROVE Inv'
    BY <2>6, ReturnStep
  <2> QED BY <2>1, <2>2, <2>3, <2>4, <2>5, <2>6 DEF Next, ClientStep
<1> QED BY <1>1, <1>2, PTL DEF Spec

(* T1 and T4 always come from answers to the requests of this round of     *)
(* this vehicle, however late or reordered the frames are.                 *)
THEOREM AnswersOfThisRound == Spec => [](TypeOK /\ CurrentRound)
BY Invariance, PTL

(* Of all frames under way or queued, the number of each tells how many    *)
(* rounds ago it was sent, across the wrap of the counter in _seq.         *)
THEOREM NumbersTellRounds == Spec => []NumbersInStep
BY Invariance, PTL

-----------------------------------------------------------------------------
(***************************************************************************)
(* From here on, the two clocks.  A step is seen from one vehicle (it is a *)
(* step of its syncTime, or leaves its round alone) and from one frame (it *)
(* was alive, or this step made it), and four facts are carried along:     *)
(* answers bear the quadrant and a past time of the RSU that sent them     *)
(* (AnswersFrom), those queued in a round come from the vehicle's quadrant *)
(* (InQuadrant), a delay answer is never older than T3 (DelaysAfter), and  *)
(* T1, T2, T3 and now are ordered in real time (Measured).                 *)
(***************************************************************************)
IsAnswer(f) == f.type \in {SyncResp, DelayResp}

AnswersFrom ==
  \A f \in Alive : IsAnswer(f) => f.q = QuadOf[f.src] /\ f.ts - Skew[f.src] <= now

InQuadrant ==
  \A v \in Vehicles : pc[v] # "idle" /\ ~moved[v] =>
    /\ \A f \in Queued(v) :
         IsAnswer(f) /\ f.base = Base[v] /\ f.round = round[v] => f.q = quad[v]
    /\ pc[v] \in {"delay_req", "delay_send", "delay", "settime"} => QuadOf[a1[v].src] = quad[v]
    /\ pc[v] = "settime" => QuadOf[a4[v].src] = quad[v]

DelayAfter(v, f) ==
  f.base = Base[v] /\ f.round = round[v] /\ f.type \in {DelayReq, DelayResp} =>
    /\ pc[v] \notin {"sync_req", "sync", "delay_req", "delay_send"}
    /\ pc[v] # "idle" /\ f.type = DelayResp => t3[v] - skew[v] <= f.ts - Skew[f.src]
DelaysAfter == \A f \in Alive, v \in Vehicles : DelayAfter(v, f)

MeasuredT2(v) ==
  pc[v] \in {"delay_req", "delay_send", "delay", "settime"} =>
    a1[v].ts - Skew[a1[v].src] <= t2[v] - skew[v] /\ t2[v] - skew[v] <= now
MeasuredT3(v) ==
  pc[v] \in {"delay_send", "delay", "settime"} => t2[v] <= t3[v] /\ t3[v] - skew[v] <= now
MeasuredTarget(v) ==
  pc[v] = "settime" /\ a1[v].src = a4[v].src =>
    a1[v].ts <= target[v] /\ target[v] <= 2 * (now + Skew[a1[v].src]) - a1[v].ts
Measured == \A v \in Vehicles : MeasuredT2(v) /\ MeasuredT3(v) /\ MeasuredTarget(v)

SyncedType == synced \in [Vehicles -> [rsu : RSUs, span : Int] \cup {None}]

Numbered == TypeOK /\ NumbersInStep /\ CurrentRound

LEMMA Half ==
  ASSUME NEW x \in Int
  PROVE  /\ Quot(x, 2) \in Int
         /\ 2 * Quot(x, 2) = x \/ (x >= 0 /\ 2 * Quot(x, 2) = x - 1)
                               \/ (x < 0 /\ 2 * Quot(x, 2) = x + 1)
BY DEF Quot

(* The clock that new_ns sets, as the RSU's clock shows it, is at least T1 *)
(* and no further after the reading of the clock than T1 was before it.    *)
LEMMA OffsetBound ==
  ASSUME NEW T1 \in Int, NEW T2 \in Int, NEW T3 \in Int, NEW T4 \in Int,
         NEW k \in Int, NEW s \in Int, NEW t \in Int,
         T1 - s <= T2 - k, T2 <= T3, T3 - k <= T4 - s, T4 - s <= t
  PROVE  /\ T1 <= t + k - Offset(T1, T2, T3, T4)
         /\ t + k - Offset(T1, T2, T3, T4) <= 2 * (t + s) - T1
<1> DEFINE x == (T2 - T1) + (T3 - T4)
           q == Quot(x, 2)
<1>1. x \in Int
  OBVIOUS
<1>2. /\ q \in Int
      /\ 2 * q = x \/ (x >= 0 /\ 2 * q = x - 1) \/ (x < 0 /\ 2 * q = x + 1)
  BY <1>1, Half
<1>3. Offset(T1, T2, T3, T4) = q
  BY DEF Offset
<1> HIDE DEF q
<1> QED BY <1>2, <1>3

(* The timespec says what new_ns said.                                     *)
LEMMA TimespecValue ==
  ASSUME NEW x \in Int, NEW n \in Nat \ {0}, NEW q \in Int
  PROVE  q * n + (x - n * q) = x /\ (q - 1) * n + (x - n * q + n) = x
<1>1. q * n = n * q /\ n * q \in Int
  OBVIOUS
<1>2. (q - 1) * n = n * q - n
  OBVIOUS
<1> QED BY <1>1, <1>2

LEMMA TimespecExact ==
  ASSUME NEW ns \in Int
  PROVE  /\ Timespec(ns).sec * NSEC + Timespec(ns).nsec = ns
         /\ Timespec(ns).sec * NSEC \in Int /\ Timespec(ns).nsec \in Int
<1>1. NSEC \in Nat \ {0} /\ Quot(ns, NSEC) \in Int
  BY SyncAssumption DEF Quot
<1> DEFINE q == Quot(ns, NSEC)
<1>2. Rem(ns, NSEC) = ns - NSEC * q
  BY DEF Rem
<1>3. \/ Timespec(ns).sec = q /\ Timespec(ns).nsec = ns - NSEC * q
      \/ Timespec(ns).sec = q - 1 /\ Timespec(ns).nsec = ns - NSEC * q + NSEC
  BY <1>2 DEF Timespec
<1> HIDE DEF q
<1>4. q \in Int
  BY <1>1 DEF q
<1>5. NSEC * q \in Int /\ q * NSEC \in Int /\ (q - 1) * NSEC \in Int
  BY <1>1, <1>4
<1> QED BY <1>1, <1>3, <1>4, <1>5, TimespecValue

-----------------------------------------------------------------------------
(* A step seen from one frame.                                             *)
MadeByRSU(f, r, g) ==
  /\ g.type \in {SyncReq, DelayReq} /\ f.type = g.type + 1
  /\ f.base = g.base /\ f.round = g.round
  /\ f.src = r /\ f.q = QuadOf[r] /\ f.ts = now + Skew[r]
Origin(f) ==
  \/ f \in Alive
  \/ \E v \in Vehicles : SendSyncReq(v) /\ f.type = SyncReq
  \/ \E v \in Vehicles : SendDelayReq(v) /\ f.type = DelayReq /\ f.base = Base[v]
  \/ \E r \in RSUs, g \in Alive : Respond(r) /\ MadeByRSU(f, r, g)

LEMMA FrameOrigin ==
  ASSUME TypeOK, [Next]_vars, NEW f \in Alive'
  PROVE  Origin(f)
<1>1. CASE UNCHANGED network
  BY <1>1 DEF network, Alive, Queued, Origin
<1>2. ASSUME NEW v \in Vehicles, Discard(v) \/ TakeT1(v) \/ TakeT4(v), inbox' # inbox
      PROVE  Origin(f)
  <2>1. /\ v \in Stations /\ air' \subseteq air \cup {} /\ inbox[v] # << >>
        /\ inbox' = [inbox EXCEPT ![v] = Tail(@)]
    BY <1>2 DEF Stations, Discard, TakeT1, TakeT4
  <2>2. Alive' \subseteq Alive
    BY <2>1, AliveAfterTake
  <2> QED BY <2>2 DEF Origin
<1>3. ASSUME NEW g \in air, Arrive(g) PROVE Origin(f)
  BY <1>3, AliveAfterArrive DEF Origin
<1>4. ASSUME NEW r \in RSUs, Respond(r) PROVE Origin(f)
  <2> DEFINE g == Head(inbox[r])
             N == IF g.type \in {SyncReq, DelayReq}
                  THEN Frames(r, g.type + 1, g.base, g.seq, now + Skew[r], g.round) ELSE {}
  <2>1. r \in Stations /\ inbox[r] # << >> /\ inbox' = [inbox EXCEPT ![r] = Tail(@)]
    BY <1>4 DEF Stations, Respond
  <2>2. g \in Alive
    BY <2>1, AliveTyped
  <2>3. air' \subseteq air \cup N
    BY <1>4 DEF Respond, Transmit
  <2>4. ASSUME f \in N PROVE MadeByRSU(f, r, g)
    BY <2>4 DEF Frames, Quadrant, MadeByRSU
  <2> HIDE DEF N, g
  <2>5. f \in Alive \/ f \in N
    BY <2>1, <2>3, AliveAfterTake
  <2> QED BY <1>4, <2>2, <2>4, <2>5 DEF Origin
<1>5. ASSUME NEW v \in Vehicles, SendSyncReq(v) PROVE Origin(f)
  <2> DEFINE N == Frames(v, SyncReq, Base[v], seq[v], 0, round[v])
  <2>1. Alive' \subseteq Alive \cup N
    BY <1>5, AliveAfterSend DEF SendSyncReq, SendRequest, Transmit
  <2>2. f \in N => f.type = SyncReq
    BY DEF Frames
  <2> QED BY <1>5, <2>1, <2>2 DEF Origin
<1>6. ASSUME NEW v \in Vehicles, SendDelayReq(v) PROVE Origin(f)
  <2> DEFINE N == Frames(v, DelayReq, Base[v], seq[v], 0, round[v])
  <2>1. Alive' \subseteq Alive \cup N
    BY <1>6, AliveAfterSend DEF SendDelayReq, SendRequest, Transmit
  <2>2. f \in N => f.type = DelayReq /\ f.base = Base[v]
    BY DEF Frames
  <2> QED BY <1>6, <2>1, <2>2 DEF Origin
<1>7. CASE UNCHANGED <<air, inbox>>
  BY <1>7 DEF Alive, Queued, Origin
<1>8. CASE \/ Tick \/ UNCHANGED vars
           \/ \E v \in Vehicles : \/ Drive(v) \/ ForeignAnswer(v) \/ Begin(v) \/ ReadT3(v)
                                   \/ SetTime(v) \/ Timeout(v)
  BY <1>1, <1>7, <1>8 DEF Tick, Drive, ForeignAnswer, Begin, ReadT3, SetTime, Timeout, vars
<1>9. ASSUME NEW v \in Vehicles, Discard(v) \/ TakeT1(v) \/ TakeT4(v), UNCHANGED inbox
      PROVE  Origin(f)
  BY <1>7, <1>9 DEF Discard, TakeT1, TakeT4
<1> QED BY <1>2, <1>3, <1>4, <1>5, <1>6, <1>8, <1>9 DEF Next, ClientStep, SendStep

(* A step seen from one vehicle.                                           *)
Spared(v) ==
  /\ pc'[v] = pc[v] /\ round'[v] = round[v] /\ skew'[v] = skew[v]
  /\ a1'[v] = a1[v] /\ a4'[v] = a4[v]
  /\ t2'[v] = t2[v] /\ t3'[v] = t3[v] /\ target'[v] = target[v]
InRound(v) ==
  \/ Begin(v) \/ SendSyncReq(v) \/ TakeT1(v) \/ ReadT3(v) \/ SendDelayReq(v)
  \/ TakeT4(v) \/ SetTime(v) \/ Timeout(v)

LEMMA VehicleStep ==
  ASSUME TypeOK, [Next]_vars, NEW v \in Vehicles
  PROVE  Spared(v) \/ InRound(v)
<1>1. CASE UNCHANGED <<pc, round, skew, a1, a4, t2, t3, target>>
  BY <1>1 DEF Spared
<1>2. CASE \/ Tick \/ (\E w \in Vehicles : Drive(w) \/ ForeignAnswer(w) \/ Discard(w))
           \/ (\E f \in air : Arrive(f)) \/ (\E r \in RSUs : Respond(r)) \/ UNCHANGED vars
  BY <1>1, <1>2 DEF Tick, Drive, ForeignAnswer, Discard, Arrive, Respond, vars, clocks, client
<1>3. ASSUME NEW w \in Vehicles, w # v, Begin(w) PROVE Spared(v)
  BY <1>3 DEF TypeOK, Begin, ClientMove, clocks, Spared
<1>4. ASSUME NEW w \in Vehicles, w # v, TakeT1(w) PROVE Spared(v)
  BY <1>4 DEF TypeOK, TakeT1, ClientMove, clocks, Spared
<1>5. ASSUME NEW w \in Vehicles, w # v, ReadT3(w) \/ SendStep(w) PROVE Spared(v)
  BY <1>5 DEF TypeOK, ReadT3, SendStep, SendSyncReq, SendDelayReq, SendRequest, ClientMove,
              clocks, Spared
<1>6. ASSUME NEW w \in Vehicles, w # v, TakeT4(w) PROVE Spared(v)
  BY <1>6 DEF TypeOK, TakeT4, ClientMove, clocks, Spared
<1>7. ASSUME NEW w \in Vehicles, w # v, SetTime(w) \/ Timeout(w) PROVE Spared(v)
  <2>1. skew'[v] = skew[v] /\ pc'[v] = pc[v]
    BY <1>7 DEF TypeOK, SetTime, Timeout, ClientMove
  <2>2. Return(w)
    BY <1>7 DEF SetTime, Timeout
  <2> QED BY <1>7, <2>1, <2>2 DEF TypeOK, Return, Spared
<1> QED BY <1>2, <1>3, <1>4, <1>5, <1>6, <1>7 DEF Next, ClientStep, SendStep, InRound

(* Real time does not go back, and stands still in a step of a round.      *)
LEMMA TimePasses ==
  ASSUME TypeOK, [Next]_vars
  PROVE  now' \in Int /\ now <= now' /\ \A v \in Vehicles : InRound(v) => now' = now
<1>1. now \in Int
  BY DEF TypeOK
<1>2. now' = now \/ now' = now + 1
  BY DEF Next, ClientStep, SendStep, Tick, Drive, ForeignAnswer, Begin, Discard, TakeT1, ReadT3,
         SendSyncReq, SendDelayReq, SendRequest, TakeT4, SetTime, Timeout, Arrive, Respond,
         vars, clocks
<1>3. \A v \in Vehicles : InRound(v) => now' = now
  BY DEF InRound, Begin, TakeT1, ReadT3, SendSyncReq, SendDelayReq, SendRequest, TakeT4, SetTime,
         Timeout, clocks
<1> QED BY <1>1, <1>2, <1>3

LEMMA VehicleTypes ==
  ASSUME TypeOK, NEW v \in Vehicles
  PROVE  /\ now \in Int /\ skew[v] \in Int /\ t2[v] \in Int /\ t3[v] \in Int
         /\ target[v] \in Int /\ v \in Stations
BY DEF TypeOK, Stations

LEMMA AnswerTypes ==
  ASSUME NEW f \in Frame, f.src \in RSUs
  PROVE  f.ts \in Int /\ Skew[f.src] \in Int
BY SyncAssumption DEF Frame

-----------------------------------------------------------------------------
LEMMA NextAnswersFrom ==
  ASSUME Numbered, Numbered', AnswersFrom, [Next]_vars
  PROVE  AnswersFrom'
<1> SUFFICES ASSUME NEW f \in Alive', IsAnswer(f)
             PROVE  f.q = QuadOf[f.src] /\ f.ts - Skew[f.src] <= now'
  BY DEF AnswersFrom, IsAnswer
<1>1. now \in Int /\ now' \in Int /\ now <= now'
  BY TimePasses DEF Numbered, TypeOK
<1>2. f \in Frame /\ f.src \in RSUs
  <2>1. Alive' \subseteq Frame
    BY AliveTyped DEF Numbered, TypeOK, Alive, Queued
  <2> QED BY <2>1 DEF Numbered, NumbersInStep, IsAnswer
<1>3. f.ts \in Int /\ Skew[f.src] \in Int
  BY <1>2, AnswerTypes
<1>4. CASE f \in Alive
  BY <1>1, <1>3, <1>4 DEF AnswersFrom, IsAnswer
<1>5. ASSUME NEW r \in RSUs, NEW g, MadeByRSU(f, r, g)
      PROVE  f.q = QuadOf[f.src] /\ f.ts - Skew[f.src] <= now'
  BY <1>1, <1>3, <1>5 DEF MadeByRSU
<1>6. f.type # SyncReq /\ f.type # DelayReq
  BY DEF IsAnswer, SyncReq, SyncResp, DelayReq, DelayResp
<1>7. Origin(f)
  BY FrameOrigin DEF Numbered
<1> QED BY <1>4, <1>5, <1>6, <1>7 DEF Origin

(* Before its own Delay_Req there is no delay message of a round, and the  *)
(* RSU reads its clock after it received it.                               *)
LEMMA NextDelaysAfter ==
  ASSUME Numbered, Numbered', DelaysAfter, Measured, [Next]_vars
  PROVE  DelaysAfter'
<1> SUFFICES ASSUME NEW f \in Alive', NEW v \in Vehicles,
                    f.base = Base[v], f.round = round'[v], f.type \in {DelayReq, DelayResp}
             PROVE  /\ pc'[v] \notin {"sync_req", "sync", "delay_req", "delay_send"}
                    /\ pc'[v] # "idle" /\ f.type = DelayResp =>
                         t3'[v] - skew'[v] <= f.ts - Skew[f.src]
  BY DEF DelaysAfter, DelayAfter
<1>t. TypeOK /\ now \in Int /\ skew[v] \in Int /\ t3[v] \in Int
  BY VehicleTypes DEF Numbered
<1>o. Origin(f)
  BY FrameOrigin DEF Numbered
<1>q. f.type # SyncReq
  BY DEF SyncReq, DelayReq, DelayResp
<1>1. CASE Begin(v)
  <2>1. pc' # pc /\ pc[v] = "idle" /\ round'[v] = round[v] + 1 /\ UNCHANGED t3
    BY <1>1, <1>t DEF Begin, ClientMove, TypeOK
  <2>2. CASE f \in Alive
    <3>1. InStep(v, f)
      BY <2>2 DEF Numbered, NumbersInStep
    <3>2. f.round \in Nat /\ round[v] \in Nat /\ SeqRange \in Nat
      BY <2>2, <1>t, AliveTyped, CounterTypes, SeqRangeType DEF Frame
    <3> QED BY <2>1, <3>1, <3>2 DEF InStep
  <2>3. \A w \in Vehicles : ~SendDelayReq(w)
    BY <1>1, <1>t DEF Begin, SendDelayReq, SendRequest, ClientMove, TypeOK
  <2>4. \A r \in RSUs : ~Respond(r)
    BY <2>1 DEF Respond, client
  <2> QED BY <1>o, <1>q, <2>2, <2>3, <2>4 DEF Origin
<1>2. CASE f \in Alive /\ ~Begin(v)
  <2>1. round'[v] = round[v]
    BY <1>2, <1>t, VehicleStep DEF Spared, InRound, TakeT1, ReadT3, SendSyncReq, SendDelayReq,
       SendRequest, TakeT4, SetTime, Timeout, Return
  <2>2. /\ pc[v] \notin {"sync_req", "sync", "delay_req", "delay_send"}
        /\ pc[v] # "idle" /\ f.type = DelayResp => t3[v] - skew[v] <= f.ts - Skew[f.src]
    BY <1>2, <2>1 DEF DelaysAfter, DelayAfter
  <2>3. CASE Spared(v)
    BY <2>2, <2>3 DEF Spared
  <2>4. CASE TakeT4(v)
    BY <2>2, <2>4, <1>t DEF TakeT4, ClientMove, clocks, TypeOK
  <2>5. CASE SetTime(v) \/ Timeout(v)
    BY <2>5, <1>t DEF SetTime, Timeout, ClientMove, TypeOK
  <2>6. ~SendSyncReq(v) /\ ~TakeT1(v) /\ ~ReadT3(v) /\ ~SendDelayReq(v)
    BY <2>2 DEF SendSyncReq, TakeT1, ReadT3, SendDelayReq, SendRequest, ClientMove
  <2> QED BY <1>2, <2>3, <2>4, <2>5, <2>6, <1>t, VehicleStep DEF InRound
<1>3. ASSUME NEW w \in Vehicles, SendDelayReq(w), f.type = DelayReq, f.base = Base[w]
      PROVE  pc'[v] = "delay"
  <2>1. w = v
    BY <1>3, SyncAssumption
  <2> QED BY <1>3, <2>1, <1>t DEF SendDelayReq, SendRequest, ClientMove, TypeOK
<1>4. ASSUME NEW r \in RSUs, NEW g \in Alive, Respond(r), MadeByRSU(f, r, g)
      PROVE  /\ pc'[v] \notin {"sync_req", "sync", "delay_req", "delay_send"}
             /\ pc'[v] # "idle" => t3'[v] - skew'[v] <= f.ts - Skew[f.src]
  <2>1. UNCHANGED <<pc, round, t3, skew>>
    BY <1>4 DEF Respond, client, clocks
  <2>2. g.type = DelayReq /\ g.base = Base[v] /\ g.round = round[v]
    <3>1. g.type = 0 \/ g.type = 2
      BY <1>4 DEF MadeByRSU, SyncReq, DelayReq
    <3>2. g.type + 1 = 2 \/ g.type + 1 = 3
      BY <1>4 DEF MadeByRSU, DelayReq, DelayResp
    <3>3. g.type = 2
      BY <3>1, <3>2
    <3> QED BY <1>4, <2>1, <3>3 DEF MadeByRSU, DelayReq
  <2>3. pc[v] \notin {"sync_req", "sync", "delay_req", "delay_send"}
    BY <2>2 DEF DelaysAfter, DelayAfter
  <2>4. pc[v] # "idle" => t3[v] - skew[v] <= now
    BY <2>3, <1>t DEF Measured, MeasuredT3, TypeOK, PCs
  <2>5. f.ts - Skew[f.src] = now
    <3>1. Skew[r] \in Int
      BY SyncAssumption
    <3> QED BY <1>4, <3>1, <1>t DEF MadeByRSU
  <2> QED BY <2>1, <2>3, <2>4, <2>5
<1>5. DelayReq # DelayResp
  BY DEF DelayReq, DelayResp
<1> QED BY <1>1, <1>2, <1>3, <1>4, <1>5, <1>o, <1>q DEF Origin

(* What syncTime takes from its queue.                                     *)
LEMMA TakenAnswer ==
  ASSUME Numbered, NEW v \in Vehicles, NEW type \in {SyncResp, DelayResp},
         inbox[v] # << >>, Expected(v, Head(inbox[v]), type)
  PROVE  /\ Head(inbox[v]) \in Alive /\ Head(inbox[v]) \in Queued(v)
         /\ Head(inbox[v]) \in Frame /\ Answers(v, Head(inbox[v]), type)
         /\ IsAnswer(Head(inbox[v]))
         /\ Head(inbox[v]).ts \in Int /\ Skew[Head(inbox[v]).src] \in Int
<1>1. Head(inbox[v]) \in Alive
  BY AliveTyped DEF Numbered, Stations
<1>2. Head(inbox[v]) \in Queued(v)
  BY QueuedTail DEF Numbered, TypeOK, Stations, Queued
<1>3. Head(inbox[v]) \in Frame /\ Answers(v, Head(inbox[v]), type)
  BY EqualNumberEqualRound DEF Numbered
<1>4. IsAnswer(Head(inbox[v]))
  BY DEF Expected, IsAnswer
<1> QED BY <1>1, <1>2, <1>3, <1>4, AnswerTypes DEF Answers

LEMMA NextMeasured ==
  ASSUME Numbered, AnswersFrom, DelaysAfter, Measured, [Next]_vars
  PROVE  Measured'
<1> SUFFICES ASSUME NEW v \in Vehicles
             PROVE  MeasuredT2(v)' /\ MeasuredT3(v)' /\ MeasuredTarget(v)'
  BY DEF Measured
<1>t. /\ TypeOK /\ now \in Int /\ skew[v] \in Int /\ t2[v] \in Int /\ t3[v] \in Int
      /\ target[v] \in Int
  BY VehicleTypes DEF Numbered
<1>n. now' \in Int /\ now <= now' /\ (InRound(v) => now' = now)
  BY <1>t, TimePasses
<1>m. MeasuredT2(v) /\ MeasuredT3(v) /\ MeasuredTarget(v)
  BY DEF Measured
<1>a. pc[v] \in {"delay_req", "delay_send", "delay", "settime"} =>
        a1[v].src \in RSUs /\ a1[v].ts \in Int /\ Skew[a1[v].src] \in Int
  BY AnswerTypes DEF Numbered, CurrentRound, Answers
<1>1. CASE Spared(v)
  <2>1. MeasuredT2(v)' /\ MeasuredT3(v)'
    BY <1>1, <1>t, <1>n, <1>m, <1>a DEF Spared, MeasuredT2, MeasuredT3
  <2>2. MeasuredTarget(v)'
    BY <1>1, <1>t, <1>n, <1>m, <1>a DEF Spared, MeasuredTarget
  <2> QED BY <2>1, <2>2
<1>2. CASE Begin(v) \/ SendSyncReq(v) \/ SetTime(v) \/ Timeout(v)
  <2>1. pc'[v] \in {"sync_req", "sync", "idle"}
    BY <1>2, <1>t DEF Begin, SendSyncReq, SendRequest, SetTime, Timeout, ClientMove, TypeOK
  <2> QED BY <2>1 DEF MeasuredT2, MeasuredT3, MeasuredTarget
<1>3. CASE TakeT1(v)
  <2> DEFINE f == Head(inbox[v])
  <2>1. f \in Alive /\ IsAnswer(f) /\ f.ts \in Int /\ Skew[f.src] \in Int
    BY <1>3, TakenAnswer DEF TakeT1
  <2>2. /\ pc'[v] = "delay_req" /\ a1'[v] = f /\ t2'[v] = now + skew[v]
        /\ skew'[v] = skew[v] /\ now' = now
    BY <1>3, <1>t DEF TakeT1, ClientMove, Clock, clocks, TypeOK
  <2>3. f.ts - Skew[f.src] <= now
    BY <2>1 DEF AnswersFrom
  <2> HIDE DEF f
  <2> QED BY <2>1, <2>2, <2>3, <1>t DEF MeasuredT2, MeasuredT3, MeasuredTarget
<1>4. CASE ReadT3(v)
  <2>1. /\ pc[v] = "delay_req" /\ pc'[v] = "delay_send" /\ t3'[v] = now + skew[v]
        /\ t2'[v] = t2[v] /\ a1'[v] = a1[v] /\ skew'[v] = skew[v] /\ now' = now
    BY <1>4, <1>t DEF ReadT3, ClientMove, Clock, clocks, TypeOK
  <2>2. MeasuredT2(v)'
    BY <2>1, <1>m DEF MeasuredT2
  <2>3. MeasuredT3(v)' /\ MeasuredTarget(v)'
    BY <2>1, <1>m, <1>t DEF MeasuredT2, MeasuredT3, MeasuredTarget
  <2> QED BY <2>2, <2>3
<1>6. CASE SendDelayReq(v)
  <2>1. /\ pc[v] = "delay_send" /\ pc'[v] = "delay"
        /\ UNCHANGED <<now, skew, a1, t2, t3>>
    BY <1>6, <1>t DEF SendDelayReq, SendRequest, ClientMove, clocks, TypeOK
  <2> QED BY <2>1, <1>m DEF MeasuredT2, MeasuredT3, MeasuredTarget
<1>5. CASE TakeT4(v)
  <2> DEFINE f == Head(inbox[v])
  <2>1. /\ f \in Alive /\ IsAnswer(f) /\ f.ts \in Int /\ Skew[f.src] \in Int
        /\ Answers(v, f, DelayResp)
    BY <1>5, TakenAnswer DEF TakeT4
  <2>2. /\ pc[v] = "delay" /\ pc'[v] = "settime" /\ a4'[v] = f /\ a1'[v] = a1[v]
        /\ t2'[v] = t2[v] /\ t3'[v] = t3[v] /\ skew'[v] = skew[v] /\ now' = now
    BY <1>5, <1>t DEF TakeT4, ClientMove, clocks, TypeOK
  <2>o. target'[v] = now + skew[v] - Offset(a1[v].ts, t2[v], t3[v], f.ts)
    <3> DEFINE o == Offset(a1[v].ts, t2[v], t3[v], f.ts)
    <3>1. target' = [target EXCEPT ![v] = Clock(v) + Correction(o)]
      BY <1>5 DEF TakeT4
    <3>2. target'[v] = Clock(v) + Correction(o)
      BY <3>1, <1>t, Zenon DEF TypeOK
    <3>3. Clock(v) = now + skew[v] /\ Correction(o) = -o
      BY DEF Clock, Correction
    <3>5. o \in Int
      <4>1. a1[v].ts \in Int
        BY <2>2, <1>a
      <4>2. (t2[v] - a1[v].ts) + (t3[v] - f.ts) \in Int
        BY <2>1, <4>1, <1>t
      <4> QED BY <4>2, Half DEF Offset
    <3> HIDE DEF o
    <3>4. target'[v] = now + skew[v] - o
      BY <3>2, <3>3, <3>5, <1>t
    <3> QED BY <3>4 DEF o
  <2>3. t3[v] - skew[v] <= f.ts - Skew[f.src] /\ f.ts - Skew[f.src] <= now
    BY <2>1, <2>2 DEF DelaysAfter, DelayAfter, AnswersFrom, Answers
  <2> HIDE DEF f
  <2>4. MeasuredT2(v)' /\ MeasuredT3(v)'
    BY <2>2, <1>m DEF MeasuredT2, MeasuredT3
  <2>5. MeasuredTarget(v)'
    <3> SUFFICES ASSUME a1[v].src = f.src
                 PROVE  /\ a1[v].ts <= target'[v]
                        /\ target'[v] <= 2 * (now + Skew[f.src]) - a1[v].ts
      BY <2>2 DEF MeasuredTarget
    <3>1. a1[v].ts - Skew[f.src] <= t2[v] - skew[v] /\ t2[v] <= t3[v]
      BY <2>2, <1>m DEF MeasuredT2, MeasuredT3
    <3>2. a1[v].ts \in Int
      BY <2>2, <1>a
    <3>3. /\ a1[v].ts <= now + skew[v] - Offset(a1[v].ts, t2[v], t3[v], f.ts)
          /\ now + skew[v] - Offset(a1[v].ts, t2[v], t3[v], f.ts) <=
               2 * (now + Skew[f.src]) - a1[v].ts
      BY <2>1, <2>3, <3>1, <3>2, <1>t, OffsetBound
    <3> QED BY <2>o, <3>3
  <2> QED BY <2>4, <2>5
<1> QED BY <1>1, <1>2, <1>3, <1>4, <1>5, <1>6, <1>t, VehicleStep DEF InRound

(* clock_settime sets the clock to new_ns; nothing else touches it.        *)
LEMMA NextClockError ==
  ASSUME Numbered, Measured, SyncedType, ClockError, [Next]_vars
  PROVE  SyncedType' /\ ClockError'
<1>t. TypeOK
  BY DEF Numbered
<1>1. CASE UNCHANGED <<skew, synced>>
  BY <1>1 DEF SyncedType, ClockError
<1>2. ASSUME NEW v \in Vehicles, SetTime(v), ~UNCHANGED <<skew, synced>>
      PROVE  SyncedType' /\ ClockError'
  <2> DEFINE s == Skew[a1[v].src]
             t == Timespec(target[v])
             k == t.sec * NSEC + t.nsec - now
             y == IF a1[v].src = a4[v].src
                  THEN [rsu |-> a1[v].src, span |-> now + s - a1[v].ts] ELSE None
  <2>1. /\ pc[v] = "settime" /\ skew' = [skew EXCEPT ![v] = k]
        /\ synced' = [synced EXCEPT ![v] = y]
    BY <1>2 DEF SetTime, ClientMove
  <2>2. a1[v].src \in RSUs /\ a1[v].ts \in Int /\ s \in Int
    BY <2>1, AnswerTypes DEF Numbered, CurrentRound, Answers
  <2>3. now \in Int /\ target[v] \in Int /\ k = target[v] - now
    <3>1. now \in Int /\ target[v] \in Int
      BY <1>t, VehicleTypes
    <3> DEFINE u == t.sec * NSEC
    <3>2. u + t.nsec = target[v] /\ u \in Int /\ t.nsec \in Int
      BY <3>1, TimespecExact
    <3>3. k = u + t.nsec - now
      OBVIOUS
    <3> HIDE DEF u, k, t
    <3> QED BY <3>1, <3>2, <3>3
  <2>4. a1[v].src = a4[v].src => a1[v].ts <= target[v] /\ target[v] <= 2 * (now + s) - a1[v].ts
    BY <2>1 DEF Measured, MeasuredTarget
  <2> HIDE DEF s, t, k
  <2>5. SyncedType'
    BY <2>1, <2>2, <2>3 DEF SyncedType
  <2>6. ASSUME y # None
        PROVE  LET d == k - Skew[y.rsu] IN d <= y.span /\ -d <= y.span
    <3>1. y.rsu = a1[v].src /\ y.span = now + s - a1[v].ts
      BY <2>6
    <3>2. Skew[y.rsu] = s /\ a1[v].src = a4[v].src
      BY <2>6, <3>1 DEF s
    <3> HIDE DEF y
    <3> QED BY <2>2, <2>3, <2>4, <3>1, <3>2
  <2> HIDE DEF y
  <2>7. ClockError'
    <3> SUFFICES ASSUME NEW w \in Vehicles, synced'[w] # None
                 PROVE  LET d == skew'[w] - Skew[synced'[w].rsu]
                        IN  d <= synced'[w].span /\ -d <= synced'[w].span
      BY DEF ClockError
    <3>1. CASE w = v
      <4>1. synced'[w] = y /\ skew'[w] = k
        BY <2>1, <3>1, <1>t DEF SyncedType, TypeOK
      <4> QED BY <2>6, <4>1
    <3>2. CASE w # v
      <4>1. synced'[w] = synced[w] /\ skew'[w] = skew[w]
        BY <2>1, <3>2, <1>t DEF SyncedType, TypeOK
      <4> QED BY <4>1 DEF ClockError
    <3> QED BY <3>1, <3>2
  <2> QED BY <2>5, <2>7
<1>3. UNCHANGED <<skew, synced>> \/ \E v \in Vehicles : SetTime(v)
  BY DEF Next, ClientStep, SendStep, Tick, Drive, ForeignAnswer, Begin, Discard, TakeT1, ReadT3,
         SendSyncReq, SendDelayReq, SendRequest, TakeT4, Timeout, Arrive, Respond,
         vars, clocks, client
<1> QED BY <1>1, <1>2, <1>3

LEMMA NumberedAlways == Spec => []Numbered
BY Invariance, PTL DEF Numbered

LEMMA InitClocks ==
  ASSUME Init
  PROVE  AnswersFrom /\ DelaysAfter /\ Measured /\ InQuadrant /\ SyncedType /\ ClockError
<1>1. Alive = {}
  BY DEF Init, Alive, Queued
<1>2. \A v \in Vehicles : pc[v] = "idle" /\ synced[v] = None
  BY DEF Init
<1> QED BY <1>1, <1>2 DEF Init, AnswersFrom, DelaysAfter, Measured, MeasuredT2, MeasuredT3,
     MeasuredTarget, InQuadrant, SyncedType, ClockError

LEMMA RealTimeOrder == Spec => [](AnswersFrom /\ DelaysAfter /\ Measured)
<1> DEFINE I == AnswersFrom /\ DelaysAfter /\ Measured
<1>1. Init => I
  BY InitClocks
<1>2. Numbered /\ Numbered' /\ I /\ [Next]_vars => I'
  BY NextAnswersFrom, NextDelaysAfter, NextMeasured
<1> HIDE DEF I
<1>3. Spec => []I
  BY NumberedAlways, <1>1, <1>2, PTL DEF Spec
<1> QED BY <1>3, PTL DEF I

(* A synchronisation with one RSU leaves the two clocks no further apart   *)
(* than the time from T1 to clock_settime, for any delays of the network   *)
(* and of the threads, any two clocks and any rounding of the offset.      *)
THEOREM ClocksAgree == Spec => []ClockError
<1> DEFINE I == SyncedType /\ ClockError
<1>1. Init => I
  BY InitClocks
<1>2. Numbered /\ Measured /\ I /\ [Next]_vars => I'
  BY NextClockError
<1> HIDE DEF I
<1>3. Spec => []I
  BY NumberedAlways, RealTimeOrder, <1>1, <1>2, PTL DEF Spec
<1>4. I => ClockError
  BY DEF I
<1> QED BY <1>3, <1>4, PTL

-----------------------------------------------------------------------------
(* What NIC::_handle lets into a vehicle's queue comes from the quadrant   *)
(* the vehicle is in at that moment.                                       *)
LEMMA QueueOrigin ==
  ASSUME TypeOK, [Next]_vars, NEW v \in Vehicles, NEW f \in Queued(v)'
  PROVE  f \in Queued(v) \/ (f.q = quad[v] /\ quad'[v] = quad[v])
<1>v. v \in Stations /\ v \notin RSUs
  BY SyncAssumption DEF Stations
<1>1. CASE inbox'[v] = inbox[v]
  BY <1>1 DEF Queued
<1>2. CASE inbox[v] # << >> /\ inbox'[v] = Tail(inbox[v])
  BY <1>2, <1>v, QueuedTail DEF Queued, TypeOK
<1>3. ASSUME NEW g \in air, Arrive(g), inbox'[v] # inbox[v]
      PROVE  f \in Queued(v) \/ (f.q = quad[v] /\ quad'[v] = quad[v])
  <2>1. g \in Frame /\ g.to = v /\ g.q = quad[v] /\ inbox'[v] = Append(inbox[v], g)
    BY <1>3, <1>v DEF Arrive, TypeOK, Quadrant
  <2>2. f \in Queued(v) \cup {g}
    BY <2>1, <1>v, QueuedAppend DEF Queued, TypeOK
  <2>3. quad' = quad
    BY <1>3 DEF Arrive, clocks
  <2> QED BY <2>1, <2>2, <2>3
<1>4. ASSUME NEW x \in Stations, inbox[x] # << >>, inbox' = [inbox EXCEPT ![x] = Tail(@)]
      PROVE  f \in Queued(v)
  BY <1>1, <1>2, <1>4, <1>v DEF TypeOK, Queued
<1> QED BY <1>1, <1>3, <1>4 DEF Next, ClientStep, SendStep, Tick, Drive, ForeignAnswer, Begin, Discard,
     TakeT1, ReadT3, SendSyncReq, SendDelayReq, SendRequest, TakeT4, SetTime, Timeout, Respond,
     vars, network, Stations

(* A vehicle stays where it is in a round, or moved says that it did not.  *)
LEMMA QuadrantStep ==
  ASSUME TypeOK, [Next]_vars, NEW v \in Vehicles
  PROVE  \/ quad'[v] = quad[v] /\ moved'[v] = moved[v]
         \/ pc'[v] = "idle" \/ (moved'[v] = (pc[v] # "idle") /\ pc'[v] = pc[v])
<1>1. CASE UNCHANGED <<quad, moved>>
  BY <1>1
<1>2. ASSUME NEW w \in Vehicles, Drive(w)
      PROVE  \/ quad'[v] = quad[v] /\ moved'[v] = moved[v]
             \/ (moved'[v] = (pc[v] # "idle") /\ pc'[v] = pc[v])
  <2>1. CASE w = v
    BY <1>2, <2>1 DEF TypeOK, Drive, client
  <2>2. CASE w # v
    BY <1>2, <2>2 DEF TypeOK, Drive
  <2> QED BY <2>1, <2>2
<1>3. ASSUME NEW w \in Vehicles, SetTime(w) \/ Timeout(w)
      PROVE  \/ quad'[v] = quad[v] /\ moved'[v] = moved[v]
             \/ pc'[v] = "idle"
  <2>1. CASE w = v
    BY <1>3, <2>1 DEF TypeOK, SetTime, Timeout, ClientMove
  <2>2. CASE w # v
    BY <1>3, <2>2 DEF TypeOK, SetTime, Timeout, Return
  <2> QED BY <2>1, <2>2
<1> QED BY <1>1, <1>2, <1>3 DEF Next, ClientStep, SendStep, Tick, ForeignAnswer, Begin, Discard,
     TakeT1, ReadT3, SendSyncReq, SendDelayReq, SendRequest, TakeT4, Arrive, Respond,
     vars, clocks

LEMMA NextInQuadrant ==
  ASSUME Numbered, AnswersFrom, InQuadrant, [Next]_vars
  PROVE  InQuadrant'
<1> SUFFICES ASSUME NEW v \in Vehicles, pc'[v] # "idle", ~moved'[v]
             PROVE  /\ \A f \in Queued(v)' :
                         IsAnswer(f) /\ f.base = Base[v] /\ f.round = round'[v] => f.q = quad'[v]
                    /\ pc'[v] \in {"delay_req", "delay_send", "delay", "settime"} =>
                         QuadOf[a1'[v].src] = quad'[v]
                    /\ pc'[v] = "settime" => QuadOf[a4'[v].src] = quad'[v]
  BY DEF InQuadrant, IsAnswer
<1>t. TypeOK
  BY DEF Numbered
<1>1. quad'[v] = quad[v] /\ moved'[v] = moved[v]
  BY <1>t, QuadrantStep
<1>2. CASE Begin(v)
  <2>1. pc'[v] = "sync_req" /\ round'[v] = round[v] + 1 /\ Queued(v)' = Queued(v)
    BY <1>2, <1>t DEF Begin, ClientMove, TypeOK, Queued, network
  <2>2. ASSUME NEW f \in Queued(v), f.base = Base[v] PROVE f.round # round[v] + 1
    <3>1. f \in Alive
      BY DEF Alive, Stations
    <3>2. InStep(v, f)
      BY <2>2, <3>1 DEF Numbered, NumbersInStep
    <3>3. f.round \in Nat /\ round[v] \in Nat /\ SeqRange \in Nat
      BY <3>1, <1>t, AliveTyped, CounterTypes, SeqRangeType DEF Frame
    <3> QED BY <3>2, <3>3 DEF InStep
  <2> QED BY <2>1, <2>2
<1>3. CASE ~Begin(v)
  <2>1. round'[v] = round[v] /\ pc[v] # "idle"
    BY <1>3, <1>t, VehicleStep DEF Spared, InRound, TakeT1, ReadT3, SendSyncReq, SendDelayReq,
       SendRequest, TakeT4, SetTime, Timeout, Return, ClientMove, TypeOK
  <2>q. /\ \A f \in Queued(v) :
             IsAnswer(f) /\ f.base = Base[v] /\ f.round = round[v] => f.q = quad[v]
        /\ pc[v] \in {"delay_req", "delay_send", "delay", "settime"} => QuadOf[a1[v].src] = quad[v]
        /\ pc[v] = "settime" => QuadOf[a4[v].src] = quad[v]
    BY <2>1, <1>1 DEF InQuadrant
  <2>2. \A f \in Queued(v)' :
          IsAnswer(f) /\ f.base = Base[v] /\ f.round = round'[v] => f.q = quad'[v]
    BY <2>1, <2>q, <1>1, <1>t, QueueOrigin
  <2>3. CASE Spared(v)
    BY <2>2, <2>3, <2>q, <1>1 DEF Spared
  <2>4. CASE TakeT1(v)
    <3>1. QuadOf[Head(inbox[v]).src] = quad[v]
      BY <2>4, <2>q, TakenAnswer DEF TakeT1, AnswersFrom, Answers
    <3>2. pc'[v] = "delay_req" /\ a1'[v] = Head(inbox[v])
      BY <2>4, <1>t DEF TakeT1, ClientMove, TypeOK
    <3> QED BY <2>2, <3>1, <3>2, <1>1
  <2>5. CASE ReadT3(v) \/ SendDelayReq(v)
    <3>1. /\ pc[v] \in {"delay_req", "delay_send"} /\ pc'[v] \in {"delay_send", "delay"}
          /\ a1'[v] = a1[v]
      BY <2>5, <1>t DEF ReadT3, SendDelayReq, SendRequest, ClientMove, TypeOK
    <3> QED BY <2>2, <2>q, <3>1, <1>1
  <2>6. CASE TakeT4(v)
    <3>1. QuadOf[Head(inbox[v]).src] = quad[v]
      BY <2>6, <2>q, TakenAnswer DEF TakeT4, AnswersFrom, Answers
    <3>2. pc[v] = "delay" /\ a4'[v] = Head(inbox[v]) /\ a1'[v] = a1[v]
      BY <2>6, <1>t DEF TakeT4, ClientMove, TypeOK
    <3> QED BY <2>2, <2>q, <3>1, <3>2, <1>1
  <2>8. CASE SendSyncReq(v)
    <3>1. pc'[v] = "sync"
      BY <2>8, <1>t DEF SendSyncReq, SendRequest, ClientMove, TypeOK
    <3> QED BY <2>2, <3>1
  <2>7. ~SetTime(v) /\ ~Timeout(v)
    BY <1>t DEF SetTime, Timeout, ClientMove, TypeOK
  <2> QED BY <1>3, <2>3, <2>4, <2>5, <2>6, <2>7, <2>8, <1>t, VehicleStep DEF InRound
<1> QED BY <1>2, <1>3

(* A vehicle that does not leave its quadrant in the round takes T1 and T4 *)
(* from one RSU, whatever frames of the other ones are under way.          *)
THEOREM MasterOfTheRound == Spec => []OneMaster
<1>1. Init => InQuadrant
  BY InitClocks
<1>2. Numbered /\ AnswersFrom /\ InQuadrant /\ [Next]_vars => InQuadrant'
  BY NextInQuadrant
<1>3. Numbered /\ InQuadrant => OneMaster
  <2> SUFFICES ASSUME Numbered, InQuadrant, NEW v \in Vehicles, pc[v] = "settime", ~moved[v]
               PROVE  a1[v].src = a4[v].src
    BY DEF OneMaster
  <2>1. a1[v].src \in RSUs /\ a4[v].src \in RSUs
    BY DEF Numbered, CurrentRound, Answers
  <2>2. QuadOf[a1[v].src] = QuadOf[a4[v].src]
    BY DEF InQuadrant
  <2> QED BY <2>1, <2>2, SyncAssumption
<1>4. Spec => []InQuadrant
  BY NumberedAlways, RealTimeOrder, <1>1, <1>2, PTL DEF Spec
<1> QED BY NumberedAlways, <1>3, <1>4, PTL
=============================================================================
