------------------------------ MODULE TimeSync ------------------------------
(***************************************************************************)
(* The clock synchronisation of the vehicles (components/time_client.hpp)  *)
(* by the road-side units (RSU.hpp), over a broadcast network that loses   *)
(* and delays frames: four messages per round, told apart by a sequence    *)
(* number, and filtered by the quadrant (NIC::_handle and                  *)
(* Protocol::verifica_quadrante) a vehicle may leave at any time.          *)
(*                                                                         *)
(* Clocks are integers that advance with real time; a vehicle's clock is   *)
(* ahead of real time by skew, an RSU's by Skew.  The 32-bit sequence      *)
(* number is a pair: the byte of the MAC and a counter modulo SeqRange.    *)
(* A frame also carries the round it belongs to, which no code reads.      *)
(***************************************************************************)
EXTENDS Integers, Sequences, FiniteSets

CONSTANTS
  Vehicles, RSUs,   \* the stations
  Base,             \* per vehicle, the last byte of its MAC (_seq_base)
  Quadrants,
  QuadOf,           \* per RSU, the quadrant it serves
  Skew,             \* per RSU, its clock minus real time
  StartSkew,        \* the clocks a vehicle may start with
  None,             \* no frame, no synchronisation yet
  SeqRange,         \* the counter's range (2^24)
  NSEC,             \* nanoseconds in a second (10^9)
  StartTime,        \* real time at the start; clocks are never negative
  MaxTime,          \* bound on real time
  MaxRounds,        \* bound on the rounds of a vehicle
  MaxDrives         \* bound on the changes of quadrant

ASSUME SyncAssumption ==
  /\ Base \in [Vehicles -> Nat] /\ \A v, w \in Vehicles : Base[v] = Base[w] => v = w
  /\ QuadOf \in [RSUs -> Quadrants] /\ \A r, s \in RSUs : QuadOf[r] = QuadOf[s] => r = s
  /\ Vehicles \cap RSUs = {}
  /\ Skew \in [RSUs -> Int] /\ StartSkew \subseteq Int
  /\ SeqRange \in Nat \ {0} /\ NSEC \in Nat \ {0}
  /\ StartTime \in Nat /\ MaxTime \in Nat /\ MaxRounds \in Nat /\ MaxDrives \in Nat

VARIABLES
  now,              \* real time
  skew, quad,       \* per vehicle: its clock minus real time, and /proc/position
  air,              \* the frames under way, one copy per station they go to
  inbox,            \* per station: the queue of its Endpoint
  foreign,          \* per vehicle: the answer to another one is in its queue too
  pc, seq, round,   \* per vehicle: syncTime(), the counter in _seq, rounds begun
  a1, a4,           \* per vehicle: the answers that brought T1 and T4
  t2, t3, target,   \* per vehicle: T2, T3, and new_ns
  moved, synced,    \* per vehicle: left its quadrant in this round; the last
                    \* synchronisation with one RSU and how long it took
  drives            \* changes of quadrant so far

clocks  == <<now, skew, quad, moved, drives>>
network == <<air, inbox, foreign>>
client  == <<pc, seq, round, a1, a4, t2, t3, target, synced>>
vars == <<clocks, network, client>>

Stations == Vehicles \cup RSUs
PCs == {"idle", "sync_req", "sync", "delay_req", "delay_send", "delay", "settime"}

(* message_type of PTPFrame.                                               *)
SyncReq == 0
SyncResp == 1
DelayReq == 2
DelayResp == 3

Clock(v) == now + skew[v]

(* The value of Position::quadrant(), or of Protocol::_quadrant in an RSU. *)
Quadrant(x) == IF x \in RSUs THEN QuadOf[x] ELSE quad[x]

(* Protocol::send by station x, at its raw-socket NIC: a copy of the frame *)
(* for every station of the other kind; Protocol::update sends requests to *)
(* the RSU port and answers to the TIME_CLIENT port, which the others do   *)
(* not have.  The shared-memory NIC of a vehicle comes before it in the    *)
(* list, takes the frame to nobody who wants it, and takes its time.       *)
Frames(x, type, base, n, ts, k) ==
  {[to |-> y, src |-> x, q |-> Quadrant(x), type |-> type, base |-> base, seq |-> n,
    ts |-> ts, round |-> k] : y \in IF x \in RSUs THEN Vehicles ELSE RSUs}

(* Some of the copies get through.                                         *)
Transmit(copies) == \E S \in SUBSET copies : air' = air \cup S

(* All frames that exist.                                                  *)
Queued(x) == {inbox[x][i] : i \in DOMAIN inbox[x]}
Alive == air \cup UNION {Queued(x) : x \in Stations}

Init ==
  /\ now = StartTime /\ skew \in [Vehicles -> StartSkew]
  /\ quad \in [Vehicles -> Quadrants] /\ moved = [v \in Vehicles |-> FALSE] /\ drives = 0
  /\ air = {} /\ inbox = [x \in Stations |-> << >>]
  /\ foreign = [v \in Vehicles |-> FALSE]
  /\ pc = [v \in Vehicles |-> "idle"]
  /\ seq = [v \in Vehicles |-> 0] /\ round = [v \in Vehicles |-> 0]
  /\ a1 = [v \in Vehicles |-> None] /\ a4 = [v \in Vehicles |-> None]
  /\ t2 = [v \in Vehicles |-> 0] /\ t3 = [v \in Vehicles |-> 0]
  /\ target = [v \in Vehicles |-> 0] /\ synced = [v \in Vehicles |-> None]

(***************************************************************************)
(* The environment.                                                        *)
(***************************************************************************)
Tick ==
  /\ now < MaxTime /\ now' = now + 1
  /\ UNCHANGED <<skew, quad, moved, drives, network, client>>

(* The timer of kernel/position.c picks a quadrant.                        *)
Drive(v) ==
  /\ drives < MaxDrives /\ drives' = drives + 1
  /\ \E q \in Quadrants \ {quad[v]} : quad' = [quad EXCEPT ![v] = q]
  /\ moved' = [moved EXCEPT ![v] = pc[v] # "idle"]
  /\ UNCHANGED <<now, skew, network, client>>

(* Mutant: the quadrant test is missing.                                   *)
ArriveUnfiltered(f) ==
  /\ air' = air \ {f}
  /\ inbox' = [inbox EXCEPT ![f.to] = Append(@, f)]
  /\ UNCHANGED <<clocks, foreign, client>>

(* A frame arrives: _handle keeps it if it comes from the quadrant the     *)
(* receiver is in now.                                                     *)
Arrive(f) ==
  /\ air' = air \ {f}
  /\ inbox' = IF f.q = Quadrant(f.to) THEN [inbox EXCEPT ![f.to] = Append(@, f)] ELSE inbox
  /\ UNCHANGED <<clocks, foreign, client>>

(* An answer to a vehicle outside the model comes in from the RSU of the   *)
(* quadrant.  Discard is all it meets, so it stands last in the queue.     *)
ForeignAnswer(v) ==
  /\ ~foreign[v] /\ foreign' = [foreign EXCEPT ![v] = TRUE]
  /\ UNCHANGED <<clocks, air, inbox, client>>

(***************************************************************************)
(* RSU::run: one turn.  A Sync_Resp carries the time it is built, a        *)
(* Delay_Resp the time the request was received.                           *)
(***************************************************************************)
Respond(r) ==
  /\ inbox[r] # << >>
  /\ LET f == Head(inbox[r])
     IN  IF f.type \in {SyncReq, DelayReq}
         THEN Transmit(Frames(r, f.type + 1, f.base, f.seq, now + Skew[r], f.round))
         ELSE UNCHANGED air
  /\ inbox' = [inbox EXCEPT ![r] = Tail(@)]
  /\ UNCHANGED <<clocks, foreign, client>>

(***************************************************************************)
(* TimeClient::syncTime in vehicle v.                                      *)
(***************************************************************************)
ClientMove(v, from, to) == pc[v] = from /\ pc' = [pc EXCEPT ![v] = to]

(* Mutants: the counter runs into the byte of the MAC; it stays the same.  *)
BeginUnmasked(v) ==
  /\ round[v] < MaxRounds /\ ClientMove(v, "idle", "sync_req")
  /\ seq' = [seq EXCEPT ![v] = @ + 1]
  /\ round' = [round EXCEPT ![v] = @ + 1]
  /\ UNCHANGED <<clocks, network, a1, a4, t2, t3, target, synced>>
BeginSameNumber(v) ==
  /\ round[v] < MaxRounds /\ ClientMove(v, "idle", "sync_req")
  /\ round' = [round EXCEPT ![v] = @ + 1]
  /\ UNCHANGED <<clocks, network, seq, a1, a4, t2, t3, target, synced>>

(* The next sequence number.  A frame does not outlive the 2^24 rounds     *)
(* (months) after which its number comes back.                             *)
Begin(v) ==
  /\ round[v] < MaxRounds /\ ClientMove(v, "idle", "sync_req")
  /\ \A f \in Alive : f.base = Base[v] => round[v] + 1 - f.round < SeqRange
  /\ seq' = [seq EXCEPT ![v] = (@ + 1) % SeqRange]
  /\ round' = [round EXCEPT ![v] = @ + 1]
  /\ UNCHANGED <<clocks, network, a1, a4, t2, t3, target, synced>>

(* send() of a request: when the shared-memory NIC has let go of it, the   *)
(* raw-socket NIC transmits it.                                            *)
SendRequest(v, from, to, type) ==
  /\ ClientMove(v, from, to)
  /\ Transmit(Frames(v, type, Base[v], seq[v], 0, round[v]))
  /\ UNCHANGED <<clocks, inbox, foreign, seq, round, a1, a4, t2, t3, target, synced>>

SendSyncReq(v)  == SendRequest(v, "sync_req", "sync", SyncReq)
SendDelayReq(v) == SendRequest(v, "delay_send", "delay", DelayReq)

(* Mutant: any answer of the right type.                                   *)
ExpectedAnyNumber(v, f, type) == f.base = Base[v] /\ f.type = type

(* The answer syncTime waits for: by its number and its type.              *)
Expected(v, f, type) == f.base = Base[v] /\ f.seq = seq[v] /\ f.type = type

(* receive() gives the next message; another than the expected one is      *)
(* dropped, and the wait begins anew.                                      *)
Discard(v) ==
  /\ pc[v] \in {"sync", "delay"}
  /\ \/ /\ inbox[v] # << >>
        /\ ~Expected(v, Head(inbox[v]), IF pc[v] = "sync" THEN SyncResp ELSE DelayResp)
        /\ inbox' = [inbox EXCEPT ![v] = Tail(@)] /\ UNCHANGED foreign
     \/ /\ inbox[v] = << >> /\ foreign[v]
        /\ foreign' = [foreign EXCEPT ![v] = FALSE] /\ UNCHANGED inbox
  /\ UNCHANGED <<clocks, air, client>>

TakeT1(v) ==
  /\ ClientMove(v, "sync", "delay_req")
  /\ inbox[v] # << >> /\ Expected(v, Head(inbox[v]), SyncResp)
  /\ a1' = [a1 EXCEPT ![v] = Head(inbox[v])]
  /\ t2' = [t2 EXCEPT ![v] = Clock(v)]
  /\ inbox' = [inbox EXCEPT ![v] = Tail(@)]
  /\ UNCHANGED <<clocks, air, foreign, seq, round, a4, t3, target, synced>>

(* T3, before the Delay_Req is built and sent.                             *)
ReadT3(v) ==
  /\ ClientMove(v, "delay_req", "delay_send")
  /\ t3' = [t3 EXCEPT ![v] = Clock(v)]
  /\ UNCHANGED <<clocks, network, seq, round, a1, a4, t2, target, synced>>

(* Division and remainder of C++, which round towards zero.                *)
Quot(x, y) == IF x >= 0 THEN x \div y ELSE -((-x) \div y)
Rem(x, y) == x - y * Quot(x, y)

Offset(T1, T2, T3, T4) == Quot((T2 - T1) + (T3 - T4), 2)

(* Mutant: what the comments of lines 211 and 219 say, half of the error.  *)
CorrectionFraction(offset) == Quot(-offset, 2)

(* "PLL simples, aplica apenas fração do erro" (209-211), "não é aplicado  *)
(* integralmente pois é instável" (219); line 222 applies all of it.       *)
Correction(offset) == -offset

(* T4, the offset, and new_ns from a reading of the clock.                 *)
TakeT4(v) ==
  /\ ClientMove(v, "delay", "settime")
  /\ inbox[v] # << >> /\ Expected(v, Head(inbox[v]), DelayResp)
  /\ a4' = [a4 EXCEPT ![v] = Head(inbox[v])]
  /\ target' = [target EXCEPT ![v] =
                  Clock(v) + Correction(Offset(a1[v].ts, t2[v], t3[v], Head(inbox[v]).ts))]
  /\ inbox' = [inbox EXCEPT ![v] = Tail(@)]
  /\ UNCHANGED <<clocks, air, foreign, seq, round, a1, t2, t3, synced>>

(* The timespec of new_ns, normalised.                                     *)
Timespec(ns) ==
  IF Rem(ns, NSEC) < 0 THEN [sec |-> Quot(ns, NSEC) - 1, nsec |-> Rem(ns, NSEC) + NSEC]
                       ELSE [sec |-> Quot(ns, NSEC), nsec |-> Rem(ns, NSEC)]

(* The variables of syncTime end with it.                                  *)
Return(v) ==
  /\ a1' = [a1 EXCEPT ![v] = None] /\ a4' = [a4 EXCEPT ![v] = None]
  /\ t2' = [t2 EXCEPT ![v] = 0] /\ t3' = [t3 EXCEPT ![v] = 0]
  /\ target' = [target EXCEPT ![v] = 0] /\ moved' = [moved EXCEPT ![v] = FALSE]
  /\ UNCHANGED <<seq, round>>

(* clock_settime, which refuses a time before the epoch.                   *)
SetTime(v) ==
  /\ ClientMove(v, "settime", "idle")
  /\ LET t == Timespec(target[v])
     IN  IF t.sec >= 0 /\ t.nsec \in 0 .. NSEC - 1
         THEN /\ skew' = [skew EXCEPT ![v] = t.sec * NSEC + t.nsec - now]
              /\ synced' = [synced EXCEPT ![v] =
                   IF a1[v].src = a4[v].src
                   THEN [rsu |-> a1[v].src, span |-> now + Skew[a1[v].src] - a1[v].ts]
                   ELSE None]
         ELSE UNCHANGED <<skew, synced>>
  /\ Return(v)
  /\ UNCHANGED <<now, quad, drives, network>>

(* Mutant: only the first wait has a timeout.                              *)
TimeoutSync(v) ==
  /\ ClientMove(v, "sync", "idle") /\ inbox[v] = << >> /\ ~foreign[v]
  /\ Return(v)
  /\ UNCHANGED <<now, skew, quad, drives, network, synced>>

(* 100 ms pass with nothing received.                                      *)
Timeout(v) ==
  /\ \E from \in {"sync", "delay"} : ClientMove(v, from, "idle")
  /\ inbox[v] = << >> /\ ~foreign[v]
  /\ Return(v)
  /\ UNCHANGED <<now, skew, quad, drives, network, synced>>

ClientStep(v) == Discard(v) \/ TakeT1(v) \/ ReadT3(v) \/ TakeT4(v) \/ SetTime(v) \/ Timeout(v)
SendStep(v) == SendSyncReq(v) \/ SendDelayReq(v)

Next ==
  \/ Tick
  \/ \E v \in Vehicles : Drive(v) \/ ForeignAnswer(v) \/ Begin(v) \/ ClientStep(v) \/ SendStep(v)
  \/ \E f \in air : Arrive(f)
  \/ \E r \in RSUs : Respond(r)

Spec == Init /\ [][Next]_vars

(* The client's thread runs when it can; the network promises nothing, and *)
(* a send need not return.  However often the wait is begun anew by the    *)
(* answers to other vehicles, 100 ms without one come in the end.          *)
FairSpec == Spec /\ \A v \in Vehicles : WF_vars(ClientStep(v)) /\ SF_vars(Timeout(v))

-----------------------------------------------------------------------------
Frame == [to : Stations, src : Stations, q : Quadrants, type : 0 .. 3, base : Nat,
          seq : 0 .. SeqRange - 1, ts : Int, round : Nat]

(* Types; the counter stays clear of the byte of the MAC, "garante que não *)
(* vai invadir o endereço MAC" (time_client.hpp:65).                       *)
TypeOK ==
  /\ now \in Nat /\ drives \in 0 .. MaxDrives
  /\ skew \in [Vehicles -> Int] /\ quad \in [Vehicles -> Quadrants]
  /\ moved \in [Vehicles -> BOOLEAN]
  /\ air \subseteq Frame /\ inbox \in [Stations -> Seq(Frame)]
  /\ foreign \in [Vehicles -> BOOLEAN]
  /\ pc \in [Vehicles -> PCs]
  /\ seq \in [Vehicles -> 0 .. SeqRange - 1] /\ round \in [Vehicles -> Nat]
  /\ a1 \in [Vehicles -> Frame \cup {None}] /\ a4 \in [Vehicles -> Frame \cup {None}]
  /\ t2 \in [Vehicles -> Int] /\ t3 \in [Vehicles -> Int] /\ target \in [Vehicles -> Int]

(* A frame's number is as far behind the vehicle's counter, around the     *)
(* wrap, as its round is behind the current one, and it is less than a     *)
(* full turn behind: equal numbers then mean equal rounds.                 *)
InStep(v, f) ==
  LET age == round[v] - f.round
  IN  age \in 0 .. SeqRange - 1 /\ seq[v] \in {f.seq + age, f.seq + age - SeqRange}
NumbersInStep ==
  \A f \in Alive :
    /\ \A v \in Vehicles : f.base = Base[v] => InStep(v, f)
    /\ f.type \in {SyncResp, DelayResp} => f.src \in RSUs

(* The answers that syncTime uses are answers to its own requests of this  *)
(* round: neither a late one of an earlier round, though counters wrap,    *)
(* nor one for another vehicle, and T1 never stands in for T4.             *)
Answers(v, f, type) ==
  f \in Frame /\ f.base = Base[v] /\ f.round = round[v] /\ f.type = type /\ f.src \in RSUs
CurrentRound ==
  \A v \in Vehicles :
    /\ pc[v] \in {"delay_req", "delay_send", "delay", "settime"} => Answers(v, a1[v], SyncResp)
    /\ pc[v] = "settime" => Answers(v, a4[v], DelayResp)

(* T1 and T4 are times of one clock, "T1 vem do RSU", "T4 vem do RSU"      *)
(* (time_client.hpp:99, 161), unless the vehicle changed quadrant in the   *)
(* round.                                                                  *)
OneMaster ==
  \A v \in Vehicles : pc[v] = "settime" /\ ~moved[v] => a1[v].src = a4[v].src

(* What a synchronisation with one RSU achieves: the two clocks differ by  *)
(* no more than the time from T1 to clock_settime, whatever the delays of  *)
(* the two directions, of the sends and of the threads were.  It rests on  *)
(* line 222, which applies the whole offset: with the fraction that the    *)
(* comments above it speak of, one round does not achieve it.              *)
ClockError ==
  \A v \in Vehicles : synced[v] # None =>
    LET d == skew[v] - Skew[synced[v].rsu]
    IN  d <= synced[v].span /\ -d <= synced[v].span

(* syncTime returns: every wait ends with an answer or a timeout, although *)
(* each frame that is not the answer begins it anew.  What may keep it is  *)
(* a send that stays in the shared-memory NIC (the run shm_stuck).         *)
Sending(v) == pc[v] \in {"sync_req", "delay_send"}
SyncReturns == \A v \in Vehicles : pc[v] # "idle" ~> (pc[v] = "idle" \/ []Sending(v))
=============================================================================
