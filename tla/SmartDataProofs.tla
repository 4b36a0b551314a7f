--------------------------- MODULE SmartDataProofs ---------------------------
(***************************************************************************)
(* Safety of the SmartData of a unit, for any consumers, periods, clocks   *)
(* and interval of repetition: the silence of a consumer is bounded, the   *)
(* threads of the responder are one per period and end with it, and the    *)
(* ports keep the units apart.                                             *)
(***************************************************************************)
EXTENDS SmartData, TLAPS

-----------------------------------------------------------------------------
(* The repetition of interests.                                            *)

(* A consumer that has been silent for some waits has had a clock, all     *)
(* along, that was at most Resend past the last response.                  *)
Patient(c) == quiet[c] = 0 \/ (age[c] \in 0 .. Resend /\ quiet[c] <= age[c] + 1)

ClockType == age \in [Consumers -> Ages] /\ quiet \in [Consumers -> Nat]

Patience == ClockType /\ \A c \in Consumers : Patient(c)

(* The unsigned difference exceeds the interval unless the signed one is   *)
(* neither negative nor above it.                                          *)
LEMMA NotOverdue ==
  ASSUME NEW a \in Ages, ~Overdue(a)
  PROVE  a \in 0 .. Resend
<1>1. MaxAge \in Nat /\ Resend \in Nat /\ W \in Nat /\ Resend < MaxAge /\ 2 * MaxAge < W
  BY SmartDataAssumption
<1>2. a \in Int /\ -MaxAge <= a /\ a <= MaxAge
  BY <1>1 DEF Ages
<1>3. CASE a < 0
  <2>1. a % W = a + W
    BY <1>1, <1>2, <1>3
  <2> QED BY <1>1, <1>2, <2>1 DEF Overdue
<1>4. CASE a >= 0
  <2>1. a % W = a
    BY <1>1, <1>2, <1>4
  <2> QED BY <1>1, <1>2, <1>4, <2>1 DEF Overdue
<1> QED BY <1>2, <1>3, <1>4

LEMMA AgesType == 0 \in Ages /\ MaxAge \in Ages /\ \A a \in Ages : a < MaxAge => a + 1 \in Ages
  BY SmartDataAssumption DEF Ages

(* A change that sets age and quiet of one consumer keeps what the others  *)
(* have.                                                                   *)
LEMMA PatienceKept ==
  ASSUME Patience, NEW c \in Consumers, NEW a \in Ages, NEW q \in Nat,
         age' = [age EXCEPT ![c] = a], quiet' = [quiet EXCEPT ![c] = q],
         q = 0 \/ (a \in 0 .. Resend /\ q <= a + 1)
  PROVE  Patience'
<1>1. ClockType'
  BY DEF Patience, ClockType
<1>2. ASSUME NEW d \in Consumers PROVE Patient(d)'
  <2>1. CASE d = c
    BY <2>1 DEF Patience, ClockType, Patient
  <2>2. CASE d # c
    BY <2>2 DEF Patience, ClockType, Patient
  <2> QED BY <2>1, <2>2
<1> QED BY <1>1, <1>2 DEF Patience

(* 100 ms more.                                                            *)
LEMMA TimeoutPatience ==
  ASSUME Patience, NEW c \in Consumers, CTimeout(c)
  PROVE  Patience'
<1> DEFINE a == IF age[c] < MaxAge THEN age[c] + 1 ELSE MaxAge
<1>1. age[c] \in Ages /\ quiet[c] \in Nat /\ Patient(c)
  BY DEF Patience, ClockType
<1>2. a \in Ages
  BY <1>1, AgesType
<1>3. CASE Overdue(a)
  <2>1. age' = [age EXCEPT ![c] = 0] /\ quiet' = [quiet EXCEPT ![c] = 0]
    BY <1>3 DEF CTimeout
  <2> QED BY <2>1, AgesType, PatienceKept
<1>4. CASE ~Overdue(a)
  <2>1. age' = [age EXCEPT ![c] = a] /\ quiet' = [quiet EXCEPT ![c] = quiet[c] + 1]
    BY <1>4 DEF CTimeout
  <2>2. a \in 0 .. Resend
    BY <1>2, <1>4, NotOverdue
  <2>3. Resend \in Nat /\ MaxAge \in Nat /\ Resend < MaxAge /\ age[c] \in Int
    BY <1>1, SmartDataAssumption DEF Ages
  <2>4. a = age[c] + 1
    BY <2>2, <2>3
  <2>5. quiet[c] + 1 \in Nat /\ quiet[c] + 1 <= a + 1
    BY <1>1, <2>2, <2>3, <2>4 DEF Patient
  <2> HIDE DEF a
  <2> QED BY <1>2, <2>1, <2>2, <2>5, PatienceKept
<1> QED BY <1>3, <1>4

(* What leaves the clocks alone.                                           *)
LEMMA ClocksUnchanged ==
  ASSUME Patience, UNCHANGED <<age, quiet>>
  PROVE  Patience'
  BY DEF Patience, ClockType, Patient

(* The steps of a consumer.                                                *)
LEMMA ConsumerPatience ==
  ASSUME Patience, NEW c \in Consumers,
         ClockStep(c) \/ CStart(c) \/ CStep(c) \/ CTimeout(c) \/ CStop(c)
  PROVE  Patience'
<1>1. CASE CTimeout(c)
  BY <1>1, TimeoutPatience
<1>2. CASE ClockStep(c)
  <2>1. PICK a \in Ages : age' = [age EXCEPT ![c] = a]
    BY <1>2 DEF ClockStep
  <2>2. quiet' = [quiet EXCEPT ![c] = 0]
    BY <1>2 DEF ClockStep
  <2> QED BY <2>1, <2>2, PatienceKept
<1>3. CASE CStart(c) \/ CStop(c) \/ CSend(c)
  BY <1>3, ClocksUnchanged DEF CStart, CStop, CSend
<1>4. CASE CJoin(c)
  <2>1. age' = [age EXCEPT ![c] = 0] /\ quiet' = [quiet EXCEPT ![c] = 0]
    BY <1>4 DEF CJoin
  <2> QED BY <2>1, AgesType, PatienceKept
<1>5. ASSUME NEW f \in box[c], CTake(c, f) PROVE Patience'
  <2>1. CASE f.kind = "response"
    <3>1. PICK a \in Ages : age' = [age EXCEPT ![c] = a]
      BY <1>5, <2>1 DEF CTake
    <3>2. quiet' = [quiet EXCEPT ![c] = 0]
      BY <1>5, <2>1 DEF CTake
    <3> QED BY <3>1, <3>2, PatienceKept
  <2>2. CASE f.kind # "response"
    <3>1. UNCHANGED <<age, quiet>>
      BY <1>5, <2>2 DEF CTake
    <3> QED BY <3>1, ClocksUnchanged
  <2> QED BY <2>1, <2>2
<1> QED BY <1>1, <1>2, <1>3, <1>4, <1>5 DEF CStep

(* The others do not touch the consumers.                                  *)
LEMMA OtherPatience ==
  ASSUME Patience,
         \/ \E f \in air : Lose(f) \/ Deliver(f)
         \/ \E p \in Foreign : ForeignInterest(p)
         \/ RStart \/ RStop \/ RStep \/ DStep
         \/ \E p \in Periods : TStep(p)
         \/ UNCHANGED vars
  PROVE  Patience'
<1>1. UNCHANGED <<age, quiet>>
  <2>1. CASE \/ \E f \in air : Lose(f) \/ Deliver(f)
             \/ \E p \in Foreign : ForeignInterest(p)
    BY <2>1 DEF Lose, Deliver, ForeignInterest, consumer
  <2>2. CASE RStart \/ RStop \/ RStep
    BY <2>2 DEF RStart, RStop, RStep, RTimeout, RJoin, RDestroy, RTake, consumer
  <2>3. CASE DStep \/ \E p \in Periods : TStep(p)
    BY <2>3 DEF DStep, DestroyThread, NotifyAll, JoinThread, TStep, TTask, TTest, TWait,
                TExpire, consumer
  <2>4. CASE UNCHANGED vars
    BY <2>4 DEF vars, consumer
  <2> QED BY <2>1, <2>2, <2>3, <2>4
<1> QED BY <1>1, ClocksUnchanged

(* Whatever the clocks do, and for any interval, an InterestedSmartData    *)
(* that has no response repeats its interest within the interval and one   *)
(* wait: the unsigned difference of a clock that went back counts as late. *)
THEOREM InterestRepeated == Spec => []SilenceBounded
<1>1. Init => Patience
  BY AgesType DEF Init, Patience, ClockType, Patient
<1>2. Patience /\ [Next]_vars => Patience'
  BY ConsumerPatience, OtherPatience DEF Next
<1>3. Patience => SilenceBounded
  <2> SUFFICES ASSUME Patience, NEW c \in Consumers PROVE quiet[c] <= Resend + 1
    BY DEF SilenceBounded
  <2>1. quiet[c] \in Nat /\ age[c] \in Ages /\ Patient(c) /\ Resend \in Nat
    BY SmartDataAssumption DEF Patience, ClockType
  <2> QED BY <2>1 DEF Patient
<1> QED BY <1>1, <1>2, <1>3, PTL DEF Spec

-----------------------------------------------------------------------------
(* The threads of the responder.                                           *)

Threads == {vec[i] : i \in DOMAIN vec}

(* The vector lists active periods, each once; ...                         *)
VecType == vec \in Seq(active) /\ OneThreadPerPeriod

(* ... every thread that runs is in it; ...                                *)
Listed ==
  /\ tpc \in [Periods -> {"none", "check", "test", "armed", "wait", "exit"}]
  /\ \A p \in Periods : tpc[p] \notin {"none", "exit"} => p \in Threads

(* ... and once the destructor is at it, run() has ended and adds none.    *)
Teardown ==
  /\ rlife \in {"destroying", "destroyed"} => rpc = "exit"
  /\ rlife = "destroyed" => vec = << >>
  /\ dpc # "none" => vec # << >>

Joined == VecType /\ Listed /\ Teardown

LEMMA TailOfDistinct ==
  ASSUME NEW S, NEW s \in Seq(S), s # << >>,
         \A i, j \in DOMAIN s : s[i] = s[j] => i = j
  PROVE  /\ Tail(s) \in Seq(S)
         /\ \A i, j \in DOMAIN Tail(s) : Tail(s)[i] = Tail(s)[j] => i = j
         /\ \A i \in DOMAIN s : s[i] # Head(s) => \E j \in DOMAIN Tail(s) : Tail(s)[j] = s[i]
<1>1. /\ Tail(s) \in Seq(S) /\ Len(s) \in Nat /\ Len(s) >= 1 /\ Head(s) = s[1]
      /\ Len(Tail(s)) = Len(s) - 1 /\ DOMAIN s = 1 .. Len(s) /\ DOMAIN Tail(s) = 1 .. Len(s) - 1
  OBVIOUS
<1>2. \A i \in DOMAIN Tail(s) : i + 1 \in DOMAIN s /\ Tail(s)[i] = s[i + 1]
  BY <1>1
<1>3. ASSUME NEW i \in DOMAIN Tail(s), NEW j \in DOMAIN Tail(s), Tail(s)[i] = Tail(s)[j]
      PROVE  i = j
  <2>1. i + 1 = j + 1
    BY <1>2, <1>3
  <2> QED BY <2>1, <1>1
<1>4. ASSUME NEW i \in DOMAIN s, s[i] # Head(s)
      PROVE  \E j \in DOMAIN Tail(s) : Tail(s)[j] = s[i]
  <2>1. i - 1 \in DOMAIN Tail(s) /\ (i - 1) + 1 = i
    BY <1>1, <1>4
  <2> QED BY <2>1, <1>2
<1> QED BY <1>1, <1>3, <1>4

LEMMA AppendDistinct ==
  ASSUME NEW S, NEW s \in Seq(S), NEW e, e \notin S,
         \A i, j \in DOMAIN s : s[i] = s[j] => i = j
  PROVE  /\ Append(s, e) \in Seq(S \cup {e})
         /\ \A i, j \in DOMAIN Append(s, e) : Append(s, e)[i] = Append(s, e)[j] => i = j
         /\ {Append(s, e)[i] : i \in DOMAIN Append(s, e)} = {s[i] : i \in DOMAIN s} \cup {e}
<1> DEFINE t == Append(s, e)
<1>0. s \in Seq(S \cup {e})
  OBVIOUS
<1>1. /\ t \in Seq(S \cup {e}) /\ Len(s) \in Nat /\ DOMAIN s = 1 .. Len(s)
      /\ DOMAIN t = 1 .. Len(s) + 1 /\ t[Len(s) + 1] = e
      /\ \A i \in DOMAIN s : t[i] = s[i] /\ s[i] \in S
  BY <1>0
<1> HIDE DEF t
<1>2. \A i \in DOMAIN t : i \in DOMAIN s \/ i = Len(s) + 1
  BY <1>1
<1>3. \A i, j \in DOMAIN t : t[i] = t[j] => i = j
  BY <1>1, <1>2
<1>4. {t[i] : i \in DOMAIN t} = {s[i] : i \in DOMAIN s} \cup {e}
  <2>1. DOMAIN s \subseteq DOMAIN t /\ Len(s) + 1 \in DOMAIN t
    BY <1>1
  <2> QED BY <1>1, <1>2, <2>1
<1> QED BY <1>1, <1>3, <1>4 DEF t

(* What the network, the consumers and start and stop do.                  *)
LEMMA UnrelatedJoined ==
  ASSUME Joined, UNCHANGED <<active, vec, tpc, dpc>>, Teardown'
  PROVE  Joined'
  BY DEF Joined, VecType, OneThreadPerPeriod, Listed, Threads

(* An interest.                                                            *)
LEMMA TakeJoined ==
  ASSUME Joined, NEW f \in box[Responder], RTake(f)
  PROVE  Joined'
<1>1. Teardown'
  <2>1. rlife' = rlife /\ rpc = "wait" /\ dpc' = dpc
    BY DEF RTake, RMove
  <2>2. rlife \notin {"destroying", "destroyed"}
    BY <2>1 DEF Joined, Teardown
  <2>3. vec # << >> => vec' # << >>
    BY DEF RTake, Joined, VecType
  <2> QED BY <2>1, <2>2, <2>3 DEF Joined, Teardown
<1>2. CASE ~(f.kind = "interest" /\ f.period \notin active)
  <2>1. active' = active /\ vec' = vec /\ tpc' = tpc /\ dpc' = dpc
    BY <1>2 DEF RTake
  <2> QED BY <2>1, <1>1, UnrelatedJoined
<1>3. CASE f.kind = "interest" /\ f.period \notin active
  <2>1. /\ active' = active \cup {f.period} /\ vec' = Append(vec, f.period)
        /\ tpc' = [tpc EXCEPT ![f.period] = "check"]
    BY <1>3 DEF RTake
  <2>2. vec \in Seq(active) /\ \A i, j \in DOMAIN vec : vec[i] = vec[j] => i = j
    BY DEF Joined, VecType, OneThreadPerPeriod
  <2>3. VecType' /\ Threads' = Threads \cup {f.period}
    BY <1>3, <2>1, <2>2, AppendDistinct DEF VecType, OneThreadPerPeriod, Threads
  <2>4. Listed'
    BY <2>1, <2>3 DEF Joined, Listed
  <2> QED BY <1>1, <2>3, <2>4 DEF Joined
<1> QED BY <1>2, <1>3

(* The destructor's steps.                                                 *)
LEMMA DestructorJoined ==
  ASSUME Joined, DStep \/ RDestroy
  PROVE  Joined'
<1>1. CASE DestroyThread
  <2>1. Teardown'
    BY <1>1 DEF DestroyThread, responder, Joined, Teardown
  <2> QED BY <1>1, <2>1 DEF DestroyThread, responder, Joined, VecType, OneThreadPerPeriod, Listed, Threads
<1>2. CASE NotifyAll
  <2>1. Teardown'
    BY <1>2 DEF NotifyAll, responder, Joined, Teardown
  <2>2. VecType' /\ Threads' = Threads
    BY <1>2 DEF NotifyAll, responder, Joined, VecType, OneThreadPerPeriod, Threads
  <2>3. Listed'
    BY <1>2, <2>2 DEF NotifyAll, Joined, Listed
  <2> QED BY <2>1, <2>2, <2>3 DEF Joined
<1>3. CASE JoinThread
  <2>1. /\ vec' = Tail(vec) /\ tpc[Head(vec)] = "exit" /\ vec # << >> /\ dpc' = "none"
        /\ UNCHANGED <<rlife, rpc, active, tpc>>
    BY <1>3 DEF JoinThread, Joined, Teardown
  <2>2. vec \in Seq(active) /\ \A i, j \in DOMAIN vec : vec[i] = vec[j] => i = j
    BY DEF Joined, VecType, OneThreadPerPeriod
  <2>3. VecType' /\ \A p \in Threads : p # Head(vec) => p \in Threads'
    BY <2>1, <2>2, TailOfDistinct DEF VecType, OneThreadPerPeriod, Threads
  <2>4. Listed'
    BY <2>1, <2>3 DEF Joined, Listed
  <2>5. Teardown'
    BY <2>1 DEF Joined, Teardown
  <2> QED BY <2>3, <2>4, <2>5 DEF Joined
<1>4. CASE RDestroy
  <2>1. vec = << >> /\ vec' = << >> /\ UNCHANGED <<rpc, tpc, dpc>> /\ rpc = "exit"
    BY <1>4 DEF RDestroy, threads, Joined, Teardown
  <2>2. VecType' /\ Threads' = Threads
    BY <2>1 DEF VecType, OneThreadPerPeriod, Threads
  <2>3. Listed' /\ Teardown'
    BY <2>1, <2>2 DEF Joined, Listed, Teardown
  <2> QED BY <2>2, <2>3 DEF Joined
<1> QED BY <1>1, <1>2, <1>3, <1>4 DEF DStep

(* PeriodicThread::run.                                                    *)
LEMMA ThreadJoined ==
  ASSUME Joined, NEW p \in Periods, TStep(p)
  PROVE  Joined'
<1>1. UNCHANGED <<rlife, rpc, active, vec, dpc>>
  BY DEF TStep, TTask, TTest, TWait, TExpire, responder
<1>2. VecType' /\ Teardown' /\ Threads' = Threads
  BY <1>1 DEF Joined, VecType, OneThreadPerPeriod, Teardown, Threads
<1>3. /\ tpc[p] \notin {"none", "exit"}
      /\ \E to \in {"check", "test", "armed", "wait", "exit"} : tpc' = [tpc EXCEPT ![p] = to]
  BY DEF TStep, TTask, TTest, TWait, TExpire, TMove
<1>4. Listed'
  BY <1>2, <1>3 DEF Joined, Listed
<1> QED BY <1>2, <1>4 DEF Joined

(* Every other step.                                                       *)
LEMMA OtherJoined ==
  ASSUME Joined,
         \/ \E f \in air : Lose(f) \/ Deliver(f)
         \/ \E p \in Foreign : ForeignInterest(p)
         \/ \E c \in Consumers : ClockStep(c) \/ CStart(c) \/ CStep(c) \/ CTimeout(c) \/ CStop(c)
         \/ RStart \/ RStop \/ RTimeout \/ RJoin
         \/ UNCHANGED vars
  PROVE  Joined'
<1>1. CASE RStart \/ RStop \/ RTimeout \/ RJoin
  <2>1. UNCHANGED <<active, vec, tpc, dpc>>
    BY <1>1 DEF RStart, RStop, RTimeout, RJoin, threads
  <2>2. Teardown'
    BY <1>1, <2>1 DEF RStart, RStop, RTimeout, RJoin, RMove, Joined, Teardown
  <2> QED BY <2>1, <2>2, UnrelatedJoined
<1>2. CASE ~(RStart \/ RStop \/ RTimeout \/ RJoin)
  <2>1. UNCHANGED <<responder, threads>>
    BY <1>2 DEF Lose, Deliver, ForeignInterest, ClockStep, CStart, CStep, CSend, CJoin, CTake,
                CTimeout, CStop, vars
  <2>2. Teardown' /\ UNCHANGED <<active, vec, tpc, dpc>>
    BY <2>1 DEF responder, threads, Joined, Teardown
  <2> QED BY <2>2, UnrelatedJoined
<1> QED BY <1>1, <1>2

LEMMA AlwaysJoined == Spec => []Joined
<1>1. Init => Joined
  BY DEF Init, Joined, VecType, OneThreadPerPeriod, Listed, Threads, Teardown
<1>2. Joined /\ [Next]_vars => Joined'
  BY TakeJoined, DestructorJoined, ThreadJoined, OtherJoined DEF Next, RStep
<1> QED BY <1>1, <1>2, PTL DEF Spec

(* Whoever asks for it and however often, a period has one PeriodicThread  *)
(* of the ResponsiveSmartData.                                             *)
THEOREM ThreadsDistinct == Spec => []OneThreadPerPeriod
<1>1. Joined => OneThreadPerPeriod
  BY DEF Joined, VecType
<1> QED BY <1>1, AlwaysJoined, PTL

(* When the destructor of the ResponsiveSmartData is done, so are all its  *)
(* PeriodicThreads, whatever interests came until stop().                  *)
THEOREM ThreadsEndFirst == Spec => []NoTaskAfterDestroy
<1>1. Joined => NoTaskAfterDestroy
  BY DEF Joined, Listed, Teardown, Threads, NoTaskAfterDestroy
<1> QED BY <1>1, AlwaysJoined, PTL

-----------------------------------------------------------------------------
(* The ports of the units.                                                 *)

(* The exponents that fit a field of three bits.                           *)
Exponents == [1 .. 9 -> -4 .. 3]

(* A field, and a field put below others.                                  *)
Bits3 == 0 .. 7
Field(u, i) == u[i] + EXP
Put(x, d) == x * 8 + d

(* The five lowest fields, and the ones that the cast drops but for a bit. *)
Low2(u) == Put(Field(u, 5), Field(u, 6))
Low3(u) == Put(Low2(u), Field(u, 7))
Low4(u) == Put(Low3(u), Field(u, 8))
Low(u)  == Put(Low4(u), Field(u, 9))
High(u) == Field(u, 1) * 512 + Field(u, 2) * 64 + Field(u, 3) * 8 + Field(u, 4)

LEMMA FieldRange ==
  ASSUME NEW u \in Exponents
  PROVE  \A i \in 1 .. 9 : Field(u, i) \in Bits3 /\ Field(u, i) \in Int
BY SMT DEF Exponents, Field, Bits3, EXP

LEMMA PutInt == \A x \in Int, d \in Bits3 : Put(x, d) \in Int
BY SMT DEF Put, Bits3

LEMMA PutSame ==
  \A x, y \in Int, d, e \in Bits3 : Put(x, d) = Put(y, e) => x = y /\ d = e
BY SMT DEF Put, Bits3

(* The five fields fit into 15 bits.                                       *)
Bits15(x) == x \in Int /\ 0 <= x /\ x <= 32767

LEMMA LowInt ==
  ASSUME NEW u \in Exponents
  PROVE  Low2(u) \in Int /\ Low3(u) \in Int /\ Low4(u) \in Int /\ Low(u) \in Int
<1>1. /\ Field(u, 5) \in Int /\ Field(u, 6) \in Bits3 /\ Field(u, 7) \in Bits3
      /\ Field(u, 8) \in Bits3 /\ Field(u, 9) \in Bits3
  BY FieldRange, SMT
<1>2. Low2(u) \in Int
  BY <1>1, PutInt, SMT DEF Low2
<1>3. Low3(u) \in Int
  BY <1>1, <1>2, PutInt, SMT DEF Low3
<1>4. Low4(u) \in Int
  BY <1>1, <1>3, PutInt, SMT DEF Low4
<1> QED BY <1>1, <1>2, <1>3, <1>4, PutInt, SMT DEF Low

LEMMA LowSum ==
  ASSUME NEW u \in Exponents
  PROVE  Low(u) = Field(u, 5) * 4096 + Field(u, 6) * 512 + Field(u, 7) * 64
                    + Field(u, 8) * 8 + Field(u, 9)
<1>1. /\ Field(u, 5) \in Int /\ Field(u, 6) \in Int /\ Field(u, 7) \in Int
      /\ Field(u, 8) \in Int /\ Field(u, 9) \in Int
  BY FieldRange, SMT
<1> QED BY <1>1, SMT DEF Low, Low4, Low3, Low2, Put

LEMMA LowRange ==
  ASSUME NEW u \in Exponents
  PROVE  Bits15(Low(u))
<1>1. \A x \in Int, d \in Bits3 : /\ 0 <= x => 0 <= Put(x, d)
                                  /\ x <= 7 => Put(x, d) <= 63
                                  /\ x <= 63 => Put(x, d) <= 511
                                  /\ x <= 511 => Put(x, d) <= 4095
                                  /\ x <= 4095 => Put(x, d) <= 32767
  BY SMT DEF Put, Bits3
<1>2. /\ Field(u, 5) \in Int /\ Field(u, 6) \in Bits3 /\ Field(u, 7) \in Bits3
      /\ Field(u, 8) \in Bits3 /\ Field(u, 9) \in Bits3
      /\ 0 <= Field(u, 5) /\ Field(u, 5) <= 7
  BY FieldRange, SMT DEF Bits3
<1>3. 0 <= Low2(u) /\ Low2(u) <= 63
  BY <1>1, <1>2, SMT DEF Low2
<1>4. 0 <= Low3(u) /\ Low3(u) <= 511
  BY <1>1, <1>2, <1>3, LowInt, SMT DEF Low3
<1>5. 0 <= Low4(u) /\ Low4(u) <= 4095
  BY <1>1, <1>2, <1>4, LowInt, SMT DEF Low4
<1>6. 0 <= Low(u) /\ Low(u) <= 32767
  BY <1>1, <1>2, <1>5, LowInt, SMT DEF Low
<1> QED BY <1>6, LowInt, SMT DEF Bits15

(* The cast to 16 bits keeps one bit of what is above the five low fields. *)
LEMMA CastKeeps ==
  ASSUME NEW h \in Int, NEW l \in Int, 0 <= l, l <= 32767
  PROVE  (h * 32768 + l) % 65536 = (h % 2) * 32768 + l
<1>1. \A q, m \in Int : 0 <= m /\ m < 65536 => (q * 65536 + m) % 65536 = m
  BY SMT
<1>2. PICK q \in Int, r \in Int : h = 2 * q + r /\ (r = 0 \/ r = 1)
  <2>1. /\ h = 2 * (h \div 2) + (h % 2)
        /\ h % 2 = 0 \/ h % 2 = 1
        /\ h \div 2 \in Int /\ h % 2 \in Int
    BY SMT
  <2> QED BY <2>1, SMT
<1>3. h % 2 = r
  BY <1>2, SMT
<1>4. h * 32768 + l = q * 65536 + (r * 32768 + l)
  BY <1>2, SMT
<1>5. r * 32768 + l \in Int /\ 0 <= r * 32768 + l /\ r * 32768 + l < 65536
  BY <1>2, SMT
<1> QED BY <1>1, <1>3, <1>4, <1>5, SMT

LEMMA PortBits ==
  ASSUME NEW u \in Exponents
  PROVE  Port(u) = (u[4] % 2) * 32768 + Low(u)
<1> DEFINE d(i) == Field(u, i)
<1>1. /\ d(1) \in Int /\ d(2) \in Int /\ d(3) \in Int /\ d(4) \in Int /\ d(5) \in Int
      /\ d(6) \in Int /\ d(7) \in Int /\ d(8) \in Int /\ d(9) \in Int
  BY FieldRange, SMT
<1>2. u[4] \in Int
  BY SMT DEF Exponents
<1>3. High(u) \in Int /\ UNIT(u) = High(u) * 32768 + Low(u)
  <2> DEFINE h == d(1) * 512 + d(2) * 64 + d(3) * 8 + d(4)
             l == d(5) * 4096 + d(6) * 512 + d(7) * 64 + d(8) * 8 + d(9)
  <2>1. High(u) = h /\ Low(u) = l
    BY LowSum DEF High
  <2>2. UNIT(u) = d(1) * 16777216 + d(2) * 2097152 + d(3) * 262144 + d(4) * 32768
                    + d(5) * 4096 + d(6) * 512 + d(7) * 64 + d(8) * 8 + d(9)
    BY SMT DEF UNIT, Field
  <2> HIDE DEF d
  <2> QED BY <1>1, <2>1, <2>2, SMT
<1>4. High(u) % 2 = u[4] % 2
  <2>1. High(u) = 2 * (d(1) * 256 + d(2) * 32 + d(3) * 4 + 2) + u[4]
    BY <1>1, <1>2, SMT DEF High, Field, EXP
  <2>2. d(1) * 256 + d(2) * 32 + d(3) * 4 + 2 \in Int
    BY <1>1, SMT
  <2>3. \A h, k \in Int : (2 * h + k) % 2 = k % 2
    BY SMT
  <2> QED BY <1>2, <2>1, <2>2, <2>3, SMT
<1> QED BY <1>3, <1>4, LowRange, CastKeeps, SMT DEF Port, Bits15

(* Which units share a port, for all units the fields can code: those      *)
(* whose exponents of s, A, K, mol and cd agree, and of kg in its parity,  *)
(* like Pressure and Force, or Velocity and Frequency.                     *)
THEOREM PortsShared ==
  ASSUME NEW u \in Exponents, NEW v \in Exponents
  PROVE  Port(u) = Port(v) <=> /\ u[4] % 2 = v[4] % 2
                               /\ \A i \in 5 .. 9 : u[i] = v[i]
<1>1. \A i \in 1 .. 9 : u[i] \in Int /\ v[i] \in Int
  BY SMT DEF Exponents
<1>2. /\ u[4] % 2 \in Int /\ 0 <= u[4] % 2 /\ u[4] % 2 <= 1
      /\ v[4] % 2 \in Int /\ 0 <= v[4] % 2 /\ v[4] % 2 <= 1
  <2>1. u[4] \in Int /\ v[4] \in Int
    BY <1>1, SMT
  <2> QED BY <2>1, SMT
<1>3. Port(u) = Port(v) <=> u[4] % 2 = v[4] % 2 /\ Low(u) = Low(v)
  <2>1. /\ Low(u) \in Int /\ 0 <= Low(u) /\ Low(u) <= 32767
        /\ Low(v) \in Int /\ 0 <= Low(v) /\ Low(v) <= 32767
    BY LowRange, SMT DEF Bits15
  <2>2. ASSUME Port(u) = Port(v)
        PROVE  u[4] % 2 = v[4] % 2 /\ Low(u) = Low(v)
    <3> DEFINE a == u[4] % 2
               b == v[4] % 2
    <3>1. a * 32768 + Low(u) = b * 32768 + Low(v)
      BY <2>2, PortBits, SMT
    <3>2. a \in Int /\ 0 <= a /\ a <= 1 /\ b \in Int /\ 0 <= b /\ b <= 1
      BY <1>2, SMT
    <3> HIDE DEF a, b
    <3>3. a = b
      BY <2>1, <3>1, <3>2, SMT
    <3>4. Low(u) = Low(v)
      BY <2>1, <3>1, <3>2, <3>3, SMT
    <3> QED BY <3>3, <3>4 DEF a, b
  <2>3. ASSUME u[4] % 2 = v[4] % 2, Low(u) = Low(v)
        PROVE  Port(u) = Port(v)
    BY <2>3, PortBits, SMT
  <2> QED BY <2>2, <2>3, SMT
<1>4. Low(u) = Low(v) <=> \A i \in 5 .. 9 : u[i] = v[i]
  <2>1. ASSUME Low(u) = Low(v) PROVE \A i \in 5 .. 9 : Field(u, i) = Field(v, i)
    <3>1. /\ Field(u, 5) \in Int /\ Field(u, 6) \in Bits3 /\ Field(u, 7) \in Bits3
          /\ Field(u, 8) \in Bits3 /\ Field(u, 9) \in Bits3
          /\ Field(v, 5) \in Int /\ Field(v, 6) \in Bits3 /\ Field(v, 7) \in Bits3
          /\ Field(v, 8) \in Bits3 /\ Field(v, 9) \in Bits3
      BY FieldRange, SMT
    <3>2. /\ Field(u, 5) = Field(v, 5) /\ Field(u, 6) = Field(v, 6)
          /\ Field(u, 7) = Field(v, 7) /\ Field(u, 8) = Field(v, 8)
          /\ Field(u, 9) = Field(v, 9)
      <4>1. Low4(u) = Low4(v) /\ Field(u, 9) = Field(v, 9)
        BY <2>1, <3>1, LowInt, PutSame, SMT DEF Low
      <4>2. Low3(u) = Low3(v) /\ Field(u, 8) = Field(v, 8)
        BY <3>1, <4>1, LowInt, PutSame, SMT DEF Low4
      <4>3. Low2(u) = Low2(v) /\ Field(u, 7) = Field(v, 7)
        BY <3>1, <4>2, LowInt, PutSame, SMT DEF Low3
      <4>4. Field(u, 5) = Field(v, 5) /\ Field(u, 6) = Field(v, 6)
        BY <3>1, <4>3, PutSame, SMT DEF Low2
      <4> QED BY <4>1, <4>2, <4>3, <4>4
    <3>3. \A i \in 5 .. 9 : i = 5 \/ i = 6 \/ i = 7 \/ i = 8 \/ i = 9
      BY SMT
    <3> QED BY <3>2, <3>3, SMT
  <2>2. \A i \in 5 .. 9 : Field(u, i) = Field(v, i) => u[i] = v[i]
    BY <1>1, SMT DEF Field, EXP
  <2>3. ASSUME \A i \in 5 .. 9 : u[i] = v[i] PROVE Low(u) = Low(v)
    <3>1. u[5] = v[5] /\ u[6] = v[6] /\ u[7] = v[7] /\ u[8] = v[8] /\ u[9] = v[9]
      BY <2>3, SMT
    <3> QED BY <3>1, SMT DEF Low, Low4, Low3, Low2, Field
  <2> QED BY <2>1, <2>2, <2>3, SMT
<1> QED BY <1>3, <1>4, SMT

LEMMA PortsInUse ==
  /\ Port(Acceleration) = 10532
  /\ Port(Current) = 19236
  /\ Port(Pressure) = 43300
  /\ Port(Temperature) = 18788
  /\ Port(Velocity) = 14628
  /\ Port(Voltage) = 38692
BY SMT DEF Port, UNIT, EXP, Acceleration, Current, Pressure, Temperature, Velocity, Voltage

(* A frame on the port of a unit in use goes to this port and no other,    *)
(* whatever its size makes of it.                                          *)
LEMMA NotifiedInUse ==
  ASSUME NEW v \in UnitsInUse, NEW ptp
  PROVE  Notified(Port(v), ptp) = {Port(v)}
<1>1. Port(v) # 0
  BY PortsInUse, SMT DEF UnitsInUse
<1> QED BY <1>1, SMT DEF Notified

LEMMA InUseDistinct ==
  ASSUME NEW u \in UnitsInUse, NEW v \in UnitsInUse
  PROVE  Port(u) = Port(v) <=> u = v
BY PortsInUse, SMT DEF UnitsInUse

LEMMA InUseSeparate == UnitsInUse \subseteq Separate
<1> SUFFICES ASSUME NEW u \in UnitsInUse PROVE u \in Separate
  BY SMT
<1>1. ~Strays(u)
  <2>1. Port(u) \notin Reserved
    BY PortsInUse, SMT DEF UnitsInUse, Reserved, GATEWAY, TIME_CLIENT, RSU
  <2> QED BY <2>1, NotifiedInUse, SMT DEF Strays
<1>2. ASSUME NEW v \in UnitsInUse PROVE Hears(u, v) <=> u = v
  <2>1. Hears(u, v) <=> Port(u) = Port(v)
    <3>1. NotPTP \in NotPTP .. 3
      BY SMT DEF NotPTP
    <3> QED BY <3>1, NotifiedInUse, SMT DEF Hears
  <2> QED BY <2>1, InUseDistinct, SMT
<1> QED BY <1>1, <1>2, SMT DEF Separate

(* The objects of the units in use never hear each other's frames, nor do  *)
(* the components with a fixed port, for any number of consumers: with     *)
(* PortsShared, whether this goes on for a unit that is added can be read  *)
(* off its exponents.                                                      *)
THEOREM UnitsNeverMix == Spec => []UnitsApart
<1>1. UnitsApart
  BY InUseSeparate, SMT DEF UnitsApart
<1> QED BY <1>1, PTL
==============================================================================
