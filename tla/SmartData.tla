------------------------------ MODULE SmartData ------------------------------
(***************************************************************************)
(* One unit of data: the InterestedSmartData that want it, the             *)
(* ResponsiveSmartData that senses it, and the PeriodicThreads that send   *)
(* it (smart_data/*.hpp, utils/periodic_thread.hpp), over a network that   *)
(* loses, delays and reorders.                                             *)
(*                                                                         *)
(* A frame is a record, and queues are sets: handling the same frame twice *)
(* differs from handling it once only in the statistics.  Time is counted  *)
(* in waits of updated_for (100 ms).  Of the clock only its distance to    *)
(* _last_response_time matters, age, which the time synchronisation of the *)
(* vehicle and the clock of whoever sent the response can make negative.   *)
(*                                                                         *)
(* communicator.send is one step, and is taken to return.  It goes through *)
(* the shared-memory queue first, where it may wait for ever for a reader  *)
(* (ShmEngine); Served and DestroyReturns are about objects whose sends do *)
(* return.                                                                 *)
(***************************************************************************)
EXTENDS Integers, Sequences, Units

CONSTANTS
  Consumers,     \* the InterestedSmartData
  Period,        \* per consumer, the period it asks for
  Foreign,       \* the periods that consumers outside the model ask for
  Responder,     \* the ResponsiveSmartData
  None,
  Resend,        \* the 2 s after which an interest is repeated, in waits
  MaxAge,        \* bound on the distance of two clocks
  W,             \* the range of uint64_t
  MaxSteps       \* bound on the times a clock is set

ASSUME SmartDataAssumption ==
  /\ Responder \notin Consumers
  /\ Resend \in Nat /\ MaxAge \in Nat /\ Resend < MaxAge /\ W \in Nat /\ 2 * MaxAge < W
  /\ MaxSteps \in Nat

Periods == {Period[c] : c \in Consumers} \cup Foreign
Ages == -MaxAge .. MaxAge

VARIABLES
  air, box,         \* the frames under way; per object, the queue of its observer
  clife, cpc,       \* per consumer: start() and stop(); its thread
  age,              \* per consumer: its clock minus _last_response_time
  quiet, got,       \* per consumer: waits since a response, an interest or a
                    \* clock step; it has had a response
  steps,            \* times a clock was set
  rlife, rpc,       \* the responder: constructor to destructor; its thread
  active, vec,      \* _active_periods; _periodic_threads, by their periods
  tpc, tstop,       \* per period: its thread, _stop
  dpc               \* ~PeriodicThread of the first thread in vec

network   == <<air, box>>
consumer  == <<clife, cpc, age, quiet, got, steps>>
responder == <<rlife, rpc, active, vec>>
threads   == <<tpc, tstop, dpc>>
vars == <<network, consumer, responder, threads>>

Interest(p, to) == [kind |-> "interest", period |-> p, to |-> to]
Response(to)    == [kind |-> "response", period |-> None, to |-> to]

Objects == Consumers \cup {Responder}

(* communicator.send: to every object on the port of the unit.             *)
Interests(c) == {Interest(Period[c], x) : x \in Objects \ {c}}
Responses    == {Response(c) : c \in Consumers}

Init ==
  /\ air = {} /\ box = [x \in Objects |-> {}]
  /\ clife = [c \in Consumers |-> "new"] /\ cpc = [c \in Consumers |-> "none"]
  /\ age = [c \in Consumers |-> 0] /\ quiet = [c \in Consumers |-> 0]
  /\ got = [c \in Consumers |-> FALSE] /\ steps = 0
  /\ rlife = "new" /\ rpc = "none" /\ active = {}
  /\ vec = << >> /\ tpc = [p \in Periods |-> "none"]
  /\ tstop = [p \in Periods |-> FALSE] /\ dpc = "none"

(***************************************************************************)
(* The network and the clocks.                                             *)
(***************************************************************************)
Lose(f) ==
  /\ air' = air \ {f}
  /\ UNCHANGED <<box, consumer, responder, threads>>

Subscribed(x) ==
  IF x = Responder THEN rlife \in {"running", "stopping"} ELSE clife[x] \in {"running", "stopping"}

(* Communicator::update drops what no observer is subscribed to.           *)
Deliver(f) ==
  /\ air' = air \ {f}
  /\ box' = IF Subscribed(f.to) THEN [box EXCEPT ![f.to] = @ \cup {f}] ELSE box
  /\ UNCHANGED <<consumer, responder, threads>>

(* A consumer outside the model sends its interest.                        *)
ForeignInterest(p) ==
  /\ air' = air \cup {Interest(p, x) : x \in Objects}
  /\ UNCHANGED <<box, consumer, responder, threads>>

(* The TimeClient of its vehicle sets the consumer's clock.                *)
ClockStep(c) ==
  /\ clife[c] # "stopped" /\ steps < MaxSteps /\ steps' = steps + 1
  /\ \E a \in Ages : age' = [age EXCEPT ![c] = a]
  /\ quiet' = [quiet EXCEPT ![c] = 0]
  /\ UNCHANGED <<network, clife, cpc, got, responder, threads>>

(***************************************************************************)
(* InterestedSmartData.                                                    *)
(***************************************************************************)
CMove(c, from, to) == cpc[c] = from /\ cpc' = [cpc EXCEPT ![c] = to]

(* _running is read with the end of the turn before.                       *)
Loop(life) == IF life = "running" THEN "wait" ELSE "exit"

CStart(c) ==
  /\ clife[c] = "new" /\ clife' = [clife EXCEPT ![c] = "running"]
  /\ CMove(c, "none", "send")
  /\ UNCHANGED <<network, age, quiet, got, steps, responder, threads>>

(* The first interest of run(), whose send returns.                        *)
CSend(c) ==
  /\ CMove(c, "send", Loop(clife[c]))
  /\ air' = air \cup Interests(c)
  /\ UNCHANGED <<box, clife, age, quiet, got, steps, responder, threads>>

(* A response sets _last_response_time to the sender's clock at sending;   *)
(* an interest of another consumer is deleted.                             *)
CTake(c, f) ==
  /\ f \in box[c] /\ CMove(c, "wait", Loop(clife[c]))
  /\ box' = [box EXCEPT ![c] = @ \ {f}]
  /\ IF f.kind = "response"
     THEN /\ \E a \in Ages : age' = [age EXCEPT ![c] = a]
          /\ got' = [got EXCEPT ![c] = TRUE] /\ quiet' = [quiet EXCEPT ![c] = 0]
     ELSE UNCHANGED <<age, got, quiet>>
  /\ UNCHANGED <<air, clife, steps, responder, threads>>

(* Mutant: the difference is signed.                                       *)
OverdueSigned(a) == a > Resend

(* now - _last_response_time > 2 s, in uint64_t.                           *)
Overdue(a) == a % W > Resend

(* Mutant: the interest is not repeated.                                   *)
CTimeoutForgets(c) ==
  /\ box[c] = {} /\ CMove(c, "wait", Loop(clife[c]))
  /\ UNCHANGED <<network, clife, age, quiet, got, steps, responder, threads>>

(* 100 ms without a message.                                               *)
CTimeout(c) ==
  /\ box[c] = {} /\ CMove(c, "wait", Loop(clife[c]))
  /\ LET a == IF age[c] < MaxAge THEN age[c] + 1 ELSE MaxAge
     IN  IF Overdue(a)
         THEN /\ air' = air \cup Interests(c)
              /\ age' = [age EXCEPT ![c] = 0] /\ quiet' = [quiet EXCEPT ![c] = 0]
         ELSE /\ age' = [age EXCEPT ![c] = a] /\ quiet' = [quiet EXCEPT ![c] = @ + 1]
              /\ UNCHANGED air
  /\ UNCHANGED <<box, clife, got, steps, responder, threads>>

CStop(c) ==
  /\ clife[c] = "running" /\ clife' = [clife EXCEPT ![c] = "stopping"]
  /\ UNCHANGED <<network, cpc, age, quiet, got, steps, responder, threads>>

(* join, unsubscribe; the object is not used again.                        *)
CJoin(c) ==
  /\ clife[c] = "stopping" /\ cpc[c] = "exit"
  /\ clife' = [clife EXCEPT ![c] = "stopped"] /\ box' = [box EXCEPT ![c] = {}]
  /\ age' = [age EXCEPT ![c] = 0] /\ quiet' = [quiet EXCEPT ![c] = 0]
  /\ UNCHANGED <<air, cpc, got, steps, responder, threads>>

(***************************************************************************)
(* ResponsiveSmartData.                                                    *)
(***************************************************************************)
RMove(from, to) == rpc = from /\ rpc' = to

RStart ==
  /\ rlife = "new" /\ rlife' = "running" /\ RMove("none", "wait")
  /\ UNCHANGED <<network, consumer, active, vec, threads>>

(* Mutant: every interest gets a thread.                                   *)
RTakeAlways(f) ==
  /\ f \in box[Responder] /\ RMove("wait", Loop(rlife))
  /\ box' = [box EXCEPT ![Responder] = @ \ {f}]
  /\ IF f.kind = "interest"
     THEN /\ active' = active \cup {f.period} /\ vec' = Append(vec, f.period)
          /\ tpc' = [tpc EXCEPT ![f.period] = "check"]
     ELSE UNCHANGED <<active, vec, tpc>>
  /\ UNCHANGED <<air, consumer, rlife, tstop, dpc>>

(* An interest in a period that has no thread gets one; any other message, *)
(* a response among them, is only deleted.                                 *)
RTake(f) ==
  /\ f \in box[Responder] /\ RMove("wait", Loop(rlife))
  /\ box' = [box EXCEPT ![Responder] = @ \ {f}]
  /\ IF f.kind = "interest" /\ f.period \notin active
     THEN /\ active' = active \cup {f.period} /\ vec' = Append(vec, f.period)
          /\ tpc' = [tpc EXCEPT ![f.period] = "check"]
     ELSE UNCHANGED <<active, vec, tpc>>
  /\ UNCHANGED <<air, consumer, rlife, tstop, dpc>>

RTimeout ==
  /\ box[Responder] = {} /\ RMove("wait", Loop(rlife))
  /\ UNCHANGED <<network, consumer, rlife, active, vec, threads>>

RStop ==
  /\ rlife = "running" /\ rlife' = "stopping"
  /\ UNCHANGED <<network, consumer, rpc, active, vec, threads>>

(* Mutant: the thread is not joined.                                       *)
RJoinNothing ==
  /\ rlife = "stopping" /\ rlife' = "destroying"
  /\ UNCHANGED <<network, consumer, rpc, active, vec, threads>>

(* join, unsubscribe; the destructor follows.                              *)
RJoin ==
  /\ rlife = "stopping" /\ rpc = "exit" /\ rlife' = "destroying"
  /\ box' = [box EXCEPT ![Responder] = {}]
  /\ UNCHANGED <<air, consumer, rpc, active, vec, threads>>

(* ~PeriodicThread of each thread: _stop, notify_all, join.                *)
DestroyThread ==
  /\ rlife = "destroying" /\ vec # << >> /\ dpc = "none" /\ dpc' = "notify"
  /\ tstop' = [tstop EXCEPT ![Head(vec)] = TRUE]
  /\ UNCHANGED <<network, consumer, responder, tpc>>

NotifyAll ==
  /\ dpc = "notify" /\ dpc' = "join"
  /\ tpc' = IF tpc[Head(vec)] = "wait" THEN [tpc EXCEPT ![Head(vec)] = "check"] ELSE tpc
  /\ UNCHANGED <<network, consumer, responder, tstop>>

JoinThread ==
  /\ dpc = "join" /\ tpc[Head(vec)] = "exit" /\ dpc' = "none"
  /\ vec' = Tail(vec)
  /\ UNCHANGED <<network, consumer, rlife, rpc, active, tpc, tstop>>

(* The other members go after _periodic_threads, communicator last.        *)
RDestroy ==
  /\ rlife = "destroying" /\ vec = << >> /\ rlife' = "destroyed"
  /\ active' = {}
  /\ UNCHANGED <<network, consumer, rpc, vec, threads>>

(***************************************************************************)
(* PeriodicThread::run, for period p.                                      *)
(***************************************************************************)
TMove(p, from, to) == tpc[p] = from /\ tpc' = [tpc EXCEPT ![p] = to]

(* _stop is tested, and the task is send_response, whose send returns.     *)
(* The responder may read its own frame in shared memory: it comes back at *)
(* once, as it would from a later turn.                                    *)
TTask(p) ==
  /\ TMove(p, "check", IF tstop[p] THEN "exit" ELSE "test")
  /\ air' = IF tstop[p] THEN air ELSE air \cup Responses
  /\ \/ /\ ~tstop[p] /\ Subscribed(Responder)
        /\ box' = [box EXCEPT ![Responder] = @ \cup {Response(Responder)}]
     \/ UNCHANGED box
  /\ UNCHANGED <<consumer, responder, tstop, dpc>>

(* wait_until tests its predicate; notify_all, which takes no mutex, may   *)
(* come before the thread waits.                                           *)
TTest(p) ==
  /\ TMove(p, "test", IF tstop[p] THEN "check" ELSE "armed")
  /\ UNCHANGED <<network, consumer, responder, tstop, dpc>>

TWait(p) ==
  /\ TMove(p, "armed", "wait")
  /\ UNCHANGED <<network, consumer, responder, tstop, dpc>>

(* Mutant: a thread that is to stop waits for the notification.            *)
TExpireUnlessStopped(p) ==
  /\ ~tstop[p] /\ TMove(p, "wait", "check")
  /\ UNCHANGED <<network, consumer, responder, tstop, dpc>>

(* The period is over.                                                     *)
TExpire(p) ==
  /\ TMove(p, "wait", "check")
  /\ UNCHANGED <<network, consumer, responder, tstop, dpc>>

CStep(c) == CSend(c) \/ CJoin(c) \/ \E f \in box[c] : CTake(c, f)
RStep == RTimeout \/ RJoin \/ RDestroy \/ \E f \in box[Responder] : RTake(f)
DStep == DestroyThread \/ NotifyAll \/ JoinThread
TStep(p) == TTask(p) \/ TTest(p) \/ TWait(p) \/ TExpire(p)

Next ==
  \/ \E f \in air : Lose(f) \/ Deliver(f)
  \/ \E p \in Foreign : ForeignInterest(p)
  \/ \E c \in Consumers : ClockStep(c) \/ CStart(c) \/ CStep(c) \/ CTimeout(c) \/ CStop(c)
  \/ RStart \/ RStop \/ RStep \/ DStep
  \/ \E p \in Periods : TStep(p)

Spec == Init /\ [][Next]_vars

(* Threads run; setup() starts every object; a frame sent again and again  *)
(* gets through; queues are first-in first-out, so a queued frame is taken *)
(* at last; and interests of others are rarer than one in 100 ms, so that  *)
(* a wait that keeps beginning anew ends.                                  *)
Fairness ==
  /\ \A c \in Consumers : WF_vars(CStep(c)) /\ SF_vars(CTimeout(c))
  /\ WF_vars(RStart) /\ WF_vars(RStep) /\ WF_vars(DStep)
  /\ \A p \in Periods : WF_vars(TStep(p))
  /\ \A c \in Consumers :
       SF_vars(Interest(Period[c], Responder) \in air /\ Deliver(Interest(Period[c], Responder)))
         /\ SF_vars(Response(c) \in air /\ Deliver(Response(c)))
         /\ SF_vars(RTake(Interest(Period[c], Responder)))
         /\ SF_vars(CTake(c, Response(c)))

FairSpec == Spec /\ Fairness

-----------------------------------------------------------------------------
(* An interest repeated by its consumer, or sent by two with one period,   *)
(* does not make a second thread ("conjunto de períodos para os quais já   *)
(* existem threads ativas", responsive_smart_data.hpp:83).                 *)
OneThreadPerPeriod == \A i, j \in DOMAIN vec : vec[i] = vec[j] => i = j

(* Whatever timestamp the last response had, and wherever the clock was    *)
(* set to since, an interest is repeated within 2 s and one wait of        *)
(* silence: the unsigned difference of a clock that went back is large.    *)
SilenceBounded == \A c \in Consumers : quiet[c] <= Resend + 1

(* No PeriodicThread, which calls send_response of the responder, outlives *)
(* it: none is left out of the joins or made by run() after them.          *)
NoTaskAfterDestroy ==
  rlife = "destroyed" => \A p \in Periods : tpc[p] \in {"none", "exit"}

(* A consumer gets a response, though its interests are lost, arrive       *)
(* before the responder subscribes or are answered to others, unless one   *)
(* of the two is stopped and as long as their sends return.                *)
Served ==
  \A c \in Consumers :
    clife[c] = "running" ~> got[c] \/ clife[c] # "running" \/ rlife \notin {"new", "running"}

(* The destructor of the responder returns, though stop() notifies without *)
(* the mutex, if the sends of the threads it joins return: one that waits  *)
(* in the shared-memory queue (ShmEngine) keeps the destructor waiting.    *)
DestroyReturns == rlife = "stopping" ~> rlife = "destroyed"

(* Interests and responses carry their unit and no receiver looks at it:   *)
(* what keeps them apart is the port.  Though the cast drops the exponent  *)
(* of the metre and most of that of the kilogram, an object that is        *)
(* subscribed for a unit in use is notified of the frames of this unit and *)
(* of no other, and the frames reach none of the fixed ports.              *)
UnitsApart ==
  \A x \in Objects, u \in UnitsInUse : Subscribed(x) => u \in Separate
==============================================================================
