----------------------- MODULE RawSocketEngineProofs -----------------------
(***************************************************************************)
(* The wake-up of the receiving thread, for any receive buffer and any     *)
(* number of frames.                                                       *)
(***************************************************************************)
EXTENDS RawSocketEngine, SequenceTheorems, TLAPS

(* From the recvfrom that found nothing, a frame in the socket came with a *)
(* signal of its own, which is pending or has become a permit; there is no *)
(* thread before O_ASYNC is set.                                           *)
Announced ==
  /\ Running /\ pc \in {"drained", "sleep"} /\ socket # << >> => pending \/ sem > 0 \/ broke
  /\ pc # "none" => async
  /\ life = "bound" => pc = "none"
  /\ life # "bound" => async

IInv == TypeOK /\ Announced

LEMMA InitInv == Init => IInv
<1> SUFFICES ASSUME Init PROVE IInv
  OBVIOUS
<1>1. socket \in Seq(Nat)
  BY EmptySeq DEF Init
<1>2. TypeOK
  BY <1>1 DEF Init, TypeOK, PCs, Lives
<1>3. Announced
  BY DEF Init, Announced
<1> QED
  BY <1>2, <1>3 DEF IInv

LEMMA NextType == TypeOK /\ [Next]_vars => TypeOK'
<1> SUFFICES ASSUME TypeOK, [Next]_vars PROVE TypeOK'
  OBVIOUS
<1> USE DEF TypeOK, PCs, Lives, Move
<1>1. CASE Arrive
  <2>1. socket' \in Seq(Nat)
    BY <1>1, AppendProperties DEF Arrive
  <2> QED
    BY <1>1, <2>1 DEF Arrive
<1>2. CASE Drain
  <2>1. socket # << >> => Head(socket) \in Nat /\ Tail(socket) \in Seq(Nat)
    BY HeadTailProperties
  <2> QED
    BY <1>2, <2>1 DEF Drain
<1>3. CASE Handler
  <2>1. pending' \in BOOLEAN
    BY <1>3, Zenon DEF Handler
  <2>2. pc' \in PCs /\ sem' \in Nat
    BY <1>3 DEF Handler
  <2> QED
    BY <1>3, <2>1, <2>2, Zenon DEF Handler
<1>4. CASE Check \/ Drained \/ Wake
  BY <1>4 DEF Check, Drained, Wake
<1>5. CASE SetAsync \/ Start \/ Stop \/ IgnoreSignal
  BY <1>5 DEF SetAsync, Start, Stop, IgnoreSignal
<1>6. CASE Post \/ Close
  BY <1>6 DEF Post, Close
<1>7. CASE DrainBreaks
  BY <1>7 DEF DrainBreaks
<1>8. CASE UNCHANGED vars
  BY <1>8 DEF vars
<1> QED
  BY <1>1, <1>2, <1>3, <1>4, <1>5, <1>6, <1>7, <1>8 DEF Next, ReceiveStep, StopStep

LEMMA NextInv == IInv /\ [Next]_vars => IInv'
<1> SUFFICES ASSUME TypeOK, Announced, [Next]_vars PROVE Announced'
  BY NextType DEF IInv
<1> USE DEF TypeOK, Announced, Running, Move, PCs, Lives
<1>1. CASE Arrive
  BY <1>1 DEF Arrive, Catches
<1>2. CASE Handler
  BY <1>2 DEF Handler
<1>3. CASE Check
  BY <1>3 DEF Check
<1>4. CASE Drain
  BY <1>4 DEF Drain
<1>5. CASE Drained
  BY <1>5 DEF Drained
<1>6. CASE Wake
  BY <1>6 DEF Wake
<1>7. CASE SetAsync \/ Start
  BY <1>7 DEF SetAsync, Start
<1>8. CASE Stop \/ IgnoreSignal \/ Post \/ Close
  BY <1>8 DEF Stop, IgnoreSignal, Post, Close
<1>9. CASE DrainBreaks
  BY <1>9 DEF DrainBreaks
<1>10. CASE UNCHANGED vars
  BY <1>10 DEF vars
<1> QED
  BY <1>1, <1>2, <1>3, <1>4, <1>5, <1>6, <1>7, <1>8, <1>9, <1>10 DEF Next, ReceiveStep, StopStep

(* The receiving thread of RawSocketEngine never sleeps on queued frames   *)
(* without a signal on its way, however signals coalesce and wherever in   *)
(* _receive_loop they arrive, unless its last drain broke off on an error. *)
THEOREM DrainFirst == Spec => [](TypeOK /\ NoFrameStranded)
<1>1. IInv => TypeOK /\ NoFrameStranded
  BY DEF IInv, TypeOK, Announced, NoFrameStranded
<1> QED
  BY InitInv, NextInv, <1>1, PTL DEF Spec
=============================================================================
