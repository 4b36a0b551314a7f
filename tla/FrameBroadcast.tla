--------------------------- MODULE FrameBroadcast ---------------------------
(***************************************************************************)
(* What ShmEngine promises a process that reads and does not write: every  *)
(* frame published while it is registered, each once, in order, and none   *)
(* of them overwritten before it was taken.  Frame k is the k-th one       *)
(* published; delivered[r] is the last one reader r took.                  *)
(***************************************************************************)
EXTENDS Integers

CONSTANTS Readers, Capacity

VARIABLES published, delivered

Outside == -1    \* delivered[r] of a reader that is not registered

Init ==
  /\ published = 0
  /\ delivered \in [Readers -> {0, Outside}]

(* A frame is published only when every registered reader has room for it. *)
Publish ==
  /\ \A r \in Readers : delivered[r] # Outside => published - delivered[r] < Capacity
  /\ published' = published + 1
  /\ UNCHANGED delivered

Deliver(r) ==
  /\ delivered[r] # Outside /\ delivered[r] < published
  /\ delivered' = [delivered EXCEPT ![r] = @ + 1]
  /\ UNCHANGED published

Join(r) ==
  /\ delivered[r] = Outside
  /\ delivered' = [delivered EXCEPT ![r] = published]
  /\ UNCHANGED published

Leave(r) ==
  /\ delivered[r] # Outside
  /\ delivered' = [delivered EXCEPT ![r] = Outside]
  /\ UNCHANGED published

Next == Publish \/ \E r \in Readers : Deliver(r) \/ Join(r) \/ Leave(r)

Spec == Init /\ [][Next]_<<published, delivered>>
=============================================================================
