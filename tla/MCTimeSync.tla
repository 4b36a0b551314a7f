----------------------------- MODULE MCTimeSync -----------------------------
(* Instances of TimeSync for TLC: stations, their quadrants and clocks.     *)
EXTENDS TimeSync, TLC

CONSTANTS v1, r0, r1

OneBase == v1 :> 1
Zones   == r0 :> 0 @@ r1 :> 1
Ahead   == r0 :> 1 @@ r1 :> 2
=============================================================================
