----------------------------- MODULE MCSmartData -----------------------------
(* Instances of SmartData for TLC: who asks for which period.               *)
EXTENDS SmartData, TLC

CONSTANT c1

OnePeriod == c1 :> 1
==============================================================================
