----------------------------- MODULE MCShmEngine -----------------------------
(* Instances of ShmEngine for TLC: which processes there are and which      *)
(* threads send.                                                            *)
EXTENDS ShmEngine, TLC

CONSTANTS a, b, c, s1, s2, s3

OneSender   == s1 :> a
TwoSenders  == s1 :> a @@ s2 :> b
ThreeSenders == s1 :> a @@ s2 :> a @@ s3 :> b

(* The two threads of process a are interchangeable.                        *)
Twins == Permutations({s1, s2})
==============================================================================
