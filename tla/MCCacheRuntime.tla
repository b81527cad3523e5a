--------------------------- MODULE MCCacheRuntime ---------------------------
(* Instances of CacheRuntime for TLC: which process makes which call.      *)
EXTENDS CacheRuntime, TLC

CONSTANTS p1, p2, c1, c2, c3

MCOneCall == (c1 :> p1)
MCTwoProcs == (c1 :> p1) @@ (c2 :> p2)
MCThreeCalls == (c1 :> p1) @@ (c2 :> p2) @@ (c3 :> p2)
=============================================================================
