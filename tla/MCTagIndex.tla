----------------------------- MODULE MCTagIndex -----------------------------
(* Instances of TagIndex for TLC: which call writes which entry key.       *)
EXTENDS TagIndex, TLC

CONSTANTS a1, a2, a3, k1, k2, k3

MCKeyOf == (a1 :> k1) @@ (a2 :> k2) @@ (a3 :> k3)
MCTwoKeys == (a1 :> k1) @@ (a2 :> k2)
=============================================================================
