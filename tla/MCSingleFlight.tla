--------------------------- MODULE MCSingleFlight ---------------------------
(* Instances of SingleFlight for TLC.                                      *)
EXTENDS SingleFlight, TLC

(* Calls are interchangeable; keys are not, since Init picks one.          *)
MCSymmetry == Permutations(Calls)
=============================================================================
