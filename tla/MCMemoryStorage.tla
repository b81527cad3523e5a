-------------------------- MODULE MCMemoryStorage --------------------------
(* Instances of MemoryStorage for TLC: the entries written to it.          *)
EXTENDS MemoryStorage, TLC

CONSTANTS t1, t2

(* A small entry that expires at once, a larger one with a stale window,   *)
(* and one that alone exceeds a byte budget of 4.                          *)
MCInputs == {[tags |-> {t1}, size |-> 1, ttl |-> 1, stale |-> 0],
             [tags |-> {t1, t2}, size |-> 2, ttl |-> 1, stale |-> 1],
             [tags |-> {t2}, size |-> 5, ttl |-> 2, stale |-> 0]}

MCSymmetry == Permutations(Keys)
=============================================================================
