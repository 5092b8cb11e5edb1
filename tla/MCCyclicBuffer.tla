--------------------------- MODULE MCCyclicBuffer ---------------------------
(* Instances of CyclicBuffer for TLC. *)
EXTENDS CyclicBuffer, TLC

CONSTANTS t1, t2, t3, p1, p2

(* Two threads that share a processor and one on another, called at two     *)
(* levels.                                                                  *)
ThreeCallerIrql ==
  t1 :> "PASSIVE_LEVEL" @@ t2 :> "APC_LEVEL" @@ t3 :> "PASSIVE_LEVEL"
ThreeProcessor == t1 :> p1 @@ t2 :> p1 @@ t3 :> p2

(* Entries are interchangeable. *)
ItemSymmetry == Permutations(Items)
=============================================================================
