--------------------------- MODULE MCLogPipeline ---------------------------
(* Instances of LogPipeline for TLC. *)
EXTENDS LogPipeline, TLC

(* Threads that call hooked functions are interchangeable. *)
ProducerSymmetry == Permutations(Producers)
=============================================================================
