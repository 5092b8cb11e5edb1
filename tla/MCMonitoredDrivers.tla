------------------------ MODULE MCMonitoredDrivers --------------------------
(* Instances of MonitoredDrivers for TLC. *)
EXTENDS MonitoredDrivers, TLC

(* Blocks are interchangeable. *)
BlockSymmetry == Permutations(Blocks)
=============================================================================
