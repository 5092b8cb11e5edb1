--------------------------- MODULE MCVmxLifecycle ---------------------------
(* Instances of VmxLifecycle for TLC: every allocation whose failure leaves *)
(* the system running or stops it at once may fail, and the last processor  *)
(* is the first of a second group.                                          *)
EXTENDS VmxLifecycle, TLC

AnyAllocation == VcpuKinds \cup ContextKinds \cup {"device", "link"}

TwoGroups == [c \in Cpus |-> IF c = 2 THEN "second" ELSE "first"]

(* Threads are interchangeable. *)
ThreadSymmetry == Permutations(Threads)
=============================================================================
