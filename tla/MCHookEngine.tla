---------------------------- MODULE MCHookEngine ----------------------------
(***************************************************************************)
(* Instances of HookEngine for TLC: three hooked functions, of which the   *)
(* second shares the page of the first, and an ordinary page.              *)
(***************************************************************************)
EXTENDS HookEngine, TLC

CONSTANTS
  P, Q,      (* The two pages with hooked functions.          *)
  Ordinary,  (* A page without.                               *)
  Far        (* A page beyond the identity map of setup_ept.  *)

MCFunctionCount == 3
MCFunctionPage == [i \in 0 .. 2 |-> IF i = 2 THEN Q ELSE P]
MCUnmapped == {Far}

Insn(fetch, reads, writes) ==
  [fetch |-> fetch, reads |-> reads, writes |-> writes]

CallP == Insn(P, {}, {})
ReadP == Insn(Ordinary, {P}, {})
WritePFromQ == Insn(Q, {}, {P})
ReadQFromP == Insn(P, {Q}, {})
CopyPQ == Insn(Ordinary, {P}, {Q})
ReadSelf == Insn(P, {P}, {})
TouchFar == Insn(Ordinary, {Far}, {})

(* Every kind of instruction, for the properties that hold of all of them. *)
AllKinds == {ReadP, ReadQFromP, CopyPQ, ReadSelf, TouchFar}

(* At most one hooked page is read or written, and not the page of the     *)
(* instruction: what the guest can complete.                                *)
CompletingKinds == {CallP, ReadP, WritePFromQ, ReadQFromP}

(* A call of a hooked function, and data accesses to two hooked pages. *)
CallAndRead == {CallP, ReadP, Insn(Ordinary, {}, {Q})}

(* Processors are interchangeable. *)
CpuSymmetry == Permutations(Cpus)
=============================================================================
