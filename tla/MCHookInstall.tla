--------------------------- MODULE MCHookInstall ---------------------------
(***************************************************************************)
(* Instances of HookInstall for TLC: four hooked functions, the first two  *)
(* in one page, the third in the other half of the same large page, the    *)
(* fourth elsewhere.                                                       *)
(***************************************************************************)
EXTENDS HookInstall, FiniteSets

CONSTANT Lengths  (* The lengths of the first instructions. *)

MCFunctionPage == [f \in 0 .. 3 |-> <<2, 2, 3, 5>>[f + 1]]
MCExecuteFrame == [p \in {2, 3, 5} |-> IF p = 2 THEN 0 ELSE p * 2]

Sum(s) == LET from[k \in 0 .. Len(s)] == IF k = 0 THEN 0 ELSE from[k - 1] + s[k]
          IN  from[Len(s)]

(* The ways to fill at least 16 bytes with whole instructions. *)
Beginnings ==
  LET grow[n \in 0 .. 16] ==
        IF n = 0 THEN {<<>>}
        ELSE {Append(s, l) : s \in {t \in grow[n - 1] : Sum(t) < 16}, l \in Lengths}
  IN  {s \in UNION {grow[n] : n \in 1 .. 16} : Sum(s) >= 16}

(* A function: first instructions of the given lengths, one that refers to  *)
(* its own address, and the return.                                         *)
Body(f, lengths) ==
  [k \in 1 .. Len(lengths) |-> Insn("plain", lengths[k], <<f, k>>)]
    \o <<Insn("relative", 7, f), Insn("ret", 1, None)>>

BytesOf(insn) == [k \in 1 .. insn.len |-> Byte(insn, k - 1)]

Bytes(insns) ==
  LET upto[k \in 0 .. Len(insns)] ==
        IF k = 0 THEN <<>> ELSE upto[k - 1] \o BytesOf(insns[k])
  IN  upto[Len(insns)]

Padding == Insn("ret", 1, None)
PageOf(bytes) ==
  [o \in Offsets |-> IF o < Len(bytes) THEN bytes[o + 1]
                     ELSE [insn |-> Padding, at |-> 0]]

MCLayout(s, t) ==
  LET first == Bytes(Body(0, s))
      lone == <<7, 7, 7>>
  IN  [entry |-> [f \in 0 .. 3 |-> IF f = 1 THEN Len(first) ELSE 0],
       code |-> [p \in {2, 3, 5} |->
                   IF p = 2 THEN PageOf(first \o Bytes(Body(1, t)))
                            ELSE PageOf(Bytes(Body(p, lone)))]]

MCLayouts == {MCLayout(s, <<3, 1, 4, 1, 1, 2, 7>>) : s \in Beginnings}
               \cup {MCLayout(<<7, 7, 7>>, s) : s \in Beginnings}
=============================================================================
