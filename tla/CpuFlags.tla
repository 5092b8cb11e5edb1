------------------------------- MODULE CpuFlags -------------------------------
(***************************************************************************)
(* What nmd_x86_decode says an instruction does to the flags, and which    *)
(* groups it counts it among, in 64-bit mode.  It goes by the opcode, not  *)
(* by the instruction id, and so says it anew for every encoding.          *)
(*                                                                         *)
(* An instruction i: [op, modrm, p], p its prefixes (see Decoder).         *)
(***************************************************************************)
EXTENDS X86Encoding

(* The flags are names: CF, ..., and C0 to C3 of the floating-point unit.   *)
Arithmetic == {"CF", "PF", "AF", "ZF", "SF", "OF"}
Control == {"TF", "IF", "DF", "IOPL", "NT", "AC", "VIF", "VIP", "ID"}
Condition == {"C0", "C1", "C2", "C3"}
Flags(tested, modified, set, cleared, undefined) ==
  [tested |-> tested, modified |-> modified, set |-> set, cleared |-> cleared,
   undefined |-> undefined]
NoFlags == Flags({}, {}, {}, {}, {})
Tests(t) == Flags(t, {}, {}, {}, {})
Modifies(m, u) == Flags({}, m, {}, {}, u)
ModifiesClears(m, c) == Flags({}, m, {}, c, {})
Clears(c) == Flags({}, {}, {}, c, {})

(* A condition and its opposite look at the same flags.                     *)
conditional_flag(condition) ==
  Tests(<<{"OF"}, {"CF"}, {"ZF"}, {"CF", "ZF"}, {"SF"}, {"PF"}, {"SF", "OF"},
          {"ZF", "SF", "OF"}>>[(condition \div 2) + 1])

-----------------------------------------------------------------------------
(* The escape opcodes.                                                      *)
Computes == Modifies({"C1"}, Condition \ {"C1"})
Compares == Flags({}, Condition \ {"C1"}, {}, {"C1"}, {})
Exchanges == Flags({}, {}, {}, {"C1"}, Condition \ {"C1"})
FloatingPointFlags(op, m) ==
  LET reg == Reg(m)
      registers == Mod(m) = 3
  IN  CASE op \in {\hD8, \hDC} -> IF reg \in {2, 3} THEN Compares ELSE Computes
        [] op = \hD9 /\ ~registers ->
             CASE reg \in {0, 2, 3} -> Computes
               [] reg = 4 -> Modifies(Condition, {})
               [] reg >= 5 -> Modifies({}, Condition)
               [] OTHER -> NoFlags
        [] op = \hD9 /\ registers -> IF m < \hC8 THEN Computes ELSE Exchanges
        [] op \in {\hDA, \hDE} /\ ~registers ->
             IF reg \in {2, 3} THEN Compares ELSE Computes
        [] op \in {\hDA, \hDE} /\ registers ->
             IF <<op, m>> \in {<<\hDA, \hE9>>, <<\hDE, \hD9>>}
               THEN Modifies(Condition, {}) ELSE Computes
        [] op \in {\hDB, \hDD, \hDF} /\ ~registers ->
             CASE reg \in {0, 2, 3, 5, 7} -> Computes
               [] reg = 1 -> Exchanges
               [] OTHER -> NoFlags
        [] op \in {\hDB, \hDD, \hDF} /\ registers ->
             CASE reg <= 3 -> Computes
               [] m \in {\hE0, \hE2} -> Modifies({}, Condition)
               [] m = \hE3 -> Clears(Condition)
               [] OTHER -> Exchanges

(* The arithmetic and the shift groups.                                     *)
Logic == Flags({}, {"SF", "ZF", "PF"}, {}, {"OF", "CF"}, {"AF"})
Group1Flags(reg) ==
  IF reg \in {1, 4, 6} THEN Logic ELSE Modifies(Arithmetic, {})
ShiftFlags(reg) ==
  IF reg <= 3 THEN Modifies({"CF"}, {"OF"}) ELSE Modifies(Arithmetic \ {"AF"}, {"AF"})
Multiplies == Modifies({"CF", "OF"}, Arithmetic \ {"CF", "OF"})
Group3Flags(reg) ==
  CASE reg = 0 -> Logic
    [] reg = 3 -> Modifies(Arithmetic, {})
    [] reg \in {4, 5} -> Multiplies
    [] reg >= 6 -> Modifies({}, Arithmetic)
    [] OTHER -> NoFlags

(* cmc, clc, stc, cli, sti, cld and std.                                    *)
FlagControl(op) ==
  CASE op = \hF5 -> Flags({"CF"}, {"CF"}, {}, {}, {})
    [] op = \hF8 -> Clears({"CF"})
    [] op = \hF9 -> Flags({}, {}, {"CF"}, {}, {})
    [] op \in {\hFA, \hFB} -> Flags({"IOPL"}, {"IF", "VIF"}, {}, {}, {})
    [] op = \hFC -> Clears({"DF"})
    [] op = \hFD -> Flags({}, {}, {"DF"}, {}, {})

(* One-byte opcodes.  Rows 0 to 3 hold add, or; adc, sbb; and, sub; xor and *)
(* cmp.                                                                     *)
Flags1(i) ==
  LET op == i.op
      reg == Reg(i.modrm)
  IN  CASE op \in {\hCC, \hCD} ->
             Flags({"IOPL", "VM"}, {"IF", "NT", "VM", "AC", "VIF"}, {}, {"TF", "RF"}, {})
        [] Row(op) = 7 -> conditional_flag(Column(op))
        [] op \in {\hFE, \hFF} /\ reg <= 1 -> Modifies(Arithmetic \ {"CF"}, {})
        [] Row(op) < 4 /\ op % 8 <= 5 ->
             IF op \in (\h08 .. \h0D) \cup (\h20 .. \h25) \cup (\h30 .. \h35)
               THEN Logic ELSE Modifies(Arithmetic, {})
        [] op \in \h80 .. \h83 -> Group1Flags(reg)
        [] op \in {\hA6, \hA7, \hAE, \hAF} -> Modifies(Arithmetic, {})
        [] op = \h9C -> Tests(Arithmetic \cup Control \cup {"RF", "VM"})
        [] op = \h9D -> Flags({"IOPL", "VM", "VIP"}, (Arithmetic \cup Control) \ {"VIP"},
                             {}, {"RF"}, {})
        [] op = \hCF -> Flags({"IOPL", "NT", "VM"}, Arithmetic \cup Control \cup {"RF", "VM"},
                             {}, {}, {})
        [] op \in {\h84, \h85, \hA8, \hA9} -> Logic
        [] op \in {\h69, \h6B} -> Multiplies
        [] op \in {\hF6, \hF7} -> Group3Flags(reg)
        [] op \in {\hC0, \hC1} \cup (\hD0 .. \hD3) -> ShiftFlags(reg)
        [] op = \h9B -> Modifies({}, Condition)
        [] op = \h9E -> Modifies(Arithmetic \ {"OF"}, {})
        [] op = \h9F -> Tests(Arithmetic \ {"OF"})
        [] op \in \hD8 .. \hDF -> FloatingPointFlags(op, i.modrm)
        [] op = \hF5 \/ op \in \hF8 .. \hFD -> FlagControl(op)
        [] OTHER -> NoFlags

(* Opcodes behind 0F.  BC is answered for with the double shifts, and the   *)
(* second answers for 34, AA and BC are never reached.                      *)
Flags2(i) ==
  LET op == i.op
      m == i.modrm
  IN  CASE Row(op) \in {4, 8, 9} -> conditional_flag(Column(op))
        [] op \in {\h05, \h07} ->
             ModifiesClears(Arithmetic \cup Control,
                            {"RF"} \cup (IF op = \h05 THEN {"VM"} ELSE {}))
        [] op = \h34 -> Clears({"IF", "RF", "VM"})
        [] op = \hAA -> Modifies(Arithmetic \cup Control \cup {"RF", "VM"}, {})
        [] op = \hAF -> Multiplies
        [] op \in {\hB0, \hB1, \hC0, \hC1} -> Modifies(Arithmetic, {})
        [] op = \h00 /\ Reg(m) \in {4, 5} -> Modifies({"OF"}, {})
        [] op = \h01 /\ m \in \hC1 .. \hC3 ->
             Flags({"IOPL", "VM"}, Arithmetic \cup Control \cup {"RF", "VM"}, {}, {}, {})
        [] op \in {\h78, \h79} -> ModifiesClears({"CF", "ZF"}, {"PF", "SF", "OF"})
        [] op \in {\h02, \h03} -> Modifies({"ZF"}, {})
        [] op \in {\hA3, \hAB, \hB3, \hBA, \hBB} -> Modifies({"CF"}, {"OF", "SF", "AF", "PF"})
        [] op \in {\hA4, \hA5, \hAC, \hAD, \hBC} ->
             Modifies({"CF", "PF", "ZF", "SF"}, {"AF", "OF"})
        [] op = \hBD ->
             IF REP \in i.p.seen THEN Modifies({"CF", "ZF"}, Arithmetic \ {"CF", "ZF"})
                                 ELSE Modifies({"ZF"}, Arithmetic \ {"ZF"})
        [] OTHER -> NoFlags

(* Opcodes behind 0F 38: the VMX invalidations, and ADCX and ADOX.          *)
Flags38(i) ==
  LET of == (IF OPSIZE \in i.p.seen /\ REP \notin i.p.seen THEN {"CF"} ELSE {})
              \cup (IF REP \in i.p.seen THEN {"OF"} ELSE {})
  IN  CASE i.op \in {\h80, \h81} -> ModifiesClears({"CF", "ZF"}, {"PF", "AF", "SF", "OF"})
        [] i.op = \hF6 -> Flags(of, of, {}, {}, {})
        [] OTHER -> NoFlags

(* NMD_X86_DECODER_FLAGS_CPU_FLAGS                                          *)
CpuFlagsOf(i) ==
  CASE i.map = "DEFAULT" -> Flags1(i)
    [] i.map = "0F" -> Flags2(i)
    [] i.map = "0F38" -> Flags38(i)
    [] OTHER -> NoFlags

-----------------------------------------------------------------------------
(* NMD_X86_DECODER_FLAGS_GROUP                                              *)
JUMP == "JUMP"
CALL == "CALL"
RET == "RET"
INT == "INT"
PRIVILEGE == "PRIVILEGE"
CONDITIONAL == "CONDITIONAL_BRANCH"
UNCONDITIONAL == "UNCONDITIONAL_BRANCH"
RELATIVE == "RELATIVE_ADDRESSING"

(* The bug BranchesMarked guards against: the short jump, EB, is left out.  *)
Group1WithoutShort(op, m) ==
  CASE Row(op) = 7 \/ op = \hE3 -> {JUMP, CONDITIONAL, RELATIVE}
    [] op \in {\hE9, \hEB} -> {JUMP, UNCONDITIONAL} \cup (IF op = \hE9 THEN {RELATIVE} ELSE {})
    [] OTHER -> {}
Group1(op, m) ==
  CASE Row(op) = 7 \/ op = \hE3 -> {JUMP, CONDITIONAL, RELATIVE}
    [] op \in {\hE9, \hEB} -> {JUMP, UNCONDITIONAL, RELATIVE}
    [] op = \hFF /\ Reg(m) \in {4, 5} -> {JUMP, UNCONDITIONAL}
    [] op = \hE8 -> {CALL, UNCONDITIONAL, RELATIVE}
    [] op = \hFF /\ Reg(m) \in {2, 3} -> {CALL, UNCONDITIONAL}
    [] op \in {\hC2, \hC3, \hCA, \hCB} -> {RET}
    [] op \in {\hCC, \hCD, \hF1} -> {INT}
    [] op = \hF4 -> {PRIVILEGE}
    [] op = \hC7 /\ m = \hF8 -> {UNCONDITIONAL, RELATIVE}
    [] op \in \hE0 .. \hE2 -> {CONDITIONAL, RELATIVE}
    [] op = \h8D -> {RELATIVE}
    [] op = \hCF -> {RET, INT}
    [] OTHER -> {}
Group2(op, m) ==
  CASE Row(op) = 8 -> {JUMP, CONDITIONAL, RELATIVE}
    [] \/ op = \h01 /\ Rm(m) = 7 /\ (Mod(m) = 0 \/ m = \hF8)
       \/ op \in {\h06, \h08, \h09, \h30, \h32, \h33, \h35, \h37} -> {PRIVILEGE}
    [] OTHER -> {}
Group(i) ==
  CASE i.map = "DEFAULT" -> Group1(i.op, i.modrm)
    [] i.map = "0F" -> Group2(i.op, i.modrm)
    [] OTHER -> {}
=============================================================================
