-------------------------- MODULE LengthDisassembler --------------------------
(***************************************************************************)
(* nmd_x86_ldisasm in 64-bit mode: how many bytes the instruction at the   *)
(* start of a buffer has.  The driver copies whole instructions out of the *)
(* function it hooks with it (EptHook::add_function_hook).                 *)
(***************************************************************************)
EXTENDS X86Encoding

(* The loop over the prefixes looks at 15 bytes, however few the buffer has.*)
NumPrefixes(code) ==
  CHOOSE n \in 0 .. MaximumLength :
    /\ \A i \in 0 .. (n - 1) : IsPrefix(code[i])
    /\ n = MaximumLength \/ ~IsPrefix(code[n])

(* The bug SameVerdict guards against: REPNE does not select instructions.  *)
PrefixesWithoutRepne(code, n) ==
  LET simd == LastOf(code, n, {REP, OPSIZE})
      seen == {code[i] : i \in 0 .. (n - 1)}
  IN  [seen |-> seen, simd |-> simd, has |-> {simd},
       rexW |-> \E b \in seen : RexW(b)]

(* simd_prefix is the last of F2, F3 and 66; rexW stays once any REX has it.*)
Prefixes(code, n) ==
  LET simd == LastOf(code, n, {REPNE, REP, OPSIZE})
      seen == {code[i] : i \in 0 .. (n - 1)}
  IN  [seen |-> seen, simd |-> simd, has |-> {simd},
       rexW |-> \E b \in seen : RexW(b)]

(* The bytes left for the instruction: size_t, so that a buffer shorter    *)
(* than the prefixes counts as one without end.                            *)
RemainingSize(n, buffer_size) ==
  IF buffer_size < n THEN MaximumLength - n
  ELSE Min({MaximumLength - n, buffer_size - n})

Zero == [length |-> 0]
Found(opcode_size, op, operand, length) ==
  [length |-> length, opcode_size |-> opcode_size, op |-> op, operand |-> operand]

ThreeByte(code, n, remaining, p) ==
  LET op == code[n + 2]
      operand == Operand(code, n + 3, remaining - 3)
      is_map38 == code[n + 1] = \h38
  IN  IF \/ remaining < 4
         \/ ~operand.ok
         \/ is_map38 /\ Reserved38(op, operand.modrm, p.simd)
         \/ ~is_map38 /\ (remaining < 5 \/ Reserved3A(op, p.simd))
      THEN Zero
      ELSE Found(3, op, operand, operand.next + IF is_map38 THEN 0 ELSE 1)

(* 3DNow!: nothing behind the two bytes of the opcode is looked at.         *)
ThreeDNow(n, remaining) ==
  IF remaining < 5 THEN Zero ELSE Found(0, 0, NoOperand(n + 2), n + 2)

TwoByte(code, n, remaining, p) ==
  LET op == code[n + 1]
      at == n + 2
      operand ==
        IF op \in \h20 .. \h23 /\ remaining = 2
          THEN [ok |-> TRUE, has_modrm |-> TRUE, modrm |-> code[at], next |-> at + 1]
        ELSE IF HasModrm2(op) THEN Operand(code, at, remaining - 2)
        ELSE NoOperand(at)
  IN  IF ~operand.ok \/ Reserved2(op, operand, p) THEN Zero
      ELSE Found(2, op, operand, operand.next
                                 + Immediate2(op, {REPNE, OPSIZE} \cap p.seen # {}))

(* C4 and C5 without a ModR/M byte of their own.                            *)
Vex(code, n, remaining) ==
  LET at == n + IF code[n] = \hC4 THEN 3 ELSE 2
      op == code[at]
      imm == IF code[n] = \hC4 /\ op \in {\h0C, \h0D, \h40, \h41, \h17, \h21, \h42}
             THEN 1 ELSE 0
      operand == Operand(code, at + 1, remaining - (at + 1 - n))
  IN  IF remaining < 4 \/ ~operand.ok THEN Zero
      ELSE Found(1, op, operand, operand.next + imm)

(* With a ModR/M byte they are no instruction of 64-bit mode.               *)
OneByte(code, n, remaining, p) ==
  LET op == code[n]
      vex == op \in {\hC4, \hC5}
      operand ==
        IF HasModrm1(op) \/ (vex /\ remaining > 1 /\ Mod(code[n + 1]) # 3)
          THEN Operand(code, n + 1, remaining - 1)
          ELSE NoOperand(n + 1)
  IN  IF ~operand.ok \/ Reserved1(op, operand.modrm) \/ (vex /\ operand.has_modrm)
        THEN Zero
      ELSE IF vex THEN Vex(code, n, remaining)
      ELSE IF op \in NotIn64Bit THEN Zero
      ELSE Found(1, op, operand,
                 operand.next + Immediate1(op, operand.modrm, p, p.rexW))

Instruction(code, n, remaining, p) ==
  IF remaining = 0 THEN Zero
  ELSE IF code[n] # \h0F THEN OneByte(code, n, remaining, p)
  ELSE IF remaining = 1 THEN Zero
  ELSE CASE code[n + 1] \in {\h38, \h3A} -> ThreeByte(code, n, remaining, p)
         [] code[n + 1] = \h0F -> ThreeDNow(n, remaining)
         [] OTHER -> TwoByte(code, n, remaining, p)

(* The length, or zero.  Immediates are not held against what remains.      *)
ldisasm(code, buffer_size) ==
  LET n == NumPrefixes(code)
      p == Prefixes(code, n)
      insn == Instruction(code, n, RemainingSize(n, buffer_size), p)
  IN  IF insn.length = 0 THEN 0
      ELSE IF LOCK \in p.seen /\ ~Lockable(insn.opcode_size, insn.op, insn.operand)
        THEN 0
      ELSE insn.length
=============================================================================
