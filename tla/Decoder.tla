------------------------------- MODULE Decoder -------------------------------
(***************************************************************************)
(* nmd_x86_decode in 64-bit mode, all its features asked for: whether the  *)
(* instruction at the start of a buffer is valid, its length, its id, what *)
(* it does to the flags, its groups and its operands.  It is the other half *)
(* of the file the driver takes its length disassembler from, written from *)
(* the same tables.                                                        *)
(***************************************************************************)
EXTENDS InstructionIds, CpuFlags, InstructionOperands

NumPrefixes(code, buffer_size) ==
  LET limit == Min({buffer_size, MaximumLength})
  IN  CHOOSE n \in 0 .. limit :
        /\ \A i \in 0 .. (n - 1) : IsPrefix(code[i])
        /\ n = limit \/ ~IsPrefix(code[n])

(* Here LOCK is one of the prefixes that select an instruction, and each   *)
(* REX takes the place of the one before.  Of REX.W the code keeps track    *)
(* twice; rex_w_prefix is taken back by an operand size prefix behind it.   *)
Prefixes(code, n) ==
  LET at == 0 .. (n - 1)
      seen == {code[i] : i \in at}
      rex == LastOf(code, n, \h40 .. \h4F)
  IN  [seen |-> seen, simd |-> LastOf(code, n, {LOCK, REPNE, REP, OPSIZE}),
       has |-> seen, rexW |-> RexW(rex), rexB |-> rex % 2 = 1,
       rex_w_prefix |-> \E i \in at : /\ RexW(code[i])
                                     /\ \A j \in at : j > i => code[j] # OPSIZE]

(* The instruction starts out cleared.  When the function returns false,    *)
(* "valid" is still false; what else it has written by then is left out.    *)
Invalid == [valid |-> FALSE, length |-> 0, id |-> INVALID, flags |-> NoFlags,
            group |-> {}, operands |-> <<>>]
Decoded(map, opcode_size, op, operand, length) ==
  [valid |-> TRUE, map |-> map, opcode_size |-> opcode_size, op |-> op,
   operand |-> operand, length |-> length]

valid_3DNow_opcodes ==
  {\h0C, \h0D, \h1C, \h1D, \h8A, \h8E, \h90, \h94, \h96, \h97, \h9A, \h9E,
   \hA0, \hA4, \hA6, \hA7, \hAA, \hAE, \hB0, \hB4, \hB6, \hB7, \hBB, \hBF}

DecodeThreeByte(code, n, remaining, p) ==
  LET op == code[n + 2]
      operand == Operand(code, n + 3, remaining - 3)
      map38 == code[n + 1] = \h38
  IN  IF \/ remaining < 4
         \/ ~operand.ok
         \/ map38 /\ Reserved38(op, operand.modrm, p.simd)
         \/ ~map38 /\ (remaining < 5 \/ Reserved3A(op, p.simd))
      THEN Invalid
      ELSE Decoded(IF map38 THEN "0F38" ELSE "0F3A", 3, op, operand, operand.next + IF map38 THEN 0 ELSE 1)

(* The byte behind the operands says which instruction it is.               *)
Decode3DNow(code, n, remaining) ==
  LET operand == Operand(code, n + 2, remaining - 2)
  IN  IF \/ remaining < 5
         \/ ~operand.ok
         \/ code[operand.next] \notin valid_3DNow_opcodes
      THEN Invalid
      ELSE Decoded("OTHER", 0, \h0F, operand, operand.next + 1)

DecodeTwoByte(code, n, remaining, p) ==
  LET op == code[n + 1]
      at == n + 2
      operand ==
        IF op \in \h20 .. \h23 /\ remaining = 2
          THEN [ok |-> TRUE, has_modrm |-> TRUE, modrm |-> code[at], next |-> at + 1]
        ELSE IF HasModrm2(op) THEN Operand(code, at, remaining - 2)
        ELSE NoOperand(at)
  IN  IF ~operand.ok \/ Reserved2(op, operand, p) THEN Invalid
      ELSE Decoded("0F", 2, op, operand,
                   operand.next + Immediate2(op, p.simd \in {REPNE, OPSIZE}))

(* Unlike the other branches this one does not step over the last byte of  *)
(* the operands, so that the length is one short.                          *)
DecodeVex(code, n, remaining) ==
  LET map == code[n + 1] % 32
      three == code[n] = \hC4
      at == n + IF three THEN 3 ELSE 2
      op == code[at]
      imm == IF three /\ op \in {\h0C, \h0D, \h40, \h41, \h17, \h21, \h42} THEN 1 ELSE 0
      operand == Operand(code, at + 1, remaining - (at + 1 - n))
  IN  IF remaining < 4 \/ (three /\ op = \h0C /\ map # 3) \/ ~operand.ok
      THEN Invalid
      ELSE Decoded("OTHER", 1, op, operand, operand.next - 1 + imm)

(* EVEX (62) is recognised and refused.                                     *)
DecodeOneByte(code, n, remaining, p) ==
  LET op == code[n]
      vex == op \in {\hC4, \hC5}
      operand ==
        IF \/ HasModrm1(op)
           \/ op \in {\hC4, \hC5, \h62} /\ remaining > 1 /\ Mod(code[n + 1]) # 3
          THEN Operand(code, n + 1, remaining - 1)
          ELSE NoOperand(n + 1)
  IN  IF ~operand.ok \/ op = \h62 THEN Invalid
      ELSE IF vex /\ ~operand.has_modrm THEN DecodeVex(code, n, remaining)
      ELSE IF vex \/ Reserved1(op, operand.modrm) \/ op \in NotIn64Bit
        THEN Invalid
      ELSE Decoded("DEFAULT", 1, op, operand,
                   operand.next + Immediate1(op, operand.modrm, p, p.rexW))

Instruction(code, n, remaining, p) ==
  IF remaining = 0 THEN Invalid
  ELSE IF code[n] # \h0F THEN DecodeOneByte(code, n, remaining, p)
  ELSE IF remaining = 1 THEN Invalid
  ELSE CASE code[n + 1] \in {\h38, \h3A} -> DecodeThreeByte(code, n, remaining, p)
         [] code[n + 1] = \h0F -> Decode3DNow(code, n, remaining)
         [] OTHER -> DecodeTwoByte(code, n, remaining, p)

(* The features: what is said of a valid instruction besides its length.    *)
Described(insn, p) ==
  LET i == [map |-> insn.map, op |-> insn.op, modrm |-> insn.operand.modrm, p |-> p]
  IN  [valid |-> TRUE, length |-> insn.length, id |-> Id(i), flags |-> CpuFlagsOf(i),
       group |-> Group(i), operands |-> OperandsOf(i)]

(* Asked last, when all else has been written.                              *)
NotLockable(insn, p) ==
  LOCK \in p.seen /\ ~Lockable(insn.opcode_size, insn.op, insn.operand)

nmd_x86_decode(code, buffer_size) ==
  LET n == NumPrefixes(code, buffer_size)
      p == Prefixes(code, n)
      insn == Instruction(code, n, Min({MaximumLength, buffer_size}) - n, p)
  IN  IF ~insn.valid \/ NotLockable(insn, p) THEN Invalid ELSE Described(insn, p)
=============================================================================
