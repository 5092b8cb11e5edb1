---------------------------- MODULE X86Encoding ----------------------------
(***************************************************************************)
(* What the two disassemblers of nmd_assembly.h share, in 64-bit mode: how *)
(* a ModR/M byte is followed by a SIB byte and a displacement, and the     *)
(* tables of encodings that mean nothing.  The code holds most of it twice,*)
(* once for nmd_x86_ldisasm and once for nmd_x86_decode; the copies differ *)
(* in which prefixes they look at, which here is the record p:             *)
(*   p.seen   the prefixes of the instruction,                             *)
(*   p.simd   the one that selects the instruction, the last of its kind,  *)
(*   p.has    those a test for "has the prefix" finds.                     *)
(*                                                                         *)
(* Code is a function from 0, 1, ... to bytes: what the buffer holds and   *)
(* what follows it in memory.                                              *)
(***************************************************************************)
EXTENDS Integers, FiniteSetsExt

MaximumLength == 15                        (* NMD_X86_MAXIMUM_INSTRUCTION_LENGTH *)
Byte == 0 .. \hFF

LOCK == \hF0
REPNE == \hF2
REP == \hF3
OPSIZE == \h66
ADDRSIZE == \h67
NoPrefix == 0
LegacyPrefixes ==
  {LOCK, REPNE, REP, OPSIZE, ADDRSIZE, \h2E, \h36, \h3E, \h26, \h64, \h65}

Row(b) == b \div 16
Column(b) == b % 16
Mod(modrm) == modrm \div 64
Reg(modrm) == (modrm \div 8) % 8
Rm(modrm) == modrm % 8

IsRex(b) == Row(b) = 4
RexW(b) == IsRex(b) /\ Column(b) >= 8
IsPrefix(b) == b \in LegacyPrefixes \/ IsRex(b)

(* The last prefix among the first n bytes that is one of "of".            *)
LastOf(code, n, of) ==
  LET at == {i \in 0 .. (n - 1) : code[i] \in of}
  IN  IF at = {} THEN NoPrefix ELSE code[Max(at)]

-----------------------------------------------------------------------------
(* The ModR/M byte, the SIB byte if there is one and the displacement, from *)
(* "at" on, with "remaining" bytes left for them.                           *)
HasSib(modrm) == modrm < \hC0 /\ Rm(modrm) = 4

(* The bug LengthIsEncoded guards against: no displacement behind a SIB     *)
(* byte without a base.                                                     *)
DispSizeWithoutSib(modrm, sib) ==
  CASE Mod(modrm) = 1 -> 1
    [] (Mod(modrm) = 0 /\ Rm(modrm) = 5) \/ Mod(modrm) = 2 -> 4
    [] OTHER -> 0
DispSize(modrm, sib) ==
  CASE Mod(modrm) = 1 -> 1
    [] (Mod(modrm) = 0 /\ Rm(modrm) = 5) \/ Mod(modrm) = 2 -> 4
    [] Mod(modrm) = 0 /\ HasSib(modrm) /\ sib % 8 = 5 -> 4
    [] OTHER -> 0

(* The bug FixedPartWithin guards against: the displacement is not held     *)
(* against what remains.                                                    *)
OperandUnbounded(code, at, remaining) ==
  LET modrm == code[at]
      sib == IF HasSib(modrm) THEN 2 ELSE 1
  IN  [ok |-> remaining >= sib, has_modrm |-> TRUE, modrm |-> modrm,
       next |-> at + sib + DispSize(modrm, code[at + 1])]

Operand(code, at, remaining) ==
  LET modrm == code[at]
      size == (IF HasSib(modrm) THEN 2 ELSE 1) + DispSize(modrm, code[at + 1])
  IN  [ok |-> remaining > 0 /\ remaining >= size,
       has_modrm |-> TRUE, modrm |-> modrm, next |-> at + size]
NoOperand(at) == [ok |-> TRUE, has_modrm |-> FALSE, modrm |-> 0, next |-> at]

-----------------------------------------------------------------------------
(* One-byte opcodes.  C4 and C5, which also start a VEX instruction, are   *)
(* followed by a ModR/M byte unless the next byte could be one of a        *)
(* register.                                                               *)
op1_modrm == {\hFF, \h63, \h69, \h6B, \hC0, \hC1, \hC6, \hC7, \hD0, \hD1,
              \hD2, \hD3, \hF6, \hF7, \hFE}
HasModrm1(op) ==
  \/ Row(op) = 8 \/ op \in op1_modrm
  \/ Row(op) < 4 /\ Column(op) \in (0 .. 3) \cup (8 .. 11)
  \/ Row(op) = 13 /\ Column(op) >= 8

Reserved1(op, modrm) ==
  LET mod == Mod(modrm)  reg == Reg(modrm)
  IN  \/ op \in {\hC6, \hC7} /\ ~(reg = 0 \/ modrm = \hF8)
      \/ op = \h8F /\ reg # 0
      \/ op = \hFE /\ reg >= 2
      \/ op = \hFF /\ (reg = 7 \/ (mod = 3 /\ reg \in {3, 5}))
      \/ op = \h8C /\ reg >= 6
      \/ op = \h8E /\ (reg = 1 \/ reg >= 6)
      \/ op = \h8D /\ mod = 3
      \/ op = \hD9 /\ \/ reg = 1 /\ mod # 3
                      \/ modrm \in (\hD1 .. \hD7) \cup {\hE2, \hE3, \hE6, \hE7, \hEF}
      \/ op = \hDA /\ modrm >= \hE0 /\ modrm # \hE9
      \/ op = \hDB /\ \/ reg \in {4, 6} /\ mod # 3
                      \/ modrm \in (\hE5 .. \hE7) \cup (\hF8 .. \hFF)
      \/ op = \hDD /\ ((reg = 5 /\ mod # 3) \/ Row(modrm) = 15)
      \/ op = \hDE /\ modrm \in (\hD8 .. \hDF) \ {\hD9}
      \/ op = \hDF /\ modrm \in (\hE1 .. \hE7) \cup (\hF8 .. \hFF)
      \/ op \in {\h06, \h07, \h0E, \h16, \h17, \h1E, \h1F, \h27, \h2F, \h37,
                 \h3F, \h60, \h61, \h62, \h82, \hCE, \hD4, \hD5, \hD6}

op1_imm32 == {\hE8, \hE9, \h68, \h81, \h69, \hA9, \hC7}
op1_imm8 == {\h6A, \h6B, \h80, \h82, \h83, \hA8, \hC0, \hC1, \hC6, \hCD,
             \hD4, \hD5, \hEB}
NotIn64Bit == {\hEA, \h9A}
(* The bytes of the immediate; rexW: the function takes the instruction to *)
(* have REX.W.                                                             *)
Immediate1(op, modrm, p, rexW) ==
  CASE Row(op) = 11 /\ Column(op) >= 8 ->
         IF rexW THEN 8 ELSE IF OPSIZE \in p.seen THEN 2 ELSE 4
    [] \/ op \in op1_imm32
       \/ Row(op) < 4 /\ Column(op) \in {5, 13}
       \/ op = \hF7 /\ Reg(modrm) = 0 -> IF OPSIZE \in p.seen THEN 2 ELSE 4
    [] \/ Row(op) = 7 \/ (Row(op) \in {11, 14} /\ Column(op) < 8)
       \/ Row(op) < 4 /\ Column(op) \in {4, 12}
       \/ op = \hF6 /\ Reg(modrm) <= 1
       \/ op \in op1_imm8 -> 1
    [] Row(op) = 10 /\ Column(op) < 4 -> IF ADDRSIZE \in p.seen THEN 4 ELSE 8
    [] op \in {\hC2, \hCA} -> 2
    [] op = \hC8 -> 3
    [] OTHER -> 0

-----------------------------------------------------------------------------
(* Opcodes behind 0F.                                                       *)
HasModrm2(op) ==
  \/ op < 4 \/ op \in {\h0D, \hFF}
  \/ Row(op) \in {1, 2, 4, 5, 6, 9, 11, 13, 14, 15}
  \/ Row(op) = 7 /\ op # \h77
  \/ Row(op) = 12 /\ Column(op) < 8
  \/ Row(op) = 10 /\ op % 8 >= 3

Immediate2(op, imm16) ==
  CASE Row(op) = 8 -> 4
    [] op \in (\h70 .. \h73) \cup {\hA4, \hAC, \hBA, \hC2, \hC4, \hC5, \hC6} -> 1
    [] op = \h78 /\ imm16 -> 2
    [] OTHER -> 0

invalid_op2 == {\h04, \h0A, \h0C, \h7A, \h7B, \h36, \h39}

(* 0F 01 with a register: each group of encodings by its reg field.        *)
Reserved01(m, p) ==
  LET rm == Rm(m)
  IN  IF Mod(m) # 3 THEN REP \notin p.seen /\ Reg(m) = 5
      ELSE \/ /\ p.has \cap {OPSIZE, REPNE, REP} # {}
              /\ m \in (\hC0 .. \hC5) \cup (\hC8 .. \hCB) \cup (\hCF .. \hD1)
                       \cup (\hD4 .. \hD7) \cup {\hEE, \hEF, \hFA, \hFB}
           \/ Reg(m) = 0 /\ rm >= 6
           \/ Reg(m) = 1 /\ rm \in 4 .. 6
           \/ Reg(m) = 2 /\ rm \in {2, 3}
           \/ /\ Reg(m) = 5 /\ rm < 6
              /\ REP \notin p.seen \/ (REP \in p.has /\ rm \notin {0, 2})
           \/ Reg(m) = 7 /\ rm > 5

ReservedC7(m, simd) ==
  LET reg == Reg(m)
  IN  CASE simd = REPNE -> Mod(m) = 3 \/ reg # 1
        [] simd = OPSIZE -> IF Mod(m) = 3 THEN reg <= 5 ELSE reg \notin {1, 6}
        [] simd = REP -> IF Mod(m) = 3 THEN reg <= 6 ELSE reg \notin {1, 6}
        [] simd = NoPrefix -> IF Mod(m) = 3 THEN reg <= 5 ELSE reg \in {0, 2}
        [] OTHER -> FALSE

ReservedAE(m, simd) ==
  LET reg == Reg(m)
  IN  CASE simd = NoPrefix -> Mod(m) = 3 /\ reg <= 4
        [] simd = REPNE -> ~(Mod(m) = 3 /\ reg = 6)
        [] simd = OPSIZE -> reg < 6 \/ (Mod(m) = 3 /\ reg = 7)
        [] simd = REP -> reg \notin {4, 6} /\ ~(Mod(m) = 3 /\ reg = 5)
        [] OTHER -> FALSE

ReservedMmx(op, m, simd) ==
  /\ Row(op) >= 13 /\ Column(op) # 0 /\ op # \hFF
  /\ IF Column(op) = 6 /\ Row(op) # 15
       THEN simd = NoPrefix \/ (Row(op) = 13 /\ simd \in {REP, REPNE} /\ Mod(m) # 3)
       ELSE simd \in {REP, REPNE} \/ (Column(op) = 7 /\ Row(op) # 14 /\ Mod(m) # 3)
ReservedRegister(op, operand, p) ==
  /\ operand.has_modrm /\ Mod(operand.modrm) = 3
  /\ \/ op \in {\hB2, \hB4, \hB5, \hC3, \hE7, \h2B}
     \/ OPSIZE \in p.has /\ op \in {\h12, \h16}
     \/ p.has \cap {REP, REPNE} = {} /\ op \in {\h13, \h17}

(* The code has another two tests of 71, 72 and 73 behind the one that has *)
(* already answered for them; they are never reached.                      *)
Reserved2(op, operand, p) ==
  LET m == operand.modrm
      register == Mod(m) = 3
      repeats == p.simd \in {REP, REPNE}
  IN  CASE op \in invalid_op2 -> TRUE
        [] op = \hC7 -> ReservedC7(m, p.simd)
        [] op = \h00 -> Reg(m) >= 6
        [] op = \h01 -> Reserved01(m, p)
        [] op \in {\h1A, \h1B} -> register
        [] op \in {\h20, \h22} -> Reg(m) = 1 \/ Reg(m) >= 5
        [] op \in (\h24 .. \h27) \cup (\h3B .. \h3F) -> TRUE
        [] Row(op) = 5 ->
             \/ op = \h50 /\ ~register
             \/ OPSIZE \in p.has /\ op \in {\h52, \h53}
             \/ REP \in p.has /\ op \in {\h50} \cup (\h54 .. \h57)
             \/ REPNE \in p.seen /\ op \in {\h50, \h5B} \cup (\h52 .. \h57)
        [] Row(op) = 6 ->
             \/ p.has \cap {OPSIZE, REP, REPNE} = {} /\ op \in {\h6C, \h6D}
             \/ REP \in p.has /\ op # \h6F
             \/ REPNE \in p.seen
        [] op \in {\h78, \h79} ->
             \/ p.simd = OPSIZE /\ op = \h78 /\ ~(register /\ Reg(m) = 0)
             \/ p.simd \in {OPSIZE, REPNE} /\ ~register
             \/ p.simd = REP
        [] op \in {\h7C, \h7D} ->
             REP \in p.has \/ p.has \cap {OPSIZE, REP, REPNE} = {}
        [] op \in {\h7E, \h7F} -> REPNE \in p.seen
        [] op \in \h71 .. \h73 ->
             p.has \cap {REP, REPNE} # {} \/ m <= \hCF \/ m \in \hE8 .. \hEF
        [] op = \hA6 -> m \notin {\hC0, \hC8, \hD0}
        [] op = \hA7 -> ~(register /\ Reg(m) <= 5 /\ Rm(m) = 0)
        [] op = \hAE -> ReservedAE(m, p.simd)
        [] op = \hB8 -> REP \notin p.seen
        [] op = \hBA -> Reg(m) <= 3
        [] op = \hD0 -> p.simd \in {NoPrefix, REP}
        [] op = \hE0 -> repeats
        [] op = \hF0 -> IF p.simd = REPNE THEN register ELSE TRUE
        [] OTHER ->
             IF p.has \cap {REP, REPNE} # {}
               THEN \/ op \in \h13 .. \h17 /\ ~(op = \h16 /\ REP \in p.has)
                    \/ op \in {\h28, \h29, \h2E, \h2F, \h74, \h75, \h76}
             ELSE IF op \in \hC3 .. \hC6
               THEN \/ op = \hC5 /\ ~register
                    \/ repeats
                    \/ op = \hC3 /\ p.simd = OPSIZE
             ELSE ReservedMmx(op, m, p.simd) \/ ReservedRegister(op, operand, p)

-----------------------------------------------------------------------------
(* Opcodes behind 0F 38 and 0F 3A.                                          *)
Reserved38(op, m, simd) ==
  LET register == Mod(m) = 3
  IN  CASE op = \h36 -> TRUE
        [] op <= \h0B \/ op \in \h1C .. \h1E -> simd \in {REP, REPNE}
        [] op \in \hC8 .. \hCD -> simd # NoPrefix
        [] \/ op \in {\h10, \h14, \h15, \h17, \h28, \h29, \h2B, \h40, \h41, \hCF}
           \/ op \in (\h20 .. \h25) \cup ((\h30 .. \h3F) \ {\h36}) \cup (\hDB .. \hDF) ->
             simd # OPSIZE
        [] op \in {\h2A, \hF5, \hF8} \cup (\h80 .. \h82) -> register \/ simd # OPSIZE
        [] op \in {\hF0, \hF1} ->
             simd = REP \/ (register /\ simd \in {NoPrefix, OPSIZE})
        [] op = \hF6 -> simd = REPNE \/ (register /\ simd = NoPrefix)
        [] op = \hF9 -> register \/ simd # NoPrefix
        [] OTHER -> TRUE

Reserved3A(op, simd) ==
  CASE \/ op \in {\h44, \hCE, \hCF, \hDF}
       \/ op \in (\h08 .. \h0E) \cup (\h14 .. \h17) \cup (\h20 .. \h22)
                \cup (\h40 .. \h42) \cup (\h60 .. \h63) -> simd # OPSIZE
    [] op \in {\h0F, \hCC} -> simd # NoPrefix
    [] OTHER -> TRUE

-----------------------------------------------------------------------------
(* Where a LOCK prefix is allowed: instructions that write to memory what   *)
(* they have read there.                                                    *)
two_opcodes == {\hB0, \hB1, \hB3, \hBB, \hC0, \hC1}
(* The bug LockedWritesMemory guards against: of the eight arithmetic       *)
(* instructions CMP, which writes nothing, is not left out.                 *)
LockableCmp(opcode_size, op, operand) ==
  /\ operand.has_modrm /\ Mod(operand.modrm) # 3
  /\ opcode_size = 1 /\ Row(op) < 4 /\ op % 8 < 2
Lockable(opcode_size, op, operand) ==
  LET reg == Reg(operand.modrm)
  IN  /\ operand.has_modrm /\ Mod(operand.modrm) # 3
      /\ \/ /\ opcode_size = 1
            /\ \/ op \in {\h86, \h87}
               \/ Row(op) < 4 /\ op % 8 < 2 /\ op < \h38
               \/ op \in \h80 .. \h83 /\ reg # 7
               \/ op \in {\hFE, \hFF} /\ reg < 2
               \/ op \in {\hF6, \hF7} /\ reg \in {2, 3}
         \/ /\ opcode_size = 2
            /\ \/ op \in two_opcodes \cup {\hAB}
               \/ op = \hBA /\ reg # 4
               \/ op = \hC7 /\ reg = 1
=============================================================================
