------------------------- MODULE InstructionOperands -------------------------
(***************************************************************************)
(* The operands nmd_x86_decode says an instruction has, in 64-bit mode: of *)
(* which kind they are, what is done to them, and whether the instruction  *)
(* only implies them.  Which register one is, and what a memory operand    *)
(* adds up, are left out, and so is num_operands.                          *)
(*                                                                         *)
(* An instruction i: [map, op, modrm, p], p its prefixes (see Decoder).    *)
(***************************************************************************)
EXTENDS X86Encoding, Sequences

(* NMD_X86_OPERAND_ACTION; UNSAID where the code leaves it zero.            *)
UNSAID == {}
READ == {"r"}
WRITE == {"w"}
READWRITE == {"r", "w"}
CONDWRITE == {"r", "cw"}

Register(action) == [type |-> "reg", action |-> action, implicit |-> FALSE]
Memory(action) == [type |-> "mem", action |-> action, implicit |-> FALSE]
Immediate(action) == [type |-> "imm", action |-> action, implicit |-> FALSE]
None(action) == [type |-> "none", action |-> action, implicit |-> FALSE]
Implicit(operand) == [operand EXCEPT !.implicit = TRUE]

(* What ModR/M stands for: a register when its mod field is 3 (E), which    *)
(* _nmd_decode_modrm_upper32 does not ask; the other one is a register (G). *)
E(i, action) == IF Mod(i.modrm) = 3 THEN Register(action) ELSE Memory(action)
EG(i, a0, a1) == <<E(i, a0), Register(a1)>>
GE(i, a0, a1) == <<Register(a0), E(i, a1)>>

IP(action) == Implicit(Register(action))
SP == Implicit(Register(READWRITE))
Pushes == <<SP, Implicit(Memory(WRITE))>>
Pops == <<SP, Implicit(Memory(READ))>>

-----------------------------------------------------------------------------
(* One-byte opcodes.                                                        *)
(* An escape opcode names two registers even where one operand is memory.   *)
EscapeOperands(op, m) ==
  IF \/ Mod(m) # 3 \/ op \in {\hD8, \hDC, \hDD}
     \/ op = \hD9 /\ Column(m) = 12
     \/ op \in {\hDA, \hDB} /\ Column(m) <= 13
     \/ op = \hDB /\ m >= \hE8
     \/ op = \hDE /\ m # \hD9
     \/ op = \hDF /\ m # \hE0
    THEN <<Implicit(Register(UNSAID)), Register(UNSAID)>>
    ELSE <<>>

PortOperands(op) ==
  CASE op \in {\hE4, \hE5} -> <<Register(WRITE), Immediate(READ)>>
    [] op \in {\hE6, \hE7} -> <<Immediate(READ), Register(WRITE)>>
    [] op \in {\hEC, \hED} -> <<Register(WRITE), Register(READ)>>
    [] op \in {\hEE, \hEF} -> <<Register(READ), Register(WRITE)>>

(* Rows 0 to 3, by the column: Eb,Gb  Ev,Gv  Gb,Eb  Gv,Ev  AL,Ib  eAX,Iz;    *)
(* the last of the eight instructions is CMP.                               *)
ArithmeticOperands(i) ==
  LET a0 == IF i.op >= \h38 THEN READ ELSE READWRITE
  IN  CASE i.op % 8 <= 1 -> EG(i, a0, READ)
        [] i.op % 8 \in {2, 3} -> GE(i, a0, READ)
        [] OTHER -> <<Register(a0), Immediate(READ)>>

(* From 8F on.                                                              *)
UpperOperands(i) ==
  LET op == i.op
      reg == Reg(i.modrm)
  IN  CASE op = \h8F -> <<E(i, WRITE)>>
        [] op \in \h91 .. \h97 -> <<Register(READWRITE), Register(READWRITE)>>
        [] op \in {\hA0, \hA1} -> <<Register(WRITE), Memory(READ)>>
        [] op \in {\hA2, \hA3} -> <<Memory(WRITE), Register(READ)>>
        [] op \in {\hA8, \hA9} -> <<Register(UNSAID), Immediate(UNSAID)>>
        [] op \in {\hC0, \hC1, \hD0, \hD1} -> <<E(i, READWRITE), Immediate(UNSAID)>>
        [] op \in {\hD2, \hD3} -> <<E(i, READWRITE), Register(UNSAID)>>
        [] op \in {\hC6, \hC7} ->
             IF reg = 0 THEN <<E(i, WRITE), Immediate(UNSAID)>> ELSE <<Immediate(WRITE)>>
        [] op = \hC8 -> <<Immediate(UNSAID), Immediate(UNSAID)>>
        [] op \in \hD8 .. \hDF -> EscapeOperands(op, i.modrm)
        [] Row(op) = 14 ->
             IF op % 8 < 4 THEN <<Immediate(UNSAID)>> ELSE PortOperands(op)
        [] op \in {\hF6, \hF7, \hFE} -> <<E(i, READWRITE)>>
        [] op = \hFF -> <<E(i, IF reg >= 2 THEN READ ELSE READWRITE)>>
        [] OTHER -> <<>>

Explicit1(i) ==
  LET op == i.op
  IN  CASE op \in {\h84, \h85} -> EG(i, UNSAID, UNSAID)
        [] op \in {\h86, \h87} -> EG(i, READWRITE, READWRITE)
        [] op \in {\h88, \h89, \h8C} -> EG(i, WRITE, READ)
        [] op \in {\h8A, \h8B, \h8E, \h63} -> GE(i, WRITE, READ)
        [] op \in \h80 .. \h83 -> <<E(i, READWRITE), Immediate(UNSAID)>>
        [] op = \h90 /\ i.p.rexB -> <<Register(UNSAID), Register(UNSAID)>>
        [] Row(op) < 4 -> ArithmeticOperands(i)
        [] op \in {\h69, \h6B} -> GE(i, WRITE, READ) \o <<Immediate(READ)>>
        [] op = \h8D -> <<Register(WRITE), Memory(READ)>>
        [] OTHER -> UpperOperands(i)

(* Those that name all they touch come first: so POP by register is         *)
(* answered for with PUSH.  FF /6 pushes what is taken for memory.          *)
Operands1(i) ==
  LET op == i.op
  IN  CASE Row(op) = 11 -> <<Register(WRITE), Immediate(READ)>>
        [] Row(op) = 5 -> <<Register(READ)>> \o Pushes
        [] Row(op) = 7 \/ op = \hE9 -> <<Immediate(READ), IP(READWRITE)>>
        [] op \in {\h68, \h6A} -> <<Immediate(READ)>> \o Pushes
        [] op \in {\hCC, \hF1} -> <<IP(WRITE)>>
        [] op = \hCD -> <<Immediate(READ), IP(WRITE)>>
        [] op = \hE8 -> <<Immediate(READ), IP(READWRITE)>> \o Pushes
        [] op \in {\hC3, \hCB, \hCF} -> <<IP(WRITE)>> \o Pops
        [] op \in {\hC2, \hCA} -> <<Immediate(READ), IP(WRITE)>> \o Pops
        [] op = \hFF /\ Reg(i.modrm) = 6 -> <<Memory(READ)>> \o Pushes
        [] op = \h9C -> Pushes
        [] op = \h9D -> Pops
        [] op = \hC9 -> <<SP, Implicit(Register(READWRITE)), Implicit(Memory(READ))>>
        [] op = \hD7 -> <<Implicit(Register(WRITE)), Implicit(Memory(READ))>>
        [] op = \h9E -> <<Implicit(Register(READ))>>
        [] op = \h9F -> <<Implicit(Register(WRITE))>>
        [] op \in {\h98, \h99} -> <<Implicit(Register(WRITE)), Implicit(Register(READ))>>
        [] OTHER -> Explicit1(i)

-----------------------------------------------------------------------------
(* Opcodes behind 0F.                                                       *)
(* MMX and SSE.                                                             *)
VectorOperands(i) ==
  LET op == i.op
      simd == i.p.simd
  IN  CASE op = \h17 -> <<Memory(WRITE), Register(READ)>>
        [] op \in {\h29, \h2B, \h11, \h13} \/ (op = \h7F /\ simd # NoPrefix) -> EG(i, WRITE, READ)
        [] op = \h2D /\ simd = OPSIZE -> <<E(i, WRITE), E(i, READ)>>
        [] op = \h50 -> <<Register(WRITE), Register(READ)>>
        [] \/ op \in {\h10, \h12} \cup (\h14 .. \h16) \cup {\h28, \h2A, \h2C, \h2E, \h2F}
           \/ op \in \h51 .. \h5F
           \/ op = \h2D /\ simd # OPSIZE
           \/ op = \h7E /\ simd = REP -> GE(i, WRITE, READ)
        [] (op = \h7E /\ simd # REP) \/ (op = \h7F /\ simd = NoPrefix) -> EG(i, WRITE, READ)
        [] op \in (\h60 .. \h6D) \cup (\h74 .. \h76) -> GE(i, READWRITE, READ)
        [] op = \h70 -> GE(i, WRITE, READ) \o <<Immediate(UNSAID)>>
        [] op \in \h71 .. \h73 ->
             <<IF simd = OPSIZE THEN Register(READWRITE) ELSE E(i, READWRITE), Immediate(READ)>>
        [] op = \h78 /\ simd # NoPrefix ->
             (IF simd = REPNE THEN <<Register(WRITE), Register(READ), Immediate(UNSAID)>>
                              ELSE <<Register(WRITE), Immediate(READ)>>)
             \o <<Immediate(UNSAID)>>
        [] op = \h78 /\ simd = NoPrefix -> EG(i, WRITE, READ)
        [] op \in {\hC2, \hC6} -> GE(i, READWRITE, READ) \o <<Immediate(UNSAID)>>
        [] op = \hC4 -> GE(i, WRITE, READ) \o <<Immediate(UNSAID)>>
        [] op = \hC5 -> <<Register(WRITE), Register(READ), Immediate(UNSAID)>>
        [] op = \hE7 \/ (op = \hD6 /\ simd = OPSIZE) -> EG(i, WRITE, READ)
        [] OTHER -> GE(i, WRITE, READ)

(* Groups 6 and 7, LAR, LSL, prefetches, SETcc, control registers.          *)
SystemOperands(i) ==
  LET op == i.op
      reg == Reg(i.modrm)
  IN  CASE op = \h00 -> <<E(i, IF reg >= 2 THEN READ ELSE WRITE)>>
        [] op = \h01 ->
             IF Mod(i.modrm) = 3 /\ reg \notin {4, 6} THEN <<>>
             ELSE <<E(i, IF reg \in {0, 1, 4} THEN WRITE ELSE READ)>>
        [] op \in {\h02, \h03} -> GE(i, WRITE, READ)
        [] op = \h0D -> <<E(i, READ)>>
        [] Row(op) = 9 -> <<E(i, WRITE)>>
        [] op \in \h20 .. \h23 -> <<Register(WRITE), Register(READ)>>

(* 0F BA: that BT only reads, and the others write what they have read, is  *)
(* put down first and overwritten.  To the code a LOCK is a prefix like     *)
(* those that make 0F C7 another instruction.                               *)
Explicit2(i) ==
  LET op == i.op
      reg == Reg(i.modrm)
      register == Mod(i.modrm) = 3
  IN  CASE op \in {\h00, \h01, \h02, \h03, \h0D} \/ Row(op) = 9 \/ op \in \h20 .. \h23 ->
             SystemOperands(i)
        [] op \in {\hA3, \hAB, \hB3, \hBB} -> EG(i, READWRITE, READ)
        [] op \in {\hA4, \hAC} -> EG(i, READWRITE, READ) \o <<Immediate(UNSAID)>>
        [] op \in {\hA5, \hAD} -> EG(i, READWRITE, READ) \o <<Register(UNSAID)>>
        [] op \in {\hAF, \hB8} -> GE(i, READWRITE, READ)
        [] op = \hBA -> <<E(i, WRITE), Immediate(READ)>>
        [] op \in (\hB4 .. \hB7) \cup (\hBC .. \hBF) \/ Row(op) = 4 ->
             GE(i, WRITE, READ)
        [] op \in {\hB0, \hB1} -> EG(i, CONDWRITE, READ)
        [] op \in {\hC0, \hC1} -> EG(i, READWRITE, READWRITE)
        [] op = \hB2 -> <<Register(WRITE), Memory(READ)>>
        [] op = \hC3 -> <<Memory(WRITE), Register(READ)>>
        [] op = \hC7 ->
             <<E(i, CASE reg = 1 -> CONDWRITE
                      [] reg # 1 /\ (register \/ i.p.simd = NoPrefix) -> WRITE
                      [] OTHER -> READ)>>
        [] op \in \hC8 .. \hCF -> <<Register(READWRITE)>>
        [] op = \hFF -> GE(i, WRITE, READ)
        [] \/ op \in (\h10 .. \h17) \cup (\h28 .. \h2F) \cup {\hC2, \hC4, \hC5, \hC6}
           \/ Row(op) \in {5, 6, 7, 13, 14, 15} /\ op \notin {\h77, \hFF} -> VectorOperands(i)
        [] OTHER -> <<>>

Operands2(i) ==
  LET op == i.op
      uses(action) == Implicit(Register(action))
  IN  CASE op = \h05 -> <<IP(WRITE), uses(WRITE), uses(WRITE), uses(WRITE), uses(WRITE)>>
        [] op = \h07 -> <<IP(WRITE), uses(READ), uses(READ), uses(WRITE), uses(WRITE)>>
        [] op = \h34 -> <<IP(WRITE), uses(WRITE)>>
        [] op = \h35 -> <<IP(WRITE), uses(WRITE), uses(READ), uses(READ)>>
        [] Row(op) = 8 -> <<Immediate(READ), IP(READWRITE)>>
        [] op = \h31 -> <<uses(WRITE), uses(WRITE)>>
        [] op = \hA2 -> <<uses(READWRITE), uses(WRITE), uses({"w", "cr"}), uses(WRITE)>>
        [] op \in {\hA0, \hA8} -> <<Register(READ)>> \o Pushes
        [] op \in {\hA1, \hA9} -> <<Register(WRITE)>> \o Pops
        [] op = \h30 -> <<uses(READ), uses(READ), uses(READ)>>
        [] op \in {\h32, \h33} -> <<uses(WRITE), uses(WRITE), uses(READ)>>
        [] op = \h37 -> <<uses(CONDWRITE), uses(READ)>>
        [] op = \hAA -> <<IP(WRITE)>>
        [] OTHER -> Explicit2(i)

-----------------------------------------------------------------------------
(* Opcodes behind 0F 38 and 0F 3A.  The actions are there for all of them,  *)
(* operands not for F5, F8, F9, CE and CF.                                  *)
Operands38(i) ==
  LET op == i.op
      converts == i.p.simd = REPNE \/ {OPSIZE, REPNE} \subseteq i.p.seen
  IN  CASE Row(op) = 8 -> <<Register(READWRITE), Memory(READ)>>
        [] \/ op = \hF6 /\ i.p.simd = NoPrefix
           \/ op = \hF1 /\ ~converts -> EG(i, READWRITE, READ)
        [] \/ Row(op) < 15 /\ Row(op) # 8
           \/ op = \hF0
           \/ op = \hF1 /\ converts
           \/ op = \hF6 /\ i.p.simd # NoPrefix -> GE(i, READWRITE, READ)
        [] OTHER -> <<None(READWRITE), None(READ)>>
Operands3A(i) ==
  (CASE Row(i.op) = 1 -> EG(i, READWRITE, READ)
     [] Row(i.op) \in {0, 2, 4, 6} \/ i.op \in {\hCC, \hDF} -> GE(i, READWRITE, READ)
     [] OTHER -> <<None(READWRITE), None(READ)>>)
  \o <<Immediate(READ)>>

(* NMD_X86_DECODER_FLAGS_OPERANDS                                           *)
OperandsOf(i) ==
  CASE i.map = "DEFAULT" -> Operands1(i)
    [] i.map = "0F" -> Operands2(i)
    [] i.map = "0F38" -> Operands38(i)
    [] i.map = "0F3A" -> Operands3A(i)
    [] i.map = "OTHER" -> <<>>
=============================================================================
