---------------------------- MODULE Disassemblers ----------------------------
(***************************************************************************)
(* The code the disassemblers of nmd_assembly.h may be given, laid down    *)
(* byte by byte: prefixes, an opcode, a ModR/M and a SIB byte, and behind  *)
(* them whatever follows.  The code is complete when it holds all an       *)
(* instruction may look at; what both functions then say of it is compared *)
(* with each other and with the instruction format.                        *)
(***************************************************************************)
EXTENDS X86Encoding, FiniteSets, Sequences

CONSTANTS
  Contexts,      (* [padding, size, prefixes]: how many segment prefixes,     *)
                 (* which change nothing, go first; what is said to be left   *)
                 (* of the buffer; how many more prefixes may follow.         *)
  PrefixBytes,   (* Those prefixes.                                           *)
  Opcodes,       (* The opcodes, with their escape bytes: sequences.          *)
  Operands(_),   (* The ModR/M and SIB bytes, by the prefixes not used.       *)
  Filler         (* The byte that follows.                                    *)

ASSUME DisassemblersAssumption ==
  /\ \A c \in Contexts :
       /\ c.padding \in 0 .. MaximumLength /\ c.prefixes \in Nat /\ c.size \in Nat
       /\ \A left \in 0 .. c.prefixes : Operands(left) \subseteq Seq(Byte)
  /\ \A b \in PrefixBytes : b \in Byte /\ IsPrefix(b)
  /\ Opcodes \subseteq Seq(Byte)
  /\ Filler \in Byte

Format == INSTANCE InstructionFormat
Ldisasm == INSTANCE LengthDisassembler
Decode == INSTANCE Decoder

(* What the functions returned; more < 0 when the code is there.             *)
VARIABLES bytes, size, more, length, decoded
vars == <<bytes, size, more, length, decoded>>

(* PAGE_SIZE bytes is what EptHook::add_function_hook says it has; smaller  *)
(* sizes cut the instruction off.                                           *)
Followed(code) == [i \in 0 .. (2 * MaximumLength) |->
                     IF i < Len(code) THEN code[i + 1] ELSE Filler]
Memory == Followed(bytes)

Init ==
  \E c \in Contexts :
    /\ bytes = [i \in 1 .. c.padding |-> \h3E]
    /\ size = c.size
    /\ more = c.prefixes
    /\ length = 0 /\ decoded = Decode!Invalid

PutPrefix(b) ==
  /\ more > 0
  /\ bytes' = Append(bytes, b)
  /\ more' = more - 1
  /\ UNCHANGED <<size, length, decoded>>

Disassemble(opcode) ==
  /\ more >= 0
  /\ \E o \in Operands(more) : bytes' = bytes \o opcode \o o
  /\ more' = -1
  /\ length' = Ldisasm!ldisasm(Memory', size)
  /\ decoded' = Decode!nmd_x86_decode(Memory', size)
  /\ UNCHANGED size

Next == \/ \E b \in PrefixBytes : PutPrefix(b)
        \/ \E o \in Opcodes : Disassemble(o)
Spec == Init /\ [][Next]_vars

-----------------------------------------------------------------------------
(* Where the functions are known to go astray.  The code is read by its     *)
(* parts: n prefixes, of which "seen" are there, and the opcode.            *)
Complete == more < 0

n == Format!Front(Memory)
seen == {Memory[i] : i \in 0 .. (n - 1)}
Starts(opcode) == \A i \in 1 .. Len(opcode) : Memory[n + i - 1] = opcode[i]
AnyRexW == \E b \in seen : RexW(b)
Iz == {\h05, \h0D, \h15, \h1D, \h25, \h2D, \h35, \h3D, \h68, \h69, \h81, \hA9, \hC7, \hF7}

(* Neither length follows the manual:                                       *)
(*  - a near branch does not get shorter by an operand size prefix;         *)
(*  - REX.W overrides one, and a REX counts only in front of the opcode;     *)
(*  - F7 /1 is TEST, as F7 /0 is;                                           *)
(*  - a move to or from a control register has no memory operand.           *)
Misread ==
  LET op == Memory[n]
      rexW == n > 0 /\ RexW(Memory[n - 1])
  IN  \/ op \in {\hE8, \hE9} /\ OPSIZE \in seen
      \/ op \in Iz /\ OPSIZE \in seen /\ rexW
      \/ op \in \hB8 .. \hBF /\ AnyRexW /\ ~rexW
      \/ op = \hF7 /\ Reg(Memory[n + 1]) = 1
      \/ op = \h0F /\ Memory[n + 1] \in \h20 .. \h23 /\ Mod(Memory[n + 2]) # 3

(* The bytes of a 3DNow! instruction behind its opcode are not counted by   *)
(* ldisasm.                                                                 *)
ThreeDNow == Starts(<<\h0F, \h0F>>)

(* A VEX instruction: which of them have an immediate is decided by the     *)
(* opcode without its map, and VZEROUPPER is given operands.                *)
Vex == Memory[n] \in {\hC4, \hC5}
VexMisread ==
  LET map == IF Starts(<<\hC5>>) THEN 1 ELSE Memory[n + 1] % 32
      op == Memory[n + IF Starts(<<\hC5>>) THEN 2 ELSE 3]
      counted == Starts(<<\hC4>>)
                 /\ op \in {\h0C, \h0D, \h40, \h41, \h17, \h21, \h42}
  IN  Vex /\ \/ map = 1 /\ op = \h77
             \/ counted # (Format!EncodedParts(Memory).immediate = 1)

-----------------------------------------------------------------------------
(* What is said of an encoding that differs from what is said of another:   *)
(*  - by mistake, POP by register reads it; TEST with 84 is one of the      *)
(*    arithmetic group; CMP with an immediate writes; FXCH and FCOMP behind  *)
(*    DD, DE and DF do to the flags what a computation does; a bit test      *)
(*    with an immediate does not read;                                       *)
(*  - rightly, IMUL with three operands does not read the first, and the     *)
(*    first operand of RET is the count if there is one.                     *)
Apart ==
  LET op == Memory[n]
      reg == Reg(Memory[n + 1])
  IN  \/ op \in (\h58 .. \h5F) \cup {\h84, \h69, \h6B, \hC2}
      \/ op \in \h80 .. \h83 /\ reg = 7
      \/ op \in {\hDD, \hDF} /\ reg = 1
      \/ op = \hDE /\ reg = 2
      \/ Starts(<<\h0F, \hBA>>)

(* What the decoder says of an instruction besides its length.              *)
Says(insn) == [id |-> insn.id, flags |-> insn.flags,
               access |-> IF insn.operands = <<>> THEN {} ELSE insn.operands[1].action]

(* One encoding for each of the ids that several have: the arithmetic       *)
(* instructions with a ModR/M byte, the groups, the short conditional       *)
(* jumps, the floating-point instructions on 32 bits of memory, and others. *)
CanonicalEncodings ==
  {<<"DEFAULT", 8 * k + 1, \hC0>> : k \in 0 .. 7}
    \cup {<<"DEFAULT", \hD1, \hC0 + 8 * k>> : k \in 0 .. 7}
    \cup {<<"DEFAULT", \hF7, \hC0 + 8 * k>> : k \in 2 .. 7}
    \cup {<<"DEFAULT", \hFF, \hC0 + 8 * k>> : k \in 0 .. 2}
    \cup {<<"DEFAULT", op, \h00>> : op \in \h70 .. \h7F}
    \cup {<<"DEFAULT", op, 8 * k>> : op \in {\hD8, \hDA}, k \in 0 .. 7}
    \cup {<<"DEFAULT", \hD9, m>> : m \in {\h00, \h10, \h18, \hC8}}
    \cup {<<"DEFAULT", \hDB, 8 * k>> : k \in 0 .. 3}
    \cup {<<"DEFAULT", op, \hC0>> : op \in {\h50, \h85, \h87, \h89, \h8F, \hC3, \hE9, \hEC}}
    \cup {<<"0F", op, \hC0>> : op \in {\hA8, \hAB, \hAC, \hB0, \hB3, \hB6, \hBB, \hBE, \hC0}}
Canonical ==
  {Says(Decode!Described([map |-> e[1], op |-> e[2], operand |-> [modrm |-> e[3]], length |-> 0],
                         Decode!Prefixes(Followed(<<>>), 0))) : e \in CanonicalEncodings}

-----------------------------------------------------------------------------
(* Properties. *)

(* What is not refused has the length the instruction format gives it: a   *)
(* hook is entered, and the rest of the function gone on with, between two  *)
(* instructions.  The decoder is one byte short of every VEX instruction.   *)
LengthIsEncoded ==
  Complete /\ ~Misread /\ ~VexMisread =>
    /\ length # 0 /\ ~ThreeDNow => length = Format!EncodedLength(Memory)
    /\ decoded.valid =>
         decoded.length = Format!EncodedLength(Memory) - IF Vex THEN 1 ELSE 0

(* The two functions of the file refuse the same code, but for instructions *)
(* that more than one of the prefixes would select, the opcodes 3DNow! and  *)
(* VEX have, and a buffer that ends within the prefixes.                    *)
SameVerdict ==
  /\ Complete
  /\ Cardinality(seen \cap {OPSIZE, REP, REPNE, LOCK}) <= 1
  /\ ~ThreeDNow /\ ~Vex /\ size >= n
  => (length = 0 <=> ~decoded.valid)

(* All but the immediate lies in what is left of the buffer, and within the *)
(* longest instruction there is; of the immediate neither function asks.    *)
(* A move to or from a control register may lack its last byte.             *)
FixedPartWithin ==
  /\ Complete /\ length # 0
  /\ ~Misread /\ ~VexMisread /\ ~ThreeDNow /\ size >= n
  => LET limit == Min({size, MaximumLength})
     IN  \/ Format!EncodedParts(Memory).fixed <= limit
         \/ limit - n = 2 /\ \E op \in \h20 .. \h23 : Starts(<<\h0F, op>>)

(* The encodings of an instruction differ in what its operands are, not in  *)
(* what it does: the decoder, which goes by the opcode in each of its       *)
(* tables, says the same of the flags and of the first operand for all the  *)
(* encodings it gives one id.                                               *)
EncodingsAgree ==
  Complete /\ decoded.valid /\ ~Apart =>
    \A c \in Canonical :
      c.id = decoded.id =>
        /\ c.flags = decoded.flags
        /\ {} \in {c.access, Says(decoded).access} \/ c.access = Says(decoded).access

(* What may be locked is an instruction that reads memory and writes it     *)
(* again, also by the table of the operands, which knows nothing of LOCK.   *)
(* The opcode of a VEX instruction is held against the same list.           *)
LockedWritesMemory ==
  Complete /\ decoded.valid /\ LOCK \in seen /\ ~Vex =>
    LET operand == decoded.operands[1]
    IN  /\ operand.type = "mem" /\ ~operand.implicit
        /\ {"w", "cw"} \cap operand.action # {}
        /\ "r" \in operand.action \/ Starts(<<\h0F, \hBA>>)

(* A branch whose target is a distance, and so is another one where the     *)
(* instruction is moved to (as add_function_hook does), says so: the id,    *)
(* the groups and the operands are three tables of the code.                *)
BranchIds ==
  {Decode!Jumps[k] : k \in DOMAIN Decode!Jumps}
    \cup {"JMP", "CALL", "LOOP", "LOOPE", "LOOPNE", "JRCXZ", "XBEGIN"}
BranchesMarked ==
  Complete /\ decoded.valid =>
    LET immediate == decoded.operands # <<>> /\ decoded.operands[1].type = "imm"
        branches == decoded.group \cap {Decode!UNCONDITIONAL, Decode!CONDITIONAL, Decode!JUMP,
                                        Decode!CALL} # {}
    IN  /\ Decode!RELATIVE \in decoded.group
             <=> (decoded.id \in BranchIds /\ immediate) \/ decoded.id = "LEA"
        /\ branches <=> decoded.id \in BranchIds \cup {"LJMP", "LCALL"}
=============================================================================
