------------------------ MODULE DisassemblersProofs ------------------------
(***************************************************************************)
(* Proofs about Disassemblers, for any bytes: any opcode, operand, prefix  *)
(* and rest of the buffer.  What the two functions of nmd_assembly.h work  *)
(* out of their tables is compared with the tables of the instruction      *)
(* format, first opcode map by opcode map, then as a whole.                *)
(***************************************************************************)
EXTENDS Disassemblers, FiniteSetTheorems, WellFoundedInduction, TLAPS

(* The three modules share the tables of X86Encoding.                       *)
LEMMA SamePrefix ==
  \A b : /\ Ldisasm!IsPrefix(b) <=> Format!IsPrefix(b)
         /\ Decode!IsPrefix(b) <=> Format!IsPrefix(b)
         /\ Ldisasm!RexW(b) <=> Format!RexW(b)
         /\ Decode!RexW(b) <=> Format!RexW(b)
         /\ RexW(b) <=> Format!RexW(b)
BY DEF Ldisasm!IsPrefix, Ldisasm!LegacyPrefixes, Ldisasm!IsRex, Ldisasm!RexW, Ldisasm!Row, Ldisasm!Column,
       Decode!IsPrefix, Decode!LegacyPrefixes, Decode!IsRex, Decode!RexW, Decode!Row, Decode!Column,
       Format!IsPrefix, Format!LegacyPrefixes, Format!IsRex, Format!RexW, Format!Row, Format!Column,
       RexW, IsRex, Row, Column,
       LOCK, REPNE, REP, OPSIZE, ADDRSIZE,
       Ldisasm!LOCK, Ldisasm!REPNE, Ldisasm!REP, Ldisasm!OPSIZE, Ldisasm!ADDRSIZE,
       Decode!LOCK, Decode!REPNE, Decode!REP, Decode!OPSIZE, Decode!ADDRSIZE,
       Format!LOCK, Format!REPNE, Format!REP, Format!OPSIZE, Format!ADDRSIZE

(* n prefixes lie in front of the opcode. *)
InFront(code, k) ==
  /\ k \in 0 .. 15
  /\ \A j \in 0 .. (k - 1) : Format!IsPrefix(code[j])
  /\ k = 15 \/ ~Format!IsPrefix(code[k])

LEMMA FrontExists ==
  ASSUME NEW code
  PROVE  \E k : InFront(code, k)
<1> DEFINE S == {k \in 0 .. 15 : k = 15 \/ ~Format!IsPrefix(code[k])}
           Before == {ss \in Nat \X Nat : ss[1] < ss[2]}
<1>1. IsWellFoundedOn(Before, Nat)
  BY NatLessThanWellFounded DEF OpToRel
<1>2. S \subseteq Nat /\ S # {}
  <2>1. 15 \in S
    OBVIOUS
  <2> QED
    BY <2>1
<1>3. PICK m \in S : \A k \in S : ~(<<k, m>> \in Before)
  BY <1>1, <1>2, WFMin
<1>4. ASSUME NEW j \in 0 .. (m - 1)
      PROVE  Format!IsPrefix(code[j])
  <2>1. j \in Nat /\ j < m /\ j \in 0 .. 15 /\ m \in Nat
    BY <1>3, <1>2
  <2>2. j \notin S
    BY <1>3, <2>1
  <2> QED
    BY <2>1, <2>2
<1> QED
  BY <1>3, <1>4 DEF InFront

LEMMA FrontUnique ==
  ASSUME NEW code, NEW k, NEW m, InFront(code, k), InFront(code, m)
  PROVE  k = m
<1>1. k \in 0 .. 15 /\ m \in 0 .. 15
  BY DEF InFront
<1>2. CASE k < m
  <2>1. k \in 0 .. (m - 1) /\ k # 15
    BY <1>1, <1>2
  <2> QED
    BY <2>1 DEF InFront
<1>3. CASE m < k
  <2>1. m \in 0 .. (k - 1) /\ m # 15
    BY <1>1, <1>3
  <2> QED
    BY <2>1 DEF InFront
<1> QED
  BY <1>1, <1>2, <1>3

LEMMA FrontIs ==
  ASSUME NEW code
  PROVE  /\ InFront(code, Format!Front(code))
         /\ Ldisasm!NumPrefixes(code) = Format!Front(code)
<1>1. Format!Front(code) = CHOOSE k : InFront(code, k)
  BY DEF Format!Front, InFront, Format!MaximumLength
<1>2. InFront(code, Format!Front(code))
  BY <1>1, FrontExists
<1>3. Ldisasm!NumPrefixes(code) = CHOOSE k : InFront(code, k)
  BY SamePrefix DEF Ldisasm!NumPrefixes, InFront, Ldisasm!MaximumLength
<1> QED
  BY <1>1, <1>2, <1>3

LEMMA Minimum ==
  ASSUME NEW a \in Int, NEW b \in Int
  PROVE  /\ Decode!Min({a, b}) = IF a <= b THEN a ELSE b
         /\ Ldisasm!Min({a, b}) = IF a <= b THEN a ELSE b
         /\ Min({a, b}) = IF a <= b THEN a ELSE b
<1> DEFINE least == IF a <= b THEN a ELSE b
<1>1. least \in {a, b} /\ \A y \in {a, b} : least <= y
  OBVIOUS
<1>2. \A x \in {a, b} : (\A y \in {a, b} : x <= y) => x = least
  OBVIOUS
<1> HIDE DEF least
<1> QED
  BY <1>1, <1>2 DEF Decode!Min, Ldisasm!Min, Min

(* The decoder stops at the end of the buffer. *)
LEMMA DecodeFront ==
  ASSUME NEW code, NEW bound \in Nat
  PROVE  LET k == Format!Front(code)
         IN  /\ bound >= k => Decode!NumPrefixes(code, bound) = k
             /\ bound < k => Decode!Min({15, bound}) - Decode!NumPrefixes(code, bound) = 0
<1> DEFINE k == Format!Front(code)
           limit == Decode!Min({bound, 15})
           Stops(m) == /\ m \in 0 .. limit
                       /\ \A j \in 0 .. (m - 1) : Format!IsPrefix(code[j])
                       /\ m = limit \/ ~Format!IsPrefix(code[m])
           stop == IF bound >= k THEN k ELSE bound
<1>1. /\ k \in 0 .. 15
      /\ \A j \in 0 .. (k - 1) : Format!IsPrefix(code[j])
      /\ k = 15 \/ ~Format!IsPrefix(code[k])
  BY FrontIs DEF InFront
<1>2. limit = IF bound <= 15 THEN bound ELSE 15
  BY Minimum
<1>3. Decode!NumPrefixes(code, bound) = CHOOSE m : Stops(m)
  BY SamePrefix DEF Decode!NumPrefixes, Decode!MaximumLength
<1>a. \A j \in Nat : j < k => Format!IsPrefix(code[j])
  BY <1>1
<1> HIDE DEF k, limit
<1>4. Stops(stop)
  BY <1>1, <1>2, <1>a
<1>5. ASSUME NEW m, Stops(m)
      PROVE  m = stop
  <2>1. m \in Nat /\ m <= limit /\ m <= bound /\ stop \in Nat /\ stop <= limit
    BY <1>5, <1>1, <1>2
  <2>2. CASE m < stop
    <3>1. Format!IsPrefix(code[m]) /\ m # limit
      BY <2>1, <2>2, <1>1, <1>a
    <3> QED
      BY <3>1, <1>5
  <2>3. CASE stop < m
    <3>1. k = stop /\ k < 15 /\ k \in 0 .. (m - 1)
      BY <2>1, <2>3, <1>1, <1>2
    <3> QED
      BY <3>1, <1>1, <1>5
  <2> QED
    BY <2>1, <2>2, <2>3
<1> HIDE DEF Stops
<1>6. Decode!NumPrefixes(code, bound) = stop
  BY <1>3, <1>4, <1>5
<1>7. Decode!Min({15, bound}) = IF 15 <= bound THEN 15 ELSE bound
  BY Minimum
<1> QED
  BY <1>1, <1>6, <1>7 DEF k

-----------------------------------------------------------------------------
(* A ModR/M byte, what follows it, and what the format says of them.        *)

LEMMA Bits ==
  ASSUME NEW b \in Byte
  PROVE  /\ b \div 64 \in 0 .. 3 /\ b % 8 \in 0 .. 7 /\ (b \div 8) % 8 \in 0 .. 7
         /\ b < 192 <=> b \div 64 # 3
BY DEF Byte

LEMMA OperandIsEncoded ==
  ASSUME NEW code, NEW k \in Nat, code[k] \in Byte, code[k + 1] \in Byte, NEW left \in Int
  PROVE  /\ Format!OperandSize(code, k) \in 1 .. 6
         /\ Ldisasm!Operand(code, k, left) =
              [ok |-> left > 0 /\ left >= Format!OperandSize(code, k), has_modrm |-> TRUE,
               modrm |-> code[k], next |-> k + Format!OperandSize(code, k)]
         /\ Decode!Operand(code, k, left) = Ldisasm!Operand(code, k, left)
<1> DEFINE m == code[k]
           s == code[k + 1]
           size2 == (IF m < 192 /\ m % 8 = 4 THEN 2 ELSE 1)
                    + (CASE m \div 64 = 1 -> 1
                       [] (m \div 64 = 0 /\ m % 8 = 5) \/ m \div 64 = 2 -> 4
                       [] m \div 64 = 0 /\ m < 192 /\ m % 8 = 4 /\ s % 8 = 5 -> 4
                       [] OTHER -> 0)
<1>1. m \in Byte /\ s \in Byte
  OBVIOUS
<1>2. Ldisasm!Operand(code, k, left) =
        [ok |-> left > 0 /\ left >= size2, has_modrm |-> TRUE, modrm |-> m, next |-> k + size2]
  BY DEF Ldisasm!Operand, Ldisasm!HasSib, Ldisasm!DispSize, Ldisasm!Mod, Ldisasm!Rm
<1>3. Decode!Operand(code, k, left) =
        [ok |-> left > 0 /\ left >= size2, has_modrm |-> TRUE, modrm |-> m, next |-> k + size2]
  BY DEF Decode!Operand, Decode!HasSib, Decode!DispSize, Decode!Mod, Decode!Rm
<1>4. Format!OperandSize(code, k) = size2 /\ size2 \in 1 .. 6
  <2> DEFINE mod == m \div 64
             rm == m % 8
             base == s % 8
  <2>1. mod \in 0 .. 3 /\ rm \in 0 .. 7 /\ base \in 0 .. 7 /\ (m < 192 <=> mod # 3)
    BY <1>1, Bits
  <2>2. Format!OperandSize(code, k) =
          1 + (IF mod # 3 /\ rm = 4 THEN 1 ELSE 0)
            + (CASE mod = 0 -> IF (IF mod # 3 /\ rm = 4 THEN base ELSE rm) = 5 THEN 4 ELSE 0
                 [] mod = 1 -> 1
                 [] mod = 2 -> 4
                 [] mod = 3 -> 0)
    BY DEF Format!OperandSize, Format!Mod, Format!Rm
  <2>3. size2 = (IF mod # 3 /\ rm = 4 THEN 2 ELSE 1)
                + (CASE mod = 1 -> 1
                     [] (mod = 0 /\ rm = 5) \/ mod = 2 -> 4
                     [] mod = 0 /\ mod # 3 /\ rm = 4 /\ base = 5 -> 4
                     [] OTHER -> 0)
    BY <2>1
  <2> HIDE DEF mod, rm, base, size2
  <2> QED
    BY <2>1, <2>2, <2>3
<1> HIDE DEF size2
<1> QED
  BY <1>2, <1>3, <1>4

-----------------------------------------------------------------------------
(* One-byte opcodes. *)

NotCode1 == {\h06, \h07, \h0E, \h16, \h17, \h1E, \h1F, \h27, \h2F, \h37, \h3F, \h60, \h61,
             \h62, \h82, \hCE, \hD4, \hD5, \hD6}

LEMMA Modrm1IsEncoded ==
  ASSUME NEW op \in Byte
  PROVE  /\ Ldisasm!HasModrm1(op) <=> op \in Format!Modrm1
         /\ Decode!HasModrm1(op) <=> op \in Format!Modrm1
BY SMTT(60) DEF Format!Modrm1, Format!Arithmetic, Byte,
   Ldisasm!HasModrm1, Ldisasm!Row, Ldisasm!Column, Ldisasm!op1_modrm,
   Decode!HasModrm1, Decode!Row, Decode!Column, Decode!op1_modrm

LEMMA SameImmediate1 ==
  \A op, modrm, p, rexW :
    Decode!Immediate1(op, modrm, p, rexW) = Ldisasm!Immediate1(op, modrm, p, rexW)
BY DEF Ldisasm!Immediate1, Ldisasm!Row, Ldisasm!Column, Ldisasm!Reg, Ldisasm!op1_imm32,
       Ldisasm!op1_imm8, Ldisasm!OPSIZE, Ldisasm!ADDRSIZE,
       Decode!Immediate1, Decode!Row, Decode!Column, Decode!Reg, Decode!op1_imm32,
       Decode!op1_imm8, Decode!OPSIZE, Decode!ADDRSIZE

(* The immediate by the tables of the format. *)
Coded1(op, reg, seenThere, w) ==
  LET z == IF OPSIZE \in seenThere /\ ~w THEN 2 ELSE 4
      test == reg \in {0, 1}
  IN  CASE op \in Format!Ib1 \/ (op = \hF6 /\ test) -> 1
        [] op \in Format!Iz1 \/ (op = \hF7 /\ test) -> z
        [] op \in Format!Jz1 -> 4
        [] op \in Format!Iv1 -> IF w THEN 8 ELSE z
        [] op \in Format!Ov1 -> IF ADDRSIZE \in seenThere THEN 4 ELSE 8
        [] op \in {\hC2, \hCA} -> 2
        [] op = \hC8 -> 3
        [] OTHER -> 0

LEMMA Immediate1IsEncoded ==
  ASSUME NEW op \in Byte, NEW modrm \in Byte, NEW p, NEW w \in BOOLEAN, NEW rexW \in BOOLEAN,
         op \notin NotCode1, op \notin {\hC4, \hC5, \h0F, \hEA, \h9A},
         ~(op \in {\hE8, \hE9} /\ OPSIZE \in p.seen),
         ~(op \in Iz /\ OPSIZE \in p.seen /\ w),
         op \in \hB8 .. \hBF => rexW = w,
         ~(op = \hF7 /\ Reg(modrm) = 1)
  PROVE  Ldisasm!Immediate1(op, modrm, p, rexW) = Coded1(op, Reg(modrm), p.seen, w)
<1> DEFINE r == op \div 16
           c == op % 16
           reg == (modrm \div 8) % 8
<1>1. r \in 0 .. 15 /\ c \in 0 .. 15 /\ op = 16 * r + c /\ reg \in 0 .. 7
  BY DEF Byte
<1>2. Reg(modrm) = reg /\ Ldisasm!Reg(modrm) = reg
  BY DEF Reg, Ldisasm!Reg
<1>3. Ldisasm!Row(op) = r /\ Ldisasm!Column(op) = c
  BY DEF Ldisasm!Row, Ldisasm!Column
<1> HIDE DEF r, c, reg
<1> QED
  BY <1>1, <1>2, <1>3, SMTT(100)
     DEF Ldisasm!Immediate1, Coded1, Format!Ib1, Format!Iz1, Format!Jz1, Format!Iv1, Format!Ov1,
         Format!Arithmetic, Ldisasm!op1_imm32, Ldisasm!op1_imm8, Ldisasm!OPSIZE, Ldisasm!ADDRSIZE,
         OPSIZE, ADDRSIZE, Iz, NotCode1

-----------------------------------------------------------------------------
(* The code that is laid down. *)
Laid == \A j \in 0 .. 30 : Memory[j] \in Byte
RexWBefore == n > 0 /\ Format!RexW(Memory[n - 1])
SizeAt(k) == Format!OperandSize(Memory, k)
Fixed == Format!EncodedParts(Memory).fixed
Encoded == Format!EncodedLength(Memory)

LEMMA LaidFacts ==
  ASSUME Laid
  PROVE  /\ n \in 0 .. 15
         /\ \A k \in 0 .. 10 :
              /\ Memory[n + k] \in Byte
              /\ SizeAt(n + k) \in 1 .. 6
              /\ \A left \in Int :
                   /\ Ldisasm!Operand(Memory, n + k, left) =
                        [ok |-> left > 0 /\ left >= SizeAt(n + k), has_modrm |-> TRUE,
                         modrm |-> Memory[n + k], next |-> n + k + SizeAt(n + k)]
                   /\ Decode!Operand(Memory, n + k, left) = Ldisasm!Operand(Memory, n + k, left)
<1>1. n \in 0 .. 15
  BY FrontIs DEF InFront, n
<1>2. ASSUME NEW k \in 0 .. 10, NEW left \in Int
      PROVE  /\ Memory[n + k] \in Byte
             /\ SizeAt(n + k) \in 1 .. 6
             /\ Ldisasm!Operand(Memory, n + k, left) =
                  [ok |-> left > 0 /\ left >= SizeAt(n + k), has_modrm |-> TRUE,
                   modrm |-> Memory[n + k], next |-> n + k + SizeAt(n + k)]
             /\ Decode!Operand(Memory, n + k, left) = Ldisasm!Operand(Memory, n + k, left)
  <2>1. n + k \in Nat /\ n + k \in 0 .. 30 /\ (n + k) + 1 \in 0 .. 30
    BY <1>1
  <2>2. Memory[n + k] \in Byte /\ Memory[(n + k) + 1] \in Byte
    BY <2>1 DEF Laid
  <2> QED
    BY <2>1, <2>2, OperandIsEncoded DEF SizeAt
<1>3. 0 \in Int
  OBVIOUS
<1> QED
  BY <1>1, <1>2, <1>3 DEF Laid

LEMMA PartsOfMemory ==
  Format!EncodedParts(Memory) = [Format!PartsAt(Memory, n, seen, RexWBefore) EXCEPT !.fixed = @ + n]
BY Zenon DEF Format!EncodedParts, n, seen, RexWBefore

LEMMA EncodedOne ==
  ASSUME Laid, Memory[n] \notin {\h0F, \hC4, \hC5}
  PROVE  LET op == Memory[n]
         IN  /\ Fixed = n + 1 + (IF op \in Format!Modrm1 THEN SizeAt(n + 1) ELSE 0)
             /\ Format!EncodedParts(Memory).immediate =
                  Coded1(op, Reg(Memory[n + 1]), seen, RexWBefore)
             /\ Encoded = Fixed + Format!EncodedParts(Memory).immediate
<1> DEFINE op == Memory[n]
           parts == Format!Parts1(Memory, n, seen, RexWBefore)
<1>0. Format!EncodedParts(Memory) =
        [Format!PartsAt(Memory, n, seen, RexWBefore) EXCEPT !.fixed = @ + n]
  BY PartsOfMemory
<1>a. Format!PartsAt(Memory, n, seen, RexWBefore) = parts
  <2>1. ~(op \in {\hC4, \hC5}) /\ op # \h0F
    OBVIOUS
  <2> QED
    BY <2>1 DEF Format!PartsAt
<1>1. Format!EncodedParts(Memory) = [parts EXCEPT !.fixed = @ + n]
  BY <1>0, <1>a
<1>2. parts = [fixed |-> 1 + (IF op \in Format!Modrm1 THEN SizeAt(n + 1) ELSE 0),
               immediate |-> Coded1(op, Reg(Memory[n + 1]), seen, RexWBefore)]
  BY DEF Format!Parts1, Format!Parts, Coded1, SizeAt, Format!OPSIZE, Format!ADDRSIZE, OPSIZE, ADDRSIZE,
         Format!Reg, Reg
<1>3. n \in Int /\ SizeAt(n + 1) \in Int
  BY LaidFacts
<1> HIDE DEF parts
<1>4. Fixed = n + 1 + (IF op \in Format!Modrm1 THEN SizeAt(n + 1) ELSE 0)
  BY <1>1, <1>2, <1>3 DEF Fixed
<1>5. Format!EncodedParts(Memory).immediate = Coded1(op, Reg(Memory[n + 1]), seen, RexWBefore)
  BY <1>1, <1>2
<1>6. Encoded = Fixed + Format!EncodedParts(Memory).immediate
  BY DEF Encoded, Format!EncodedLength, Fixed
<1> QED
  BY <1>4, <1>5, <1>6

-----------------------------------------------------------------------------
(* What the functions keep of the prefixes. *)

LEMMA LastIs ==
  ASSUME NEW code, NEW k \in 0 .. 15, NEW of
  PROVE  LET at == {j \in 0 .. (k - 1) : code[j] \in of}
             IsLast(last) == IF at = {} THEN last = 0
                             ELSE \E j \in at : last = code[j] /\ \A h \in at : h <= j
         IN  IsLast(Ldisasm!LastOf(code, k, of)) /\ IsLast(Decode!LastOf(code, k, of))
<1> DEFINE at == {j \in 0 .. (k - 1) : code[j] \in of}
           Before == {ss \in Nat \X Nat : ss[1] < ss[2]}
           S == {15 - j : j \in at}
<1>1. at \subseteq Nat /\ \A j \in at : j <= 14
  OBVIOUS
<1>2. CASE at = {}
  BY <1>2 DEF Ldisasm!LastOf, Decode!LastOf, Ldisasm!NoPrefix, Decode!NoPrefix
<1>3. CASE at # {}
  <2>1. IsWellFoundedOn(Before, Nat)
    BY NatLessThanWellFounded DEF OpToRel
  <2>2. S # {} /\ S \subseteq Nat
    BY <1>1, <1>3
  <2>3. PICK m \in S : \A x \in S : ~(<<x, m>> \in Before)
    BY <2>1, <2>2, WFMin
  <2>4. PICK j \in at : m = 15 - j
    BY <2>3
  <2>5. ASSUME NEW h \in at
        PROVE  h <= j
    <3>1. 15 - h \in S /\ 15 - h \in Nat /\ m \in Nat
      BY <1>1, <2>3
    <3>2. ~(15 - h < m)
      BY <2>3, <3>1
    <3> QED
      BY <1>1, <2>4, <3>1, <3>2
  <2> HIDE DEF at
  <2>6. Ldisasm!Max(at) = j /\ Decode!Max(at) = j
    <3>1. j \in at /\ \A h \in at : j >= h
      BY <1>1, <2>4, <2>5
    <3>2. \A x \in at : (\A h \in at : x >= h) => x = j
      BY <1>1, <3>1
    <3> QED
      BY <3>1, <3>2 DEF Ldisasm!Max, Decode!Max
  <2>7. Ldisasm!LastOf(code, k, of) = code[j] /\ Decode!LastOf(code, k, of) = code[j]
    BY <1>3, <2>6 DEF Ldisasm!LastOf, Decode!LastOf, at
  <2> QED
    BY <1>3, <2>5, <2>7 DEF at
<1> QED
  BY <1>2, <1>3

Lp == Ldisasm!Prefixes(Memory, n)
Dp == Decode!Prefixes(Memory, n)
Selects == {REPNE, REP, OPSIZE}

LEMMA PrefixFacts ==
  ASSUME Laid
  PROVE  /\ Lp.seen = seen /\ Dp.seen = seen
         /\ Lp.has = {Lp.simd} /\ Dp.has = seen
         /\ Lp.rexW <=> AnyRexW
         /\ Dp.rexW => AnyRexW
         /\ RexWBefore => Dp.rexW /\ AnyRexW
         /\ IF seen \cap Selects = {} THEN Lp.simd = 0 ELSE Lp.simd \in seen \cap Selects
         /\ IF seen \cap (Selects \cup {LOCK}) = {} THEN Dp.simd = 0
            ELSE Dp.simd \in seen \cap (Selects \cup {LOCK})
<1>1. n \in 0 .. 15 /\ \A j \in 0 .. (n - 1) : Memory[j] \in seen
  BY FrontIs DEF InFront, n, seen
<1>2. Lp = [seen |-> seen, simd |-> Ldisasm!LastOf(Memory, n, Selects),
            has |-> {Ldisasm!LastOf(Memory, n, Selects)},
            rexW |-> \E b \in seen : Ldisasm!RexW(b)]
  BY DEF Lp, Ldisasm!Prefixes, seen, Selects, Ldisasm!REPNE, Ldisasm!REP, Ldisasm!OPSIZE,
         REPNE, REP, OPSIZE
<1>3. /\ Dp.seen = seen /\ Dp.simd = Decode!LastOf(Memory, n, Selects \cup {LOCK})
      /\ Dp.has = seen
      /\ Dp.rexW = Decode!RexW(Decode!LastOf(Memory, n, 64 .. 79))
  <2>1. Selects \cup {LOCK} = {LOCK, REPNE, REP, OPSIZE}
    BY DEF Selects
  <2> QED
    BY <2>1 DEF Dp, Decode!Prefixes, seen, Decode!REPNE, Decode!REP, Decode!OPSIZE, Decode!LOCK,
         REPNE, REP, OPSIZE, LOCK
<1>4. Lp.rexW <=> AnyRexW
  BY <1>2, SamePrefix DEF AnyRexW
<1> DEFINE rex == Decode!LastOf(Memory, n, 64 .. 79)
           at == {j \in 0 .. (n - 1) : Memory[j] \in 64 .. 79}
<1>5. IF at = {} THEN rex = 0 ELSE \E j \in at : rex = Memory[j] /\ \A h \in at : h <= j
  BY <1>1, LastIs, SMTT(60)
<1>6. Dp.rexW => AnyRexW
  <2>1. ~RexW(0)
    BY DEF RexW, IsRex, Row
  <2>2. CASE at = {}
    BY <1>3, <1>5, <2>1, <2>2, SamePrefix
  <2>3. CASE at # {}
    <3>1. rex \in seen
      BY <1>1, <1>5, <2>3
    <3> QED
      BY <1>3, <3>1, SamePrefix DEF AnyRexW
  <2> QED
    BY <2>2, <2>3
<1>7. ASSUME RexWBefore
      PROVE  Dp.rexW /\ AnyRexW
  <2> DEFINE b == Memory[n - 1]
  <2>1. n - 1 \in 0 .. (n - 1) /\ n - 1 \in 0 .. 30 /\ Format!RexW(b)
    BY <1>1, <1>7 DEF RexWBefore
  <2>2. b \in Byte
    BY <2>1 DEF Laid
  <2>3. b \in 64 .. 79
    BY <2>1, <2>2 DEF Format!RexW, Format!IsRex, Format!Row, Byte
  <2>4. n - 1 \in at
    BY <2>1, <2>3
  <2>5. rex = b
    <3>1. PICK j \in at : rex = Memory[j] /\ \A h \in at : h <= j
      BY <1>5, <2>4
    <3>2. n - 1 <= j /\ j \in 0 .. (n - 1)
      BY <3>1, <2>4
    <3>3. j = n - 1
      BY <1>1, <3>2
    <3> QED
      BY <3>1, <3>3
  <2>6. RexW(b) /\ Decode!RexW(b) /\ b \in seen
    BY <1>1, <2>1, SamePrefix
  <2> QED
    BY <1>3, <2>5, <2>6 DEF AnyRexW
<1>8. IF seen \cap Selects = {} THEN Lp.simd = 0 ELSE Lp.simd \in seen \cap Selects
  <2> DEFINE on == {j \in 0 .. (n - 1) : Memory[j] \in Selects}
  <2>1. IF on = {} THEN Lp.simd = 0 ELSE \E j \in on : Lp.simd = Memory[j]
    BY SMTT(60), <1>1, <1>2, LastIs
  <2>2. on = {} <=> seen \cap Selects = {}
    BY DEF seen
  <2>3. \A j \in on : Memory[j] \in seen \cap Selects
    BY <1>1
  <2> HIDE DEF on
  <2> QED
    BY <2>1, <2>2, <2>3
<1>9. IF seen \cap (Selects \cup {LOCK}) = {} THEN Dp.simd = 0
      ELSE Dp.simd \in seen \cap (Selects \cup {LOCK})
  <2> DEFINE of == Selects \cup {LOCK}
             on == {j \in 0 .. (n - 1) : Memory[j] \in of}
  <2> HIDE DEF of
  <2>0. Dp.simd = Decode!LastOf(Memory, n, of)
    BY <1>3 DEF of
  <2>1. IF on = {} THEN Dp.simd = 0 ELSE \E j \in on : Dp.simd = Memory[j]
    BY <1>1, <2>0, LastIs
  <2>2. on = {} <=> seen \cap of = {}
    BY DEF seen
  <2>3. \A j \in on : Memory[j] \in seen \cap of
    BY <1>1
  <2> HIDE DEF on
  <2>4. IF seen \cap of = {} THEN Dp.simd = 0 ELSE Dp.simd \in seen \cap of
    BY <2>1, <2>2, <2>3
  <2> QED
    BY <2>4 DEF of
<1>10. Lp.seen = seen /\ Lp.has = {Lp.simd}
  BY <1>2
<1> QED
  BY <1>3, <1>4, <1>6, <1>7, <1>8, <1>9, <1>10

-----------------------------------------------------------------------------
(* The tables that are there twice. *)

LEMMA SameReserved1 ==
  \A op, m : Decode!Reserved1(op, m) <=> Ldisasm!Reserved1(op, m)
BY DEF Decode!Reserved1, Decode!Mod, Decode!Reg, Decode!Row,
       Ldisasm!Reserved1, Ldisasm!Mod, Ldisasm!Reg, Ldisasm!Row

LEMMA SameLockable ==
  \A opcode_size, op, operand :
    Decode!Lockable(opcode_size, op, operand) <=> Ldisasm!Lockable(opcode_size, op, operand)
BY DEF Decode!Lockable, Decode!Mod, Decode!Reg, Decode!Row, Decode!two_opcodes,
       Ldisasm!Lockable, Ldisasm!Mod, Ldisasm!Reg, Ldisasm!Row, Ldisasm!two_opcodes

LEMMA Immediate1Size ==
  \A op, m, p, rexW : Ldisasm!Immediate1(op, m, p, rexW) \in Nat
BY DEF Ldisasm!Immediate1

(* What follows the opcode, in either function. *)
Operand1(left) ==
  IF Memory[n] \in Format!Modrm1
    THEN [ok |-> left - 1 > 0 /\ left - 1 >= SizeAt(n + 1), has_modrm |-> TRUE,
          modrm |-> Memory[n + 1], next |-> n + 1 + SizeAt(n + 1)]
    ELSE [ok |-> TRUE, has_modrm |-> FALSE, modrm |-> 0, next |-> n + 1]
Refused1(left) ==
  \/ ~Operand1(left).ok
  \/ Ldisasm!Reserved1(Memory[n], Operand1(left).modrm)
  \/ Memory[n] \in {\hEA, \h9A}

LEMMA OneByteIs ==
  ASSUME Laid, NEW left \in Int, Memory[n] \notin {\hC4, \hC5, \h0F}
  PROVE  /\ Ldisasm!OneByte(Memory, n, left, Lp) =
              IF Refused1(left) THEN Ldisasm!Zero
              ELSE Ldisasm!Found(1, Memory[n], Operand1(left),
                     Operand1(left).next + Ldisasm!Immediate1(Memory[n], Operand1(left).modrm, Lp, Lp.rexW))
         /\ Decode!DecodeOneByte(Memory, n, left, Dp) =
              IF Refused1(left) THEN Decode!Invalid
              ELSE Decode!Decoded("DEFAULT", 1, Memory[n], Operand1(left),
                     Operand1(left).next + Ldisasm!Immediate1(Memory[n], Operand1(left).modrm, Dp, Dp.rexW))
<1> DEFINE op == Memory[n]
<1>1. n \in Nat /\ op \in Byte
  <2>1. n \in 0 .. 15 /\ Memory[n + 0] \in Byte
    BY LaidFacts
  <2> QED
    BY <2>1
<1>2. /\ Ldisasm!HasModrm1(op) <=> op \in Format!Modrm1
      /\ Decode!HasModrm1(op) <=> op \in Format!Modrm1
  BY <1>1, Modrm1IsEncoded
<1>3. op \in Format!Modrm1 => Ldisasm!Operand(Memory, n + 1, left - 1) = Operand1(left)
                              /\ Decode!Operand(Memory, n + 1, left - 1) = Operand1(left)
  BY LaidFacts DEF Operand1
<1>4. op \notin Format!Modrm1 => Ldisasm!NoOperand(n + 1) = Operand1(left)
                                 /\ Decode!NoOperand(n + 1) = Operand1(left)
  BY DEF Operand1, Ldisasm!NoOperand, Decode!NoOperand
<1>5. op \notin {\hC4, \hC5}
  OBVIOUS
<1>6. Ldisasm!OneByte(Memory, n, left, Lp) =
        IF ~Operand1(left).ok \/ Ldisasm!Reserved1(op, Operand1(left).modrm) THEN Ldisasm!Zero
        ELSE IF op \in {\hEA, \h9A} THEN Ldisasm!Zero
        ELSE Ldisasm!Found(1, op, Operand1(left),
               Operand1(left).next + Ldisasm!Immediate1(op, Operand1(left).modrm, Lp, Lp.rexW))
  BY <1>2, <1>3, <1>4, <1>5 DEF Ldisasm!OneByte, Ldisasm!NotIn64Bit
<1>7. CASE op # \h62
  <2>1. Decode!DecodeOneByte(Memory, n, left, Dp) =
          IF ~Operand1(left).ok THEN Decode!Invalid
          ELSE IF Decode!Reserved1(op, Operand1(left).modrm) \/ op \in {\hEA, \h9A} THEN Decode!Invalid
          ELSE Decode!Decoded("DEFAULT", 1, op, Operand1(left),
                 Operand1(left).next + Decode!Immediate1(op, Operand1(left).modrm, Dp, Dp.rexW))
    BY <1>2, <1>3, <1>4, <1>5, <1>7 DEF Decode!DecodeOneByte, Decode!NotIn64Bit
  <2> QED
    BY <1>6, <2>1, SameReserved1, SameImmediate1 DEF Refused1
<1>8. CASE op = \h62
  <2>1. Ldisasm!Reserved1(op, Operand1(left).modrm)
    BY <1>8 DEF Ldisasm!Reserved1
  <2>2. Decode!DecodeOneByte(Memory, n, left, Dp) = Decode!Invalid
    BY <1>8 DEF Decode!DecodeOneByte
  <2> QED
    BY <1>6, <2>1, <2>2 DEF Refused1
<1> QED
  BY <1>7, <1>8

LEMMA OneByteIsEncoded ==
  ASSUME Laid, NEW left \in Int, left > 0, Memory[n] \notin {\hC4, \hC5, \h0F}, ~Misread,
         ~Refused1(left)
  PROVE  /\ Operand1(left).next + Ldisasm!Immediate1(Memory[n], Operand1(left).modrm, Lp, Lp.rexW) = Encoded
         /\ Operand1(left).next + Ldisasm!Immediate1(Memory[n], Operand1(left).modrm, Dp, Dp.rexW) = Encoded
         /\ Fixed <= n + left
<1> DEFINE op == Memory[n]
           m == Operand1(left).modrm
<1>1. n \in Nat /\ op \in Byte /\ SizeAt(n + 1) \in 1 .. 6 /\ Memory[n + 1] \in Byte
  <2>1. n \in 0 .. 15 /\ Memory[n + 0] \in Byte /\ Memory[n + 1] \in Byte /\ SizeAt(n + 1) \in 1 .. 6
    BY LaidFacts
  <2> QED
    BY <2>1
<1>2. Operand1(left).next = Fixed /\ Fixed <= n + left
  <2>1. Fixed = n + 1 + (IF op \in Format!Modrm1 THEN SizeAt(n + 1) ELSE 0)
    BY EncodedOne
  <2>2. Operand1(left).ok
    BY DEF Refused1
  <2>3. CASE op \in Format!Modrm1
    <3>1. left - 1 >= SizeAt(n + 1) /\ Operand1(left).next = n + 1 + SizeAt(n + 1)
      BY <2>2, <2>3 DEF Operand1
    <3> QED
      BY <1>1, <2>1, <2>3, <3>1
  <2>4. CASE op \notin Format!Modrm1
    BY <1>1, <2>1, <2>4 DEF Operand1
  <2> QED
    BY <2>3, <2>4
<1>3. op \notin NotCode1 /\ op \notin {\hC4, \hC5, \h0F, \hEA, \h9A}
  BY DEF Refused1, Ldisasm!Reserved1, NotCode1
<1>4. /\ ~(op \in {\hE8, \hE9} /\ OPSIZE \in seen)
      /\ ~(op \in Iz /\ OPSIZE \in seen /\ RexWBefore)
      /\ op \in \hB8 .. \hBF /\ AnyRexW => RexWBefore
      /\ ~(op = \hF7 /\ Reg(Memory[n + 1]) = 1)
  BY SamePrefix DEF Misread, RexWBefore
<1>5. Coded1(op, Reg(m), seen, RexWBefore) = Coded1(op, Reg(Memory[n + 1]), seen, RexWBefore)
  <2>1. op \in {\hF6, \hF7} => op \in Format!Modrm1
    BY DEF Format!Modrm1
  <2>2. CASE op \in {\hF6, \hF7}
    BY <2>1, <2>2 DEF Operand1
  <2>3. CASE op \notin {\hF6, \hF7}
    BY <2>3 DEF Coded1
  <2> QED
    BY <2>2, <2>3
<1>6. m \in Byte /\ ~(op = \hF7 /\ Reg(m) = 1)
  <2>1. op = \hF7 => op \in Format!Modrm1
    BY DEF Format!Modrm1
  <2>2. m \in Byte
    BY <1>1 DEF Operand1, Byte
  <2> QED
    BY <1>4, <2>1, <2>2 DEF Operand1
<1>7. /\ Lp.seen = seen /\ Dp.seen = seen
      /\ Lp.rexW \in BOOLEAN /\ Dp.rexW \in BOOLEAN /\ RexWBefore \in BOOLEAN
      /\ op \in \hB8 .. \hBF => Lp.rexW = RexWBefore /\ Dp.rexW = RexWBefore
  <2>1. Lp.rexW \in BOOLEAN /\ RexWBefore \in BOOLEAN
    BY DEF Lp, Ldisasm!Prefixes, RexWBefore
  <2>2. Dp.rexW \in BOOLEAN
    BY DEF Dp, Decode!Prefixes, Decode!RexW, Decode!IsRex
  <2>3. op \in \hB8 .. \hBF => (Lp.rexW <=> RexWBefore) /\ (Dp.rexW <=> RexWBefore)
    BY <1>4, PrefixFacts
  <2> QED
    BY <2>1, <2>2, <2>3, PrefixFacts
<1>8. /\ Ldisasm!Immediate1(op, m, Lp, Lp.rexW) = Coded1(op, Reg(m), seen, RexWBefore)
      /\ Ldisasm!Immediate1(op, m, Dp, Dp.rexW) = Coded1(op, Reg(m), seen, RexWBefore)
  <2> HIDE DEF op, m
  <2>1. Ldisasm!Immediate1(op, m, Lp, Lp.rexW) = Coded1(op, Reg(m), Lp.seen, RexWBefore)
    BY <1>1, <1>3, <1>4, <1>6, <1>7, Immediate1IsEncoded
  <2>2. Ldisasm!Immediate1(op, m, Dp, Dp.rexW) = Coded1(op, Reg(m), Dp.seen, RexWBefore)
    BY <1>1, <1>3, <1>4, <1>6, <1>7, Immediate1IsEncoded
  <2> QED
    BY <1>7, <2>1, <2>2
<1> QED
  BY <1>2, <1>5, <1>8, EncodedOne

-----------------------------------------------------------------------------
(* Two-byte opcodes. *)

LEMMA SameReserved2 ==
  \A op, operand, p : Decode!Reserved2(op, operand, p) <=> Ldisasm!Reserved2(op, operand, p)
BY DEF Decode!Reserved2, Decode!invalid_op2, Decode!ReservedC7, Decode!Reserved01, Decode!ReservedAE,
       Decode!ReservedMmx, Decode!ReservedRegister, Decode!Mod, Decode!Reg, Decode!Rm, Decode!Row,
       Decode!Column, Decode!LOCK, Decode!REPNE, Decode!REP, Decode!OPSIZE, Decode!NoPrefix,
       Ldisasm!Reserved2, Ldisasm!invalid_op2, Ldisasm!ReservedC7, Ldisasm!Reserved01, Ldisasm!ReservedAE,
       Ldisasm!ReservedMmx, Ldisasm!ReservedRegister, Ldisasm!Mod, Ldisasm!Reg, Ldisasm!Rm, Ldisasm!Row,
       Ldisasm!Column, Ldisasm!LOCK, Ldisasm!REPNE, Ldisasm!REP, Ldisasm!OPSIZE, Ldisasm!NoPrefix

LEMMA Modrm2IsEncoded ==
  ASSUME NEW op \in Byte
  PROVE  /\ Decode!HasModrm2(op) <=> Ldisasm!HasModrm2(op)
         /\ Ldisasm!HasModrm2(op)
              <=> op \notin Format!Bare2 \cup {\h04, \h0A, \h0C, \h0F} \cup (\h38 .. \h3F)
         /\ op \in \h20 .. \h23 => Ldisasm!HasModrm2(op)
<1> DEFINE r == op \div 16
           c == op % 16
           eight == op % 8
<1>1. /\ r \in 0 .. 15 /\ c \in 0 .. 15 /\ op = 16 * r + c
      /\ eight = IF c < 8 THEN c ELSE c - 8
  BY DEF Byte
<1> HIDE DEF r, c, eight
<1>2. /\ Ldisasm!Row(op) = r /\ Ldisasm!Column(op) = c
      /\ Decode!Row(op) = r /\ Decode!Column(op) = c /\ op % 8 = eight
  BY DEF r, c, eight, Ldisasm!Row, Ldisasm!Column, Decode!Row, Decode!Column
<1> QED
  BY <1>1, <1>2, SMTT(60) DEF Ldisasm!HasModrm2, Decode!HasModrm2, Format!Bare2

LEMMA Immediate2Is ==
  ASSUME NEW op \in Byte, NEW imm16 \in BOOLEAN
  PROVE  LET immediate == CASE op \in Format!Ib2 -> 1
                            [] op \in \h80 .. \h8F -> 4
                            [] op = \h78 /\ imm16 -> 2
                            [] OTHER -> 0
         IN  Ldisasm!Immediate2(op, imm16) = immediate /\ Decode!Immediate2(op, imm16) = immediate
<1>1. /\ Ldisasm!Row(op) = 8 <=> op \in \h80 .. \h8F
      /\ Decode!Row(op) = 8 <=> op \in \h80 .. \h8F
  BY DEF Ldisasm!Row, Decode!Row, Byte
<1> QED
  BY <1>1, SMTT(60) DEF Ldisasm!Immediate2, Decode!Immediate2, Format!Ib2, Byte

Operand2(left) ==
  IF Memory[n + 1] \in \h20 .. \h23 /\ left = 2
    THEN [ok |-> TRUE, has_modrm |-> TRUE, modrm |-> Memory[n + 2], next |-> n + 3]
  ELSE IF Ldisasm!HasModrm2(Memory[n + 1])
    THEN [ok |-> left - 2 > 0 /\ left - 2 >= SizeAt(n + 2), has_modrm |-> TRUE,
          modrm |-> Memory[n + 2], next |-> n + 2 + SizeAt(n + 2)]
    ELSE [ok |-> TRUE, has_modrm |-> FALSE, modrm |-> 0, next |-> n + 2]
Refused2(left, p) == ~Operand2(left).ok \/ Ldisasm!Reserved2(Memory[n + 1], Operand2(left), p)
Length2(left, imm16) == Operand2(left).next + Ldisasm!Immediate2(Memory[n + 1], imm16)

LEMMA TwoByteIs ==
  ASSUME Laid, NEW left \in Int
  PROVE  /\ Ldisasm!TwoByte(Memory, n, left, Lp) =
              IF Refused2(left, Lp) THEN Ldisasm!Zero
              ELSE Ldisasm!Found(2, Memory[n + 1], Operand2(left),
                                 Length2(left, {REPNE, OPSIZE} \cap seen # {}))
         /\ Decode!DecodeTwoByte(Memory, n, left, Dp) =
              IF Refused2(left, Dp) THEN Decode!Invalid
              ELSE Decode!Decoded("0F", 2, Memory[n + 1], Operand2(left),
                                  Length2(left, Dp.simd \in {REPNE, OPSIZE}))
<1> DEFINE op == Memory[n + 1]
<1>1. n \in Nat /\ op \in Byte
  <2>1. n \in 0 .. 15 /\ Memory[n + 1] \in Byte
    BY LaidFacts
  <2> QED
    BY <2>1
<1>2. /\ Ldisasm!Operand(Memory, n + 2, left - 2) =
           [ok |-> left - 2 > 0 /\ left - 2 >= SizeAt(n + 2), has_modrm |-> TRUE,
            modrm |-> Memory[n + 2], next |-> n + 2 + SizeAt(n + 2)]
      /\ Decode!Operand(Memory, n + 2, left - 2) = Ldisasm!Operand(Memory, n + 2, left - 2)
  BY LaidFacts
<1>3. n + 2 + 1 = n + 3
  BY <1>1
<1>4. Decode!HasModrm2(op) <=> Ldisasm!HasModrm2(op)
  BY <1>1, Modrm2IsEncoded
<1>5. Operand2(left) =
        IF op \in \h20 .. \h23 /\ left = 2
          THEN [ok |-> TRUE, has_modrm |-> TRUE, modrm |-> Memory[n + 2], next |-> n + 2 + 1]
        ELSE IF Ldisasm!HasModrm2(op) THEN Ldisasm!Operand(Memory, n + 2, left - 2)
        ELSE Ldisasm!NoOperand(n + 2)
  BY <1>2, <1>3 DEF Operand2, Ldisasm!NoOperand
<1>6. Operand2(left) =
        IF op \in \h20 .. \h23 /\ left = 2
          THEN [ok |-> TRUE, has_modrm |-> TRUE, modrm |-> Memory[n + 2], next |-> n + 2 + 1]
        ELSE IF Decode!HasModrm2(op) THEN Decode!Operand(Memory, n + 2, left - 2)
        ELSE Decode!NoOperand(n + 2)
  BY <1>2, <1>4, <1>5 DEF Ldisasm!NoOperand, Decode!NoOperand
<1>7. Ldisasm!TwoByte(Memory, n, left, Lp) =
        IF Refused2(left, Lp) THEN Ldisasm!Zero
        ELSE Ldisasm!Found(2, op, Operand2(left), Length2(left, {REPNE, OPSIZE} \cap seen # {}))
  <2>1. {Ldisasm!REPNE, Ldisasm!OPSIZE} \cap Lp.seen # {} <=> {REPNE, OPSIZE} \cap seen # {}
    BY PrefixFacts DEF Ldisasm!REPNE, Ldisasm!OPSIZE, REPNE, OPSIZE
  <2>2. ({Ldisasm!REPNE, Ldisasm!OPSIZE} \cap Lp.seen # {}) = ({REPNE, OPSIZE} \cap seen # {})
    BY <2>1
  <2> QED
    BY <1>5, <2>2 DEF Ldisasm!TwoByte, Refused2, Length2
<1>8. Decode!DecodeTwoByte(Memory, n, left, Dp) =
        IF Refused2(left, Dp) THEN Decode!Invalid
        ELSE Decode!Decoded("0F", 2, op, Operand2(left), Length2(left, Dp.simd \in {REPNE, OPSIZE}))
  <2>1. Dp.simd \in {Decode!REPNE, Decode!OPSIZE} <=> Dp.simd \in {REPNE, OPSIZE}
    BY DEF Decode!REPNE, Decode!OPSIZE, REPNE, OPSIZE
  <2>2. (Dp.simd \in {Decode!REPNE, Decode!OPSIZE}) = (Dp.simd \in {REPNE, OPSIZE})
    BY <2>1
  <2>3. \A imm16 \in BOOLEAN : Decode!Immediate2(op, imm16) = Ldisasm!Immediate2(op, imm16)
    BY <1>1, Immediate2Is
  <2>4. (Dp.simd \in {REPNE, OPSIZE}) \in BOOLEAN
    OBVIOUS
  <2> QED
    <3>1. Decode!Immediate2(op, Dp.simd \in {REPNE, OPSIZE})
            = Ldisasm!Immediate2(op, Dp.simd \in {REPNE, OPSIZE})
      BY <2>3, <2>4
    <3>2. Decode!Reserved2(op, Operand2(left), Dp) <=> Ldisasm!Reserved2(op, Operand2(left), Dp)
      BY SameReserved2
    <3>3. Decode!DecodeTwoByte(Memory, n, left, Dp) =
            IF ~Operand2(left).ok \/ Decode!Reserved2(op, Operand2(left), Dp) THEN Decode!Invalid
            ELSE Decode!Decoded("0F", 2, op, Operand2(left),
                   Operand2(left).next + Decode!Immediate2(op, Dp.simd \in {REPNE, OPSIZE}))
      BY <1>6, <2>2 DEF Decode!DecodeTwoByte
    <3> QED
      BY <3>1, <3>2, <3>3 DEF Refused2, Length2
<1> QED
  BY <1>7, <1>8

(* What the format says of these. *)
LEMMA EncodedTwo ==
  ASSUME Laid, Memory[n] = \h0F, Memory[n + 1] \notin {\h0F, \h38, \h3A}
  PROVE  LET op == Memory[n + 1]
             immediate == CASE op \in Format!Ib2 -> 1
                            [] op \in \h80 .. \h8F -> 4
                            [] op = \h78 /\ seen \cap {OPSIZE, REPNE} # {} -> 2
                            [] OTHER -> 0
         IN  /\ Fixed = n + 2 + (IF op \in Format!Bare2 THEN 0
                                 ELSE IF op \in \h20 .. \h23 THEN 1 ELSE SizeAt(n + 2))
             /\ Encoded = Fixed + immediate
<1> DEFINE op == Memory[n + 1]
           parts == Format!Parts2(Memory, n, seen)
           size2 == IF op \in Format!Bare2 THEN 0
                    ELSE IF op \in \h20 .. \h23 THEN 1 ELSE SizeAt(n + 2)
           immediate == CASE op \in Format!Ib2 -> 1
                          [] op \in \h80 .. \h8F -> 4
                          [] op = \h78 /\ seen \cap {OPSIZE, REPNE} # {} -> 2
                          [] OTHER -> 0
<1>1. Format!PartsAt(Memory, n, seen, RexWBefore) = parts
  BY DEF Format!PartsAt
<1>2. parts = [fixed |-> 2 + size2, immediate |-> immediate]
  <2>1. op \in Format!Bare2 => op \notin \h20 .. \h23
    BY DEF Format!Bare2
  <2> QED
    BY <2>1 DEF Format!Parts2, Format!Parts, Format!MovControl2, SizeAt, Format!OPSIZE, Format!REPNE,
       OPSIZE, REPNE
<1>3. n \in Int /\ SizeAt(n + 2) \in Int
  BY LaidFacts
<1> HIDE DEF parts, immediate
<1>4. Fixed = n + 2 + size2
  BY <1>1, <1>2, <1>3, PartsOfMemory DEF Fixed
<1>5. Format!EncodedParts(Memory).immediate = immediate
  BY <1>1, <1>2, PartsOfMemory
<1>6. Encoded = Fixed + Format!EncodedParts(Memory).immediate
  BY DEF Encoded, Format!EncodedLength, Fixed
<1> QED
  BY <1>4, <1>5, <1>6 DEF immediate

LEMMA TwoByteIsEncoded ==
  ASSUME Laid, NEW left \in Int, left >= 2, NEW p,
         Memory[n] = \h0F, Memory[n + 1] \notin {\h0F, \h38, \h3A}, ~Misread, ~Refused2(left, p)
  PROVE  /\ Length2(left, {REPNE, OPSIZE} \cap seen # {}) = Encoded
         /\ Fixed <= n + left \/ (left = 2 /\ Memory[n + 1] \in \h20 .. \h23)
         /\ p = Dp /\ (LOCK \in seen => Memory[n + 1] # \h78)
              => Length2(left, Dp.simd \in {REPNE, OPSIZE}) = Encoded
<1> DEFINE op == Memory[n + 1]
           imm16 == {REPNE, OPSIZE} \cap seen # {}
           simd == Dp.simd \in {REPNE, OPSIZE}
           immediate == CASE op \in Format!Ib2 -> 1
                          [] op \in \h80 .. \h8F -> 4
                          [] op = \h78 /\ seen \cap {OPSIZE, REPNE} # {} -> 2
                          [] OTHER -> 0
<1>1. n \in Nat /\ op \in Byte /\ Memory[n + 2] \in Byte /\ SizeAt(n + 2) \in 1 .. 6
  <2>1. n \in 0 .. 15 /\ Memory[n + 1] \in Byte /\ Memory[n + 2] \in Byte /\ SizeAt(n + 2) \in 1 .. 6
    BY LaidFacts
  <2> QED
    BY <2>1
<1>2. op \notin {\h04, \h0A, \h0C} \cup (\h38 .. \h3F)
  <2>1. op \notin {\h04, \h0A, \h0C, \h39} \cup (\h3B .. \h3F)
    <3>1. ~Ldisasm!Reserved2(op, Operand2(left), p)
      BY DEF Refused2
    <3>2. op \in {\h04, \h0A, \h0C, \h39} \cup (\h3B .. \h3F) => Ldisasm!Row(op) \in {0, 3}
      BY DEF Ldisasm!Row
    <3> HIDE DEF op
    <3> QED
      BY <3>1, <3>2 DEF Ldisasm!Reserved2, Ldisasm!invalid_op2
  <2> QED
    BY <2>1, <1>1 DEF Byte
<1>3. op \in \h20 .. \h23 => SizeAt(n + 2) = 1
  <2>1. op \in \h20 .. \h23 => Mod(Memory[n + 2]) = 3
    BY DEF Misread
  <2>2. Mod(Memory[n + 2]) = 3 => SizeAt(n + 2) = 1
    BY DEF SizeAt, Format!OperandSize, Format!Mod, Mod
  <2> QED
    BY <2>1, <2>2
<1>4. Fixed = n + 2 + (IF op \in Format!Bare2 THEN 0
                       ELSE IF op \in \h20 .. \h23 THEN 1 ELSE SizeAt(n + 2))
      /\ Encoded = Fixed + immediate
  BY EncodedTwo
<1>5. Ldisasm!HasModrm2(op) <=> op \notin Format!Bare2
  BY <1>1, <1>2, Modrm2IsEncoded
<1>6. op \in \h20 .. \h23 => op \notin Format!Bare2
  BY DEF Format!Bare2
<1> HIDE DEF immediate
<1>7. Operand2(left).next = Fixed /\ (Fixed <= n + left \/ (left = 2 /\ op \in \h20 .. \h23))
  <2>1. Operand2(left).ok
    BY DEF Refused2
  <2>2. CASE op \in \h20 .. \h23 /\ left = 2
    BY <1>1, <1>4, <1>6, <2>2 DEF Operand2
  <2>3. CASE ~(op \in \h20 .. \h23 /\ left = 2) /\ op \notin Format!Bare2
    <3>1. left - 2 >= SizeAt(n + 2) /\ Operand2(left).next = n + 2 + SizeAt(n + 2)
      BY <1>5, <2>1, <2>3 DEF Operand2
    <3> QED
      BY <1>1, <1>3, <1>4, <2>3, <3>1
  <2>4. CASE ~(op \in \h20 .. \h23 /\ left = 2) /\ op \in Format!Bare2
    <3>1. Operand2(left).next = n + 2
      BY <1>5, <2>4 DEF Operand2
    <3> QED
      BY <1>1, <1>4, <2>4, <3>1
  <2> QED
    BY <2>2, <2>3, <2>4
<1>8. Ldisasm!Immediate2(op, imm16) = immediate
  <2>1. imm16 \in BOOLEAN /\ (imm16 <=> seen \cap {OPSIZE, REPNE} # {})
    OBVIOUS
  <2> HIDE DEF imm16
  <2> QED
    BY <1>1, <2>1, Immediate2Is DEF immediate
<1>9. ASSUME p = Dp, LOCK \in seen => op # \h78
      PROVE  Ldisasm!Immediate2(op, simd) = immediate
  <2>1. op = \h78 => (simd <=> seen \cap {OPSIZE, REPNE} # {})
    <3>1. op = \h78 => Dp.simd # REP
      <4>1. op = \h78 => ~(Dp.simd = Ldisasm!REP)
        BY <1>9 DEF Refused2, Ldisasm!Reserved2, Ldisasm!invalid_op2, Ldisasm!Row
      <4> QED
        BY <4>1 DEF Ldisasm!REP, REP
    <3>2. op = \h78 => Dp.simd # LOCK
      BY <1>9, PrefixFacts DEF Selects, LOCK
    <3> QED
      BY <3>1, <3>2, PrefixFacts DEF Selects, REP, REPNE, OPSIZE, LOCK
  <2>2. simd \in BOOLEAN
    OBVIOUS
  <2> HIDE DEF simd
  <2> QED
    BY <1>1, <2>1, <2>2, Immediate2Is DEF immediate
<1> QED
  BY <1>4, <1>7, <1>8, <1>9 DEF Length2

-----------------------------------------------------------------------------
(* Three-byte opcodes, 3DNow! and VEX. *)

LEMMA SameReserved3 ==
  \A op, m, simd : /\ Decode!Reserved38(op, m, simd) <=> Ldisasm!Reserved38(op, m, simd)
                   /\ Decode!Reserved3A(op, simd) <=> Ldisasm!Reserved3A(op, simd)
BY DEF Decode!Reserved38, Decode!Reserved3A, Decode!Mod, Decode!REPNE, Decode!REP, Decode!OPSIZE,
       Decode!NoPrefix, Ldisasm!Reserved38, Ldisasm!Reserved3A, Ldisasm!Mod, Ldisasm!REPNE,
       Ldisasm!REP, Ldisasm!OPSIZE, Ldisasm!NoPrefix

Operand3(left) ==
  [ok |-> left - 3 > 0 /\ left - 3 >= SizeAt(n + 3), has_modrm |-> TRUE,
   modrm |-> Memory[n + 3], next |-> n + 3 + SizeAt(n + 3)]
Refused3(left, simd) ==
  LET map38 == Memory[n + 1] = \h38
  IN  \/ left < 4
      \/ ~Operand3(left).ok
      \/ map38 /\ Ldisasm!Reserved38(Memory[n + 2], Memory[n + 3], simd)
      \/ ~map38 /\ (left < 5 \/ Ldisasm!Reserved3A(Memory[n + 2], simd))
Length3(left) == Operand3(left).next + IF Memory[n + 1] = \h38 THEN 0 ELSE 1

LEMMA ThreeByteIs ==
  ASSUME Laid, NEW left \in Int
  PROVE  /\ Ldisasm!ThreeByte(Memory, n, left, Lp) =
              IF Refused3(left, Lp.simd) THEN Ldisasm!Zero
              ELSE Ldisasm!Found(3, Memory[n + 2], Operand3(left), Length3(left))
         /\ Decode!DecodeThreeByte(Memory, n, left, Dp) =
              IF Refused3(left, Dp.simd) THEN Decode!Invalid
              ELSE Decode!Decoded(IF Memory[n + 1] = \h38 THEN "0F38" ELSE "0F3A", 3, Memory[n + 2],
                                  Operand3(left), Length3(left))
<1>1. /\ Ldisasm!Operand(Memory, n + 3, left - 3) = Operand3(left)
      /\ Decode!Operand(Memory, n + 3, left - 3) = Operand3(left)
  BY LaidFacts DEF Operand3
<1>2. Operand3(left).modrm = Memory[n + 3]
  BY DEF Operand3
<1>3. Ldisasm!ThreeByte(Memory, n, left, Lp) =
        IF Refused3(left, Lp.simd) THEN Ldisasm!Zero
        ELSE Ldisasm!Found(3, Memory[n + 2], Operand3(left), Length3(left))
  BY <1>1, <1>2 DEF Ldisasm!ThreeByte, Refused3, Length3
<1>4. Decode!DecodeThreeByte(Memory, n, left, Dp) =
        IF Refused3(left, Dp.simd) THEN Decode!Invalid
        ELSE Decode!Decoded(IF Memory[n + 1] = \h38 THEN "0F38" ELSE "0F3A", 3, Memory[n + 2],
                            Operand3(left), Length3(left))
  <2>1. /\ Decode!Reserved38(Memory[n + 2], Memory[n + 3], Dp.simd)
             <=> Ldisasm!Reserved38(Memory[n + 2], Memory[n + 3], Dp.simd)
        /\ Decode!Reserved3A(Memory[n + 2], Dp.simd) <=> Ldisasm!Reserved3A(Memory[n + 2], Dp.simd)
    BY SameReserved3
  <2> QED
    BY <1>1, <1>2, <2>1 DEF Decode!DecodeThreeByte, Refused3, Length3
<1> QED
  BY <1>3, <1>4

LEMMA PartsFixed ==
  ASSUME Laid, NEW f \in Int, NEW immediate \in Int,
         Format!PartsAt(Memory, n, seen, RexWBefore) = Format!Parts(f, immediate)
  PROVE  /\ Fixed = n + f /\ Encoded = n + f + immediate
         /\ Format!EncodedParts(Memory).immediate = immediate
<1>1. n \in Int
  BY LaidFacts
<1>2. Format!EncodedParts(Memory) = [[fixed |-> f, immediate |-> immediate] EXCEPT !.fixed = @ + n]
  BY PartsOfMemory DEF Format!Parts
<1>3. Fixed = n + f /\ Format!EncodedParts(Memory).immediate = immediate
  BY <1>1, <1>2 DEF Fixed
<1> QED
  BY <1>1, <1>3 DEF Encoded, Format!EncodedLength, Fixed

LEMMA ThreeByteIsEncoded ==
  ASSUME Laid, NEW left \in Int, NEW simd,
         Memory[n] = \h0F, Memory[n + 1] \in {\h38, \h3A}, ~Refused3(left, simd)
  PROVE  Length3(left) = Encoded /\ Fixed <= n + left
<1> DEFINE immediate == IF Memory[n + 1] = \h38 THEN 0 ELSE 1
<1>1. n \in Int /\ SizeAt(n + 3) \in 1 .. 6
  BY LaidFacts
<1>2. Format!PartsAt(Memory, n, seen, RexWBefore) = Format!Parts(3 + SizeAt(n + 3), immediate)
  BY DEF Format!PartsAt, SizeAt
<1>3. Fixed = n + (3 + SizeAt(n + 3)) /\ Encoded = n + (3 + SizeAt(n + 3)) + immediate
  BY <1>1, <1>2, PartsFixed
<1>4. left - 3 >= SizeAt(n + 3) /\ Operand3(left).next = n + 3 + SizeAt(n + 3)
  BY DEF Refused3, Operand3
<1> QED
  BY <1>1, <1>3, <1>4 DEF Length3

LEMMA ThreeDNowIsEncoded ==
  ASSUME Laid, NEW left \in Int, Memory[n] = \h0F, Memory[n + 1] = \h0F,
         Decode!Decode3DNow(Memory, n, left) # Decode!Invalid
  PROVE  /\ Decode!Decode3DNow(Memory, n, left).length = Encoded
         /\ Decode!Decode3DNow(Memory, n, left).valid
<1>1. n \in Int /\ SizeAt(n + 2) \in 1 .. 6
      /\ Decode!Operand(Memory, n + 2, left - 2).next = n + 2 + SizeAt(n + 2)
  <2>1. /\ Ldisasm!Operand(Memory, n + 2, left - 2) =
             [ok |-> left - 2 > 0 /\ left - 2 >= SizeAt(n + 2), has_modrm |-> TRUE,
              modrm |-> Memory[n + 2], next |-> n + 2 + SizeAt(n + 2)]
        /\ Decode!Operand(Memory, n + 2, left - 2) = Ldisasm!Operand(Memory, n + 2, left - 2)
        /\ SizeAt(n + 2) \in 1 .. 6 /\ n \in Int
    BY LaidFacts
  <2> QED
    BY <2>1
<1>2. Format!PartsAt(Memory, n, seen, RexWBefore) = Format!Parts(2 + SizeAt(n + 2), 1)
  BY DEF Format!PartsAt, SizeAt
<1>3. Encoded = n + (2 + SizeAt(n + 2)) + 1
  BY <1>1, <1>2, PartsFixed
<1>4. Decode!Decode3DNow(Memory, n, left) =
        Decode!Decoded("OTHER", 0, \h0F, Decode!Operand(Memory, n + 2, left - 2),
                       Decode!Operand(Memory, n + 2, left - 2).next + 1)
  BY DEF Decode!Decode3DNow
<1> QED
  BY <1>1, <1>3, <1>4 DEF Decode!Decoded

(* C4 or C5 that starts a VEX instruction: the functions differ in the last *)
(* byte of the operands. *)
VexAt == n + IF Memory[n] = \hC4 THEN 3 ELSE 2
VexCounted == Memory[n] = \hC4 /\ Memory[VexAt] \in {\h0C, \h0D, \h40, \h41, \h17, \h21, \h42}

LEMMA VexIsEncoded ==
  ASSUME Laid, NEW left \in Int, Vex, ~VexMisread
  PROVE  /\ Ldisasm!OneByte(Memory, n, left, Lp) # Ldisasm!Zero =>
              /\ Ldisasm!OneByte(Memory, n, left, Lp).length = Encoded
              /\ Fixed <= n + left
         /\ Decode!DecodeOneByte(Memory, n, left, Dp) # Decode!Invalid =>
              Decode!DecodeOneByte(Memory, n, left, Dp).length = Encoded - 1
<1> DEFINE op == Memory[n]
           three == op = \hC4
           imm == IF VexCounted THEN 1 ELSE 0
           header == IF op = \hC5 THEN 2 ELSE 3
           operand == Ldisasm!Operand(Memory, VexAt + 1, left - (VexAt + 1 - n))
<1>1. op \in {\hC4, \hC5} /\ n \in Nat /\ op \in Byte
  <2>1. n \in 0 .. 15 /\ Memory[n + 0] \in Byte
    BY LaidFacts
  <2> QED
    BY <2>1 DEF Vex
<1>2. VexAt = n + header /\ header \in 2 .. 3
  BY <1>1 DEF VexAt
<1>3. /\ SizeAt(VexAt + 1) \in 1 .. 6
      /\ Decode!Operand(Memory, VexAt + 1, left - (VexAt + 1 - n)) = operand
      /\ operand.ok <=> left - (header + 1) > 0 /\ left - (header + 1) >= SizeAt(VexAt + 1)
      /\ operand.next = VexAt + 1 + SizeAt(VexAt + 1)
  <2>1. header + 1 \in 0 .. 10 /\ n + (header + 1) = VexAt + 1 /\ VexAt + 1 - n = header + 1
        /\ left - (header + 1) \in Int
    BY <1>1, <1>2
  <2> DEFINE k == header + 1
             rest == left - k
  <2>a. n + k = VexAt + 1 /\ left - (VexAt + 1 - n) = rest /\ rest \in Int /\ k \in 0 .. 10
    BY <2>1
  <2> HIDE DEF k, rest
  <2>2. /\ SizeAt(n + k) \in 1 .. 6
        /\ Ldisasm!Operand(Memory, n + k, rest) =
             [ok |-> rest > 0 /\ rest >= SizeAt(n + k), has_modrm |-> TRUE,
              modrm |-> Memory[n + k], next |-> n + k + SizeAt(n + k)]
        /\ Decode!Operand(Memory, n + k, rest) = Ldisasm!Operand(Memory, n + k, rest)
    BY <2>a, LaidFacts
  <2>3. operand = [ok |-> rest > 0 /\ rest >= SizeAt(VexAt + 1), has_modrm |-> TRUE,
                   modrm |-> Memory[VexAt + 1], next |-> VexAt + 1 + SizeAt(VexAt + 1)]
        /\ SizeAt(VexAt + 1) \in 1 .. 6
        /\ Decode!Operand(Memory, VexAt + 1, left - (VexAt + 1 - n)) = operand
    BY <2>a, <2>2
  <2> QED
    <3> HIDE DEF operand, header
    <3>1. (operand.ok <=> rest > 0 /\ rest >= SizeAt(VexAt + 1))
          /\ operand.next = VexAt + 1 + SizeAt(VexAt + 1)
      <4> DEFINE r == [ok |-> rest > 0 /\ rest >= SizeAt(VexAt + 1), has_modrm |-> TRUE,
                       modrm |-> Memory[VexAt + 1], next |-> VexAt + 1 + SizeAt(VexAt + 1)]
      <4>1. (r.ok <=> rest > 0 /\ rest >= SizeAt(VexAt + 1))
            /\ r.next = VexAt + 1 + SizeAt(VexAt + 1)
        OBVIOUS
      <4>2. operand = r
        BY <2>3
      <4> HIDE DEF r
      <4> QED
        BY <4>1, <4>2
    <3> QED
      BY <2>3, <3>1 DEF rest, k
<1>4. Fixed = n + (header + 1 + SizeAt(VexAt + 1)) /\ Encoded = Fixed + imm
  <2> DEFINE map == IF op = \hC5 THEN 1 ELSE Memory[n + 1] % 32
             bare == map = 1 /\ Memory[n + header] = \h77
             f == header + 1 + IF bare THEN 0 ELSE Format!OperandSize(Memory, n + header + 1)
             i == IF map = 3 \/ (map = 1 /\ Memory[n + header] \in Format!Ib2) THEN 1 ELSE 0
  <2>1. Format!PartsAt(Memory, n, seen, RexWBefore) = Format!Parts(f, i)
    BY <1>1 DEF Format!PartsAt, Format!PartsVex
  <2>2. (Starts(<<\hC5>>) <=> op = \hC5) /\ (Starts(<<\hC4>>) <=> op = \hC4)
    <3>1. n + 1 - 1 = n
      BY <1>1
    <3> QED
      BY <3>1 DEF Starts
  <2>3. ~bare
    BY <1>1, <2>2 DEF VexMisread
  <2>4. VexCounted <=> (Format!EncodedParts(Memory).immediate = 1)
    BY <1>1, <1>2, <2>2 DEF VexMisread, VexCounted
  <2>5. f = header + 1 + SizeAt(VexAt + 1) /\ f \in Int /\ i \in Int
    <3>1. n + header + 1 = VexAt + 1
      BY <1>1, <1>2
    <3>2. f = header + 1 + Format!OperandSize(Memory, n + header + 1)
      BY <2>3
    <3> HIDE DEF header
    <3> QED
      BY <1>2, <1>3, <3>1, <3>2 DEF SizeAt
  <2> HIDE DEF f
  <2>6. Fixed = n + f /\ Encoded = n + f + i /\ Format!EncodedParts(Memory).immediate = i
    BY <2>1, <2>5, PartsFixed
  <2>7. i = imm
    BY <2>4, <2>6
  <2> HIDE DEF i, imm, header, map
  <2> QED
    BY <1>1, <2>5, <2>6, <2>7
<1>5. ~Ldisasm!HasModrm1(op) /\ ~Decode!HasModrm1(op)
  BY <1>1, Modrm1IsEncoded DEF Format!Modrm1, Format!Arithmetic
<1> DEFINE own == left > 1 /\ Memory[n + 1] \div 64 # 3
<1>6. ASSUME Ldisasm!OneByte(Memory, n, left, Lp) # Ldisasm!Zero
      PROVE  Ldisasm!OneByte(Memory, n, left, Lp) =
               Ldisasm!Found(1, Memory[VexAt], operand, operand.next + imm)
             /\ operand.ok
  <2>1. ~own
    <3>1. Ldisasm!Operand(Memory, n + 1, left - 1).has_modrm
      BY DEF Ldisasm!Operand
    <3> QED
      BY <1>1, <1>6, <3>1 DEF Ldisasm!OneByte, Ldisasm!Mod
  <2>2. Ldisasm!OneByte(Memory, n, left, Lp) = Ldisasm!Vex(Memory, n, left)
    BY <1>1, <1>5, <1>6, <2>1 DEF Ldisasm!OneByte, Ldisasm!Mod, Ldisasm!NoOperand
  <2>3. (IF three /\ Memory[VexAt] \in {\h0C, \h0D, \h40, \h41, \h17, \h21, \h42} THEN 1 ELSE 0) = imm
    BY DEF VexCounted
  <2>4. VexAt = n + IF three THEN 3 ELSE 2
    BY DEF VexAt
  <2> QED
    BY <1>6, <2>2, <2>3, <2>4 DEF Ldisasm!Vex
<1>7. ASSUME Decode!DecodeOneByte(Memory, n, left, Dp) # Decode!Invalid
      PROVE  Decode!DecodeOneByte(Memory, n, left, Dp).length = operand.next - 1 + imm
  <2>1. ~own
    <3>1. Decode!Operand(Memory, n + 1, left - 1).has_modrm
      BY DEF Decode!Operand
    <3> QED
      BY <1>1, <1>7, <3>1 DEF Decode!DecodeOneByte, Decode!Mod
  <2>2. Decode!DecodeOneByte(Memory, n, left, Dp) = Decode!DecodeVex(Memory, n, left)
    BY <1>1, <1>5, <1>7, <2>1 DEF Decode!DecodeOneByte, Decode!Mod, Decode!NoOperand
  <2>3. (IF three /\ Memory[VexAt] \in {\h0C, \h0D, \h40, \h41, \h17, \h21, \h42} THEN 1 ELSE 0) = imm
    BY DEF VexCounted
  <2>4. VexAt = n + IF three THEN 3 ELSE 2
    BY DEF VexAt
  <2>5. Decode!DecodeVex(Memory, n, left) =
          Decode!Decoded("OTHER", 1, Memory[VexAt], operand, operand.next - 1 + imm)
    BY <1>3, <1>7, <2>2, <2>3, <2>4 DEF Decode!DecodeVex
  <2> QED
    BY <2>2, <2>5 DEF Decode!Decoded
<1> HIDE DEF operand, imm, header
<1>8. operand.next = Fixed /\ imm \in Int /\ Fixed \in Int
  BY <1>1, <1>2, <1>3, <1>4 DEF imm
<1>9. operand.ok => Fixed <= n + left
  BY <1>1, <1>2, <1>3, <1>4
<1> QED
  BY <1>4, <1>6, <1>7, <1>8, <1>9 DEF Ldisasm!Found

-----------------------------------------------------------------------------
(* The functions as a whole. *)

LEMMA StartsIs ==
  ASSUME Laid, NEW a, NEW b
  PROVE  /\ Starts(<<a, b>>) <=> Memory[n] = a /\ Memory[n + 1] = b
         /\ Starts(<<a>>) <=> Memory[n] = a
<1>1. n \in Int /\ n + 1 - 1 = n /\ n + 2 - 1 = n + 1
  BY LaidFacts
<1>2. Starts(<<a, b>>) <=> \A j \in 1 .. 2 : Memory[n + j - 1] = <<a, b>>[j]
  BY DEF Starts
<1>3. Starts(<<a>>) <=> \A j \in 1 .. 1 : Memory[n + j - 1] = <<a>>[j]
  BY DEF Starts
<1>4. ASSUME NEW P(_)
      PROVE  (\A j \in 1 .. 2 : P(j)) <=> P(1) /\ P(2)
  OBVIOUS
<1>5. (\A j \in 1 .. 2 : Memory[n + j - 1] = <<a, b>>[j])
        <=> Memory[n + 1 - 1] = a /\ Memory[n + 2 - 1] = b
  OBVIOUS
<1>6. (\A j \in 1 .. 1 : Memory[n + j - 1] = <<a>>[j]) <=> Memory[n + 1 - 1] = a
  OBVIOUS
<1> QED
  BY <1>1, <1>2, <1>3, <1>5, <1>6

Left == Ldisasm!RemainingSize(n, size)

LEMMA LeftIs ==
  ASSUME Laid, size \in Nat
  PROVE  /\ Left \in 0 .. 15
         /\ size >= n => /\ n + Left = Min({size, MaximumLength})
                         /\ Decode!NumPrefixes(Memory, size) = n
                         /\ Decode!Min({15, size}) - n = Left
         /\ size < n => Decode!Min({15, size}) - Decode!NumPrefixes(Memory, size) = 0
<1>1. n \in 0 .. 15 /\ size \in Nat
  BY LaidFacts
<1>2. Left = IF size < n THEN 15 - n ELSE IF 15 - n <= size - n THEN 15 - n ELSE size - n
  <2>1. Ldisasm!Min({15 - n, size - n}) = IF 15 - n <= size - n THEN 15 - n ELSE size - n
    <3> DEFINE a == 15 - n
               b == size - n
    <3>1. a \in Int /\ b \in Int
      BY <1>1
    <3> HIDE DEF a, b
    <3>2. Ldisasm!Min({a, b}) = IF a <= b THEN a ELSE b
      BY <3>1, Minimum
    <3> QED
      BY <3>2 DEF a, b
  <2> QED
    BY <2>1 DEF Left, Ldisasm!RemainingSize, Ldisasm!MaximumLength
<1>3. /\ Min({size, MaximumLength}) = IF size <= 15 THEN size ELSE 15
      /\ Decode!Min({15, size}) = IF 15 <= size THEN 15 ELSE size
  BY <1>1, Minimum DEF MaximumLength
<1>4. /\ size >= n => Decode!NumPrefixes(Memory, size) = n
      /\ size < n => Decode!Min({15, size}) - Decode!NumPrefixes(Memory, size) = 0
  BY <1>1, DecodeFront DEF n
<1> QED
  BY <1>1, <1>2, <1>3, <1>4

(* The instruction that either function finds, before it asks for LOCK. *)
LFound == Ldisasm!Instruction(Memory, n, Left, Lp)
DFound == Decode!Instruction(Memory, n, Left, Dp)
Locked(insn) ==
  LOCK \in seen /\ ~Ldisasm!Lockable(insn.opcode_size, insn.op, insn.operand)

LEMMA LengthIs ==
  ASSUME Laid
  PROVE  Ldisasm!ldisasm(Memory, size) =
           IF LFound.length = 0 \/ Locked(LFound) THEN 0 ELSE LFound.length
<1>1. Ldisasm!NumPrefixes(Memory) = n
  BY FrontIs DEF n
<1>2. Ldisasm!LOCK \in Lp.seen <=> LOCK \in seen
  BY PrefixFacts DEF Ldisasm!LOCK, LOCK
<1>3. Ldisasm!ldisasm(Memory, size) =
        IF LFound.length = 0 THEN 0
        ELSE IF Ldisasm!LOCK \in Lp.seen /\ ~Ldisasm!Lockable(LFound.opcode_size, LFound.op, LFound.operand)
          THEN 0
        ELSE LFound.length
  BY <1>1 DEF Ldisasm!ldisasm, LFound, Left, Lp
<1> QED
  BY <1>2, <1>3 DEF Locked

LEMMA DecodedIs ==
  ASSUME Laid, size \in Nat
  PROVE  LET insn == Decode!nmd_x86_decode(Memory, size)
         IN  IF size < n \/ ~DFound.valid \/ Locked(DFound) THEN ~insn.valid
             ELSE insn.valid /\ insn.length = DFound.length
<1> DEFINE insn == Decode!nmd_x86_decode(Memory, size)
<1>1. ~Decode!Invalid.valid
  BY DEF Decode!Invalid
<1>2. CASE size < n
  <2>1. Decode!Min({Decode!MaximumLength, size}) - Decode!NumPrefixes(Memory, size) = 0
    BY <1>2, LeftIs DEF Decode!MaximumLength
  <2>2. insn = Decode!Invalid
    BY <1>1, <2>1 DEF Decode!nmd_x86_decode, Decode!Instruction
  <2> QED
    BY <1>1, <1>2, <2>2
<1>3. CASE size >= n
  <2>1. Decode!NumPrefixes(Memory, size) = n /\ Decode!Min({Decode!MaximumLength, size}) - n = Left
    BY <1>3, LeftIs DEF Decode!MaximumLength
  <2>2. insn = IF ~DFound.valid \/ Decode!NotLockable(DFound, Dp) THEN Decode!Invalid
               ELSE Decode!Described(DFound, Dp)
    BY <2>1 DEF Decode!nmd_x86_decode, DFound, Dp
  <2>3. Decode!NotLockable(DFound, Dp) <=> Locked(DFound)
    <3>1. Decode!LOCK \in Dp.seen <=> LOCK \in seen
      BY PrefixFacts DEF Decode!LOCK, LOCK
    <3>2. Decode!Lockable(DFound.opcode_size, DFound.op, DFound.operand)
            <=> Ldisasm!Lockable(DFound.opcode_size, DFound.op, DFound.operand)
      BY SameLockable
    <3> QED
      BY <3>1, <3>2 DEF Decode!NotLockable, Locked
  <2>4. Decode!Described(DFound, Dp).valid /\ Decode!Described(DFound, Dp).length = DFound.length
    BY DEF Decode!Described
  <2>5. ~(size < n)
    <3>1. n \in Int
      BY LaidFacts
    <3> QED
      BY <1>3, <3>1
  <2> QED
    BY <1>1, <2>2, <2>3, <2>4, <2>5
<1>4. n \in Int
  BY LaidFacts
<1> QED
  BY <1>2, <1>3, <1>4

LEMMA FoundIsEncoded ==
  ASSUME Laid, size \in Nat, ~Misread, ~VexMisread, ~ThreeDNow, LFound.length # 0
  PROVE  /\ LFound.length = Encoded
         /\ Fixed <= n + Left \/ (Left = 2 /\ \E op \in \h20 .. \h23 : Starts(<<\h0F, op>>))
<1> DEFINE op == Memory[n]
           op2 == Memory[n + 1]
<1>1. Left \in 0 .. 15
  BY LeftIs
<1>2. ~(op = \h0F /\ op2 = \h0F)
  BY StartsIs DEF ThreeDNow
<1>3. LFound # Ldisasm!Zero /\ Ldisasm!Zero.length = 0
  BY DEF Ldisasm!Zero
<1>4. Left # 0
  BY <1>3 DEF LFound, Ldisasm!Instruction
<1>5. CASE op \in {\hC4, \hC5}
  <2>1. LFound = Ldisasm!OneByte(Memory, n, Left, Lp)
    BY <1>4, <1>5 DEF LFound, Ldisasm!Instruction
  <2> QED
    BY <1>1, <1>3, <1>5, <2>1, VexIsEncoded DEF Vex
<1>6. CASE op \notin {\hC4, \hC5, \h0F}
  <2>1. LFound = Ldisasm!OneByte(Memory, n, Left, Lp)
    BY <1>4, <1>6 DEF LFound, Ldisasm!Instruction
  <2>2. ~Refused1(Left)
    BY <1>1, <1>3, <1>6, <2>1, OneByteIs
  <2>3. LFound.length =
          Operand1(Left).next + Ldisasm!Immediate1(Memory[n], Operand1(Left).modrm, Lp, Lp.rexW)
    BY <1>1, <1>6, <2>1, <2>2, OneByteIs DEF Ldisasm!Found
  <2> QED
    BY <1>1, <1>4, <1>6, <2>2, <2>3, OneByteIsEncoded
<1>7. CASE op = \h0F
  <2>1. Left # 1
    BY <1>3, <1>7 DEF LFound, Ldisasm!Instruction
  <2>2. CASE op2 \in {\h38, \h3A}
    <3>1. LFound = Ldisasm!ThreeByte(Memory, n, Left, Lp)
      BY <1>4, <1>7, <2>1, <2>2 DEF LFound, Ldisasm!Instruction
    <3>2. ~Refused3(Left, Lp.simd)
      BY <1>1, <1>3, <3>1, ThreeByteIs
    <3>3. LFound.length = Length3(Left)
      BY <1>1, <3>1, <3>2, ThreeByteIs DEF Ldisasm!Found
    <3> QED
      BY <1>1, <1>7, <2>2, <3>2, <3>3, ThreeByteIsEncoded
  <2>3. CASE op2 \notin {\h38, \h3A}
    <3>1. LFound = Ldisasm!TwoByte(Memory, n, Left, Lp)
      BY <1>2, <1>4, <1>7, <2>1, <2>3 DEF LFound, Ldisasm!Instruction
    <3>2. ~Refused2(Left, Lp)
      BY <1>1, <1>3, <3>1, TwoByteIs
    <3>3. LFound.length = Length2(Left, {REPNE, OPSIZE} \cap seen # {})
      BY <1>1, <3>1, <3>2, TwoByteIs DEF Ldisasm!Found
    <3>4. /\ LFound.length = Encoded
          /\ Fixed <= n + Left \/ (Left = 2 /\ op2 \in \h20 .. \h23)
      BY <1>1, <1>2, <1>4, <1>7, <2>1, <2>3, <3>2, <3>3, TwoByteIsEncoded
    <3>5. Starts(<<\h0F, op2>>)
      BY <1>7, StartsIs
    <3> QED
      BY <3>4, <3>5
  <2> QED
    BY <2>2, <2>3
<1> QED
  BY <1>5, <1>6, <1>7

LEMMA DecodedIsEncoded ==
  ASSUME Laid, size \in Nat, ~Misread, ~VexMisread, DFound.valid, ~Locked(DFound)
  PROVE  DFound.length = Encoded - IF Vex THEN 1 ELSE 0
<1> DEFINE op == Memory[n]
           op2 == Memory[n + 1]
<1>1. Left \in 0 .. 15
  BY LeftIs
<1>3. DFound # Decode!Invalid
  BY DEF Decode!Invalid
<1>4. Left # 0
  BY <1>3 DEF DFound, Decode!Instruction
<1>0. Encoded \in Int => Encoded - 0 = Encoded
  OBVIOUS
<1>5. CASE op \in {\hC4, \hC5}
  <2>1. DFound = Decode!DecodeOneByte(Memory, n, Left, Dp)
    BY <1>4, <1>5 DEF DFound, Decode!Instruction
  <2> QED
    BY <1>1, <1>3, <1>5, <2>1, VexIsEncoded DEF Vex
<1>6. CASE op \notin {\hC4, \hC5}
  <2> SUFFICES DFound.length = Encoded /\ Encoded \in Int
    BY <1>0, <1>6 DEF Vex
  <2>0. Encoded \in Int
    <3>1. n \in Int /\ \A k \in 0 .. 10 : SizeAt(n + k) \in Int
      BY LaidFacts
    <3>2. CASE op # \h0F
      <4>1. Coded1(op, Reg(Memory[n + 1]), seen, RexWBefore) \in Int
        BY DEF Coded1
      <4>2. SizeAt(n + 1) \in Int
        BY <3>1
      <4> QED
        BY <1>6, <3>1, <3>2, <4>1, <4>2, EncodedOne
    <3>3. CASE op = \h0F
      <4>1. SizeAt(n + 2) \in Int /\ SizeAt(n + 3) \in Int
        BY <3>1
      <4>2. CASE op2 \in {\h0F, \h38, \h3A}
        <5>1. \E f, immediate \in Int :
                 Format!PartsAt(Memory, n, seen, RexWBefore) = Format!Parts(f, immediate)
          <6>1. CASE op2 = \h0F
            <7>1. Format!PartsAt(Memory, n, seen, RexWBefore) = Format!Parts(2 + SizeAt(n + 2), 1)
              BY <3>3, <6>1 DEF Format!PartsAt, SizeAt
            <7> QED
              BY <4>1, <7>1
          <6>2. CASE op2 = \h38
            <7>1. Format!PartsAt(Memory, n, seen, RexWBefore) = Format!Parts(3 + SizeAt(n + 3), 0)
              BY <3>3, <6>2 DEF Format!PartsAt, SizeAt
            <7> QED
              BY <4>1, <7>1
          <6>3. CASE op2 = \h3A
            <7>1. Format!PartsAt(Memory, n, seen, RexWBefore) = Format!Parts(3 + SizeAt(n + 3), 1)
              BY <3>3, <6>3 DEF Format!PartsAt, SizeAt
            <7> QED
              BY <4>1, <7>1
          <6> QED
            BY <4>2, <6>1, <6>2, <6>3
        <5> QED
          BY <3>1, <5>1, PartsFixed
      <4>3. CASE op2 \notin {\h0F, \h38, \h3A}
        BY <3>1, <3>3, <4>1, <4>3, EncodedTwo
      <4> QED
        BY <4>2, <4>3
    <3> QED
      BY <3>2, <3>3
  <2>1. CASE op # \h0F
    <3>1. DFound = Decode!DecodeOneByte(Memory, n, Left, Dp)
      BY <1>4, <2>1 DEF DFound, Decode!Instruction
    <3>2. ~Refused1(Left)
      BY <1>1, <1>3, <1>6, <2>1, <3>1, OneByteIs
    <3>3. DFound.length =
            Operand1(Left).next + Ldisasm!Immediate1(Memory[n], Operand1(Left).modrm, Dp, Dp.rexW)
      BY <1>1, <1>6, <2>1, <3>1, <3>2, OneByteIs DEF Decode!Decoded
    <3> QED
      BY <1>1, <1>4, <1>6, <2>0, <2>1, <3>2, <3>3, OneByteIsEncoded
  <2>2. CASE op = \h0F
    <3>1. Left # 1
      BY <1>3, <2>2 DEF DFound, Decode!Instruction
    <3>2. CASE op2 \in {\h38, \h3A}
      <4>1. DFound = Decode!DecodeThreeByte(Memory, n, Left, Dp)
        BY <1>4, <2>2, <3>1, <3>2 DEF DFound, Decode!Instruction
      <4>2. ~Refused3(Left, Dp.simd)
        BY <1>1, <1>3, <4>1, ThreeByteIs
      <4>3. DFound.length = Length3(Left)
        BY <1>1, <4>1, <4>2, ThreeByteIs DEF Decode!Decoded
      <4> QED
        BY <1>1, <2>0, <2>2, <3>2, <4>2, <4>3, ThreeByteIsEncoded
    <3>3. CASE op2 = \h0F
      <4>1. DFound = Decode!Decode3DNow(Memory, n, Left)
        BY <1>4, <2>2, <3>1, <3>3 DEF DFound, Decode!Instruction
      <4> QED
        BY <1>1, <1>3, <2>0, <2>2, <3>3, <4>1, ThreeDNowIsEncoded
    <3>4. CASE op2 \notin {\h0F, \h38, \h3A}
      <4>1. DFound = Decode!DecodeTwoByte(Memory, n, Left, Dp)
        BY <1>4, <2>2, <3>1, <3>4 DEF DFound, Decode!Instruction
      <4>2. ~Refused2(Left, Dp)
        BY <1>1, <1>3, <4>1, TwoByteIs
      <4>3. DFound = Decode!Decoded("0F", 2, op2, Operand2(Left),
                                    Length2(Left, Dp.simd \in {REPNE, OPSIZE}))
        BY <1>1, <4>1, <4>2, TwoByteIs
      <4>4. DFound.length = Length2(Left, Dp.simd \in {REPNE, OPSIZE})
            /\ DFound.opcode_size = 2 /\ DFound.op = op2
        BY <4>3 DEF Decode!Decoded
      <4>5. LOCK \in seen => op2 # \h78
        <5>1. LOCK \in seen => Ldisasm!Lockable(2, op2, DFound.operand)
          BY <4>4 DEF Locked
        <5> QED
          BY <5>1 DEF Ldisasm!Lockable, Ldisasm!two_opcodes
      <4> QED
        BY <1>1, <1>4, <2>0, <2>2, <3>1, <3>4, <4>2, <4>4, <4>5, TwoByteIsEncoded
    <3> QED
      BY <3>2, <3>3, <3>4
  <2> QED
    BY <2>1, <2>2
<1> QED
  BY <1>5, <1>6

-----------------------------------------------------------------------------
(* Which of the prefixes selects the instruction. *)

LEMMA AtMostOne ==
  ASSUME NEW S, IsFiniteSet(S), Cardinality(S) <= 1, NEW x \in S, NEW y \in S
  PROVE  x = y
<1> SUFFICES ASSUME x # y
             PROVE  FALSE
  OBVIOUS
<1>1. IsFiniteSet({x}) /\ Cardinality({x}) = 1
  BY FS_Singleton
<1>2. Cardinality({x} \cup {y}) = 2 /\ IsFiniteSet({x} \cup {y})
  BY <1>1, FS_AddElement
<1>3. Cardinality({x} \cup {y}) <= Cardinality(S)
  BY FS_Subset
<1>4. Cardinality(S) \in Nat
  BY FS_CardinalityType
<1> QED
  BY <1>2, <1>3, <1>4

OneSelects == Cardinality(seen \cap {OPSIZE, REP, REPNE, LOCK}) <= 1

LEMMA Selected ==
  ASSUME Laid, OneSelects
  PROVE  /\ LOCK \notin seen =>
              Lp.simd = Dp.simd /\ \A b \in Selects : b \in Lp.has <=> b \in Dp.has
         /\ LOCK \in seen =>
              /\ Lp.simd = 0 /\ Dp.simd = LOCK
              /\ \A b \in Selects : b \notin Lp.has /\ b \notin Dp.has
<1> DEFINE S == seen \cap {OPSIZE, REP, REPNE, LOCK}
<1>1. IsFiniteSet(S)
  <2>1. IsFiniteSet({OPSIZE} \cup {REP} \cup {REPNE} \cup {LOCK})
    <3>1. IsFiniteSet({OPSIZE} \cup {REP})
      BY FS_Singleton, FS_AddElement
    <3>2. IsFiniteSet({OPSIZE} \cup {REP} \cup {REPNE})
      BY <3>1, FS_AddElement
    <3> QED
      BY <3>2, FS_AddElement
  <2>2. S \in SUBSET ({OPSIZE} \cup {REP} \cup {REPNE} \cup {LOCK})
    OBVIOUS
  <2> QED
    BY <2>1, <2>2, FS_Subset
<1>2. \A x, y \in S : x = y
  BY <1>1, AtMostOne DEF OneSelects
<1>3. /\ Lp.has = {Lp.simd} /\ Dp.has = seen
      /\ IF seen \cap Selects = {} THEN Lp.simd = 0 ELSE Lp.simd \in seen \cap Selects
      /\ IF seen \cap (Selects \cup {LOCK}) = {} THEN Dp.simd = 0
         ELSE Dp.simd \in seen \cap (Selects \cup {LOCK})
  BY PrefixFacts
<1> QED
  BY <1>2, <1>3 DEF Selects, OPSIZE, REP, REPNE, LOCK

(* The table of two-byte opcodes asks of the prefixes only which of these   *)
(* there are. *)
LEMMA Reserved2By ==
  ASSUME NEW op, NEW operand, NEW p, NEW q,
         p.simd = q.simd, p.seen = q.seen, \A b \in Selects : b \in p.has <=> b \in q.has
  PROVE  Ldisasm!Reserved2(op, operand, p) <=> Ldisasm!Reserved2(op, operand, q)
<1>1. /\ Ldisasm!OPSIZE \in p.has <=> Ldisasm!OPSIZE \in q.has
      /\ Ldisasm!REP \in p.has <=> Ldisasm!REP \in q.has
      /\ Ldisasm!REPNE \in p.has <=> Ldisasm!REPNE \in q.has
  BY DEF Selects, OPSIZE, REP, REPNE, Ldisasm!OPSIZE, Ldisasm!REP, Ldisasm!REPNE
<1>2. /\ p.has \cap {Ldisasm!OPSIZE, Ldisasm!REPNE, Ldisasm!REP} # {}
           <=> q.has \cap {Ldisasm!OPSIZE, Ldisasm!REPNE, Ldisasm!REP} # {}
      /\ p.has \cap {Ldisasm!OPSIZE, Ldisasm!REP, Ldisasm!REPNE} = {}
           <=> q.has \cap {Ldisasm!OPSIZE, Ldisasm!REP, Ldisasm!REPNE} = {}
      /\ p.has \cap {Ldisasm!REP, Ldisasm!REPNE} = {} <=> q.has \cap {Ldisasm!REP, Ldisasm!REPNE} = {}
      /\ p.has \cap {Ldisasm!REP, Ldisasm!REPNE} # {} <=> q.has \cap {Ldisasm!REP, Ldisasm!REPNE} # {}
  BY <1>1
<1>3. /\ \A m : Ldisasm!Reserved01(m, p) <=> Ldisasm!Reserved01(m, q)
      /\ Ldisasm!ReservedRegister(op, operand, p) <=> Ldisasm!ReservedRegister(op, operand, q)
  BY <1>1, <1>2 DEF Ldisasm!Reserved01, Ldisasm!ReservedRegister
<1> QED
  BY <1>1, <1>2, <1>3, SMTT(60) DEF Ldisasm!Reserved2

(* An instruction that may be locked is none of those a prefix selects. *)
LEMMA Reserved2Locked ==
  ASSUME NEW op \in Byte, NEW operand, NEW p, NEW q, Ldisasm!Lockable(2, op, operand),
         p.seen = q.seen, \A b \in Selects : b \notin p.has /\ b \notin q.has,
         p.simd = 0, q.simd = LOCK
  PROVE  Ldisasm!Reserved2(op, operand, p) <=> Ldisasm!Reserved2(op, operand, q)
<1> DEFINE m == operand.modrm
<1>1. /\ operand.has_modrm /\ Ldisasm!Mod(m) # 3
      /\ \/ op \in {\hB0, \hB1, \hB3, \hBB, \hC0, \hC1, \hAB}
         \/ op = \hBA
         \/ op = \hC7 /\ Ldisasm!Reg(m) = 1
  BY DEF Ldisasm!Lockable, Ldisasm!two_opcodes
<1>2. /\ p.has \cap {Ldisasm!REP, Ldisasm!REPNE} = {}
      /\ q.has \cap {Ldisasm!REP, Ldisasm!REPNE} = {}
  BY DEF Selects, REP, REPNE, Ldisasm!REP, Ldisasm!REPNE
<1>3. Ldisasm!Row(op) \in {10, 11, 12} /\ Ldisasm!Column(op) \in Int
  BY <1>1 DEF Ldisasm!Row, Ldisasm!Column
<1>4. CASE op = \hC7
  <2>1. ~Ldisasm!ReservedC7(m, p.simd)
    BY <1>1, <1>4 DEF Ldisasm!ReservedC7, Ldisasm!REPNE, Ldisasm!REP, Ldisasm!OPSIZE, Ldisasm!NoPrefix
  <2>2. ~Ldisasm!ReservedC7(m, q.simd)
    BY <1>1, <1>4 DEF Ldisasm!ReservedC7, Ldisasm!REPNE, Ldisasm!REP, Ldisasm!OPSIZE, Ldisasm!NoPrefix,
       LOCK
  <2>3. \A r : Ldisasm!Reserved2(op, operand, r) <=> Ldisasm!ReservedC7(m, r.simd)
    BY <1>3, <1>4 DEF Ldisasm!Reserved2, Ldisasm!invalid_op2
  <2> QED
    BY <2>1, <2>2, <2>3
<1>5. CASE op = \hBA
  <2>1. \A r : Ldisasm!Reserved2(op, operand, r) <=> Ldisasm!Reg(m) <= 3
    BY <1>3, <1>5 DEF Ldisasm!Reserved2, Ldisasm!invalid_op2
  <2> QED
    BY <2>1
<1>6. CASE op \in {\hB0, \hB1, \hB3, \hBB, \hC0, \hC1, \hAB}
  <2>1. \A r : r.has \cap {Ldisasm!REP, Ldisasm!REPNE} = {} => ~Ldisasm!Reserved2(op, operand, r)
    BY <1>1, <1>3, <1>6 DEF Ldisasm!Reserved2, Ldisasm!invalid_op2, Ldisasm!ReservedMmx,
       Ldisasm!ReservedRegister
  <2> QED
    BY <1>2, <2>1
<1> QED
  BY <1>1, <1>4, <1>5, <1>6

LEMMA SameFound ==
  ASSUME Laid, size \in Nat, OneSelects, ~ThreeDNow, ~Vex
  PROVE  LFound.length = 0 \/ Locked(LFound) <=> ~DFound.valid \/ Locked(DFound)
<1> DEFINE op == Memory[n]
           op2 == Memory[n + 1]
<1>1. Left \in 0 .. 15 /\ n \in Nat
  <2>1. n \in 0 .. 15
    BY LaidFacts
  <2> QED
    BY <2>1, LeftIs
<1>2. ~(op = \h0F /\ op2 = \h0F) /\ op \notin {\hC4, \hC5}
  BY ZenonT(60), StartsIs DEF ThreeDNow, Vex
<1>3. Ldisasm!Zero.length = 0 /\ ~Decode!Invalid.valid
  BY DEF Ldisasm!Zero, Decode!Invalid
<1>4. \A k \in 1 .. 3 : SizeAt(n + k) \in 1 .. 6
  BY LaidFacts
<1>a. SizeAt(n + 1) \in 1 .. 6 /\ SizeAt(n + 2) \in 1 .. 6 /\ SizeAt(n + 3) \in 1 .. 6
  BY <1>4
(* Both find it, with a length, and hold the same against a LOCK. *)
<1>5. ASSUME NEW k, NEW o, NEW operand, NEW l, NEW d, NEW map, NEW length2,
             l # 0, LFound = Ldisasm!Found(k, o, operand, l),
             DFound = Decode!Decoded(map, k, o, operand, length2)
      PROVE  LFound.length = 0 \/ Locked(LFound) <=> ~DFound.valid \/ Locked(DFound)
  <2>1. /\ LFound.length # 0 /\ LFound.opcode_size = k /\ LFound.op = o /\ LFound.operand = operand
        /\ DFound.valid /\ DFound.opcode_size = k /\ DFound.op = o /\ DFound.operand = operand
    BY <1>5 DEF Ldisasm!Found, Decode!Decoded
  <2> QED
    BY <2>1 DEF Locked
<1>6. CASE Left = 0
  <2>1. LFound = Ldisasm!Zero /\ DFound = Decode!Invalid
    BY <1>6 DEF LFound, DFound, Ldisasm!Instruction, Decode!Instruction
  <2> QED
    BY <1>3, <2>1
<1>7. CASE Left # 0 /\ op # \h0F
  <2>1. /\ LFound = Ldisasm!OneByte(Memory, n, Left, Lp)
        /\ DFound = Decode!DecodeOneByte(Memory, n, Left, Dp)
    BY <1>7 DEF LFound, DFound, Ldisasm!Instruction, Decode!Instruction
  <2>2. CASE Refused1(Left)
    <3>1. LFound = Ldisasm!Zero /\ DFound = Decode!Invalid
      BY <1>1, <1>2, <1>7, <2>1, <2>2, OneByteIs
    <3> QED
      BY <1>3, <3>1
  <2>3. CASE ~Refused1(Left)
    <3> DEFINE l == Operand1(Left).next + Ldisasm!Immediate1(op, Operand1(Left).modrm, Lp, Lp.rexW)
               length2 == Operand1(Left).next + Ldisasm!Immediate1(op, Operand1(Left).modrm, Dp, Dp.rexW)
    <3>1. /\ LFound = Ldisasm!Found(1, op, Operand1(Left), l)
          /\ DFound = Decode!Decoded("DEFAULT", 1, op, Operand1(Left), length2)
      BY <1>1, <1>2, <1>7, <2>1, <2>3, OneByteIs
    <3>2. Operand1(Left).next \in Nat /\ Operand1(Left).next > 0
      BY <1>1, <1>a DEF Operand1
    <3>3. l # 0
      BY <3>2, Immediate1Size
    <3> HIDE DEF l, length2
    <3> QED
      BY <1>5, <3>1, <3>3
  <2> QED
    BY <2>2, <2>3
<1>8. CASE Left = 1 /\ op = \h0F
  <2>1. LFound = Ldisasm!Zero /\ DFound = Decode!Invalid
    BY <1>8 DEF LFound, DFound, Ldisasm!Instruction, Decode!Instruction
  <2> QED
    BY <1>3, <2>1
<1>9. CASE Left \notin {0, 1} /\ op = \h0F /\ op2 \in {\h38, \h3A}
  <2>1. /\ LFound = Ldisasm!ThreeByte(Memory, n, Left, Lp)
        /\ DFound = Decode!DecodeThreeByte(Memory, n, Left, Dp)
    BY <1>9 DEF LFound, DFound, Ldisasm!Instruction, Decode!Instruction
  <2>2. CASE LOCK \notin seen
    <3>1. Lp.simd = Dp.simd
      BY <2>2, Selected
    <3>2. CASE Refused3(Left, Lp.simd)
      <4>1. LFound = Ldisasm!Zero /\ DFound = Decode!Invalid
        BY <1>1, <2>1, <3>1, <3>2, ThreeByteIs
      <4> QED
        BY <1>3, <4>1
    <3>3. CASE ~Refused3(Left, Lp.simd)
      <4> DEFINE map == IF op2 = \h38 THEN "0F38" ELSE "0F3A"
                 l == Length3(Left)
      <4>1. /\ LFound = Ldisasm!Found(3, Memory[n + 2], Operand3(Left), l)
            /\ DFound = Decode!Decoded(map, 3, Memory[n + 2], Operand3(Left), l)
        BY <1>1, <2>1, <3>1, <3>3, ThreeByteIs
      <4>2. l # 0
        BY <1>1, <1>a DEF Length3, Operand3
      <4> HIDE DEF map, l
      <4> QED
        BY <1>5, <4>1, <4>2
    <3> QED
      BY <3>2, <3>3
  <2>3. CASE LOCK \in seen
    <3>1. \A o, operand : ~Ldisasm!Lockable(3, o, operand)
      BY DEF Ldisasm!Lockable
    <3>2. LFound = Ldisasm!Zero \/ LFound = Ldisasm!Found(3, Memory[n + 2], Operand3(Left), Length3(Left))
      BY <1>1, <2>1, ThreeByteIs
    <3>3. LFound = Ldisasm!Zero \/ LFound.opcode_size = 3
      BY <3>2 DEF Ldisasm!Found
    <3>4. LFound.length = 0 \/ Locked(LFound)
      BY <1>3, <2>3, <3>1, <3>3 DEF Locked
    <3> DEFINE map == IF op2 = \h38 THEN "0F38" ELSE "0F3A"
    <3>5. DFound = Decode!Invalid
          \/ DFound = Decode!Decoded(map, 3, Memory[n + 2], Operand3(Left), Length3(Left))
      BY <1>1, <2>1, ThreeByteIs
    <3>6. DFound = Decode!Invalid \/ DFound.opcode_size = 3
      BY <3>5 DEF Decode!Decoded
    <3>7. ~DFound.valid \/ Locked(DFound)
      BY <1>3, <2>3, <3>1, <3>6 DEF Locked
    <3> QED
      BY <3>4, <3>7
  <2> QED
    BY <2>2, <2>3
<1>10. CASE Left \notin {0, 1} /\ op = \h0F /\ op2 \notin {\h38, \h3A}
  <2>1. /\ LFound = Ldisasm!TwoByte(Memory, n, Left, Lp)
        /\ DFound = Decode!DecodeTwoByte(Memory, n, Left, Dp)
    BY <1>2, <1>10 DEF LFound, DFound, Ldisasm!Instruction, Decode!Instruction
  <2> DEFINE l == Length2(Left, {REPNE, OPSIZE} \cap seen # {})
             length2 == Length2(Left, Dp.simd \in {REPNE, OPSIZE})
  <2>2. /\ LFound = IF Refused2(Left, Lp) THEN Ldisasm!Zero
                    ELSE Ldisasm!Found(2, op2, Operand2(Left), l)
        /\ DFound = IF Refused2(Left, Dp) THEN Decode!Invalid
                    ELSE Decode!Decoded("0F", 2, op2, Operand2(Left), length2)
    BY <1>1, <2>1, TwoByteIs
  <2>3. l # 0
    <3>1. Operand2(Left).next \in Nat /\ Operand2(Left).next > 0
      BY <1>1, <1>a DEF Operand2
    <3>2. \A imm16 : Ldisasm!Immediate2(op2, imm16) \in Nat
      BY DEF Ldisasm!Immediate2
    <3> QED
      BY <3>1, <3>2 DEF Length2
  <2>4. op2 \in Byte
    BY LaidFacts
  <2>5. Lp.seen = Dp.seen
    BY PrefixFacts
  <2> HIDE DEF l, length2
  <2>6. CASE Refused2(Left, Lp) <=> Refused2(Left, Dp)
    <3>1. CASE Refused2(Left, Lp)
      BY <1>3, <2>2, <2>6, <3>1
    <3>2. CASE ~Refused2(Left, Lp)
      <4>1. /\ LFound = Ldisasm!Found(2, op2, Operand2(Left), l)
            /\ DFound = Decode!Decoded("0F", 2, op2, Operand2(Left), length2)
        BY <2>2, <2>6, <3>2
      <4> QED
        BY <1>5, <2>3, <4>1
    <3> QED
      BY <3>1, <3>2
  <2>7. CASE LOCK \notin seen
    <3>1. Ldisasm!Reserved2(op2, Operand2(Left), Lp) <=> Ldisasm!Reserved2(op2, Operand2(Left), Dp)
      BY <2>5, <2>7, Selected, Reserved2By
    <3> QED
      BY <2>6, <3>1 DEF Refused2
  <2>8. CASE LOCK \in seen /\ Ldisasm!Lockable(2, op2, Operand2(Left))
    <3>1. Ldisasm!Reserved2(op2, Operand2(Left), Lp) <=> Ldisasm!Reserved2(op2, Operand2(Left), Dp)
      BY <2>4, <2>5, <2>8, Selected, Reserved2Locked
    <3> QED
      BY <2>6, <3>1 DEF Refused2
  <2>9. CASE LOCK \in seen /\ ~Ldisasm!Lockable(2, op2, Operand2(Left))
    <3>1. LFound.length = 0 \/ Locked(LFound)
      <4>1. LFound = Ldisasm!Zero \/ LFound = Ldisasm!Found(2, op2, Operand2(Left), l)
        BY <2>2
      <4> QED
        BY <1>3, <2>9, <4>1 DEF Locked, Ldisasm!Found
    <3>2. ~DFound.valid \/ Locked(DFound)
      <4>1. DFound = Decode!Invalid \/ DFound = Decode!Decoded("0F", 2, op2, Operand2(Left), length2)
        BY <2>2
      <4> QED
        BY <1>3, <2>9, <4>1 DEF Locked, Decode!Decoded
    <3> QED
      BY <3>1, <3>2
  <2> QED
    BY <2>7, <2>8, <2>9
<1> QED
  BY <1>6, <1>7, <1>8, <1>9, <1>10

LEMMA DecodedOperands ==
  ASSUME Laid, size \in Nat, Decode!nmd_x86_decode(Memory, size).valid
  PROVE  Decode!nmd_x86_decode(Memory, size) = Decode!Described(DFound, Dp)
         /\ Decode!nmd_x86_decode(Memory, size).operands =
              Decode!OperandsOf([map |-> DFound.map, op |-> DFound.op,
                                 modrm |-> DFound.operand.modrm, p |-> Dp])
<1>1. ~(size < n)
  BY DecodedIs
<1>2. n \in Int
  BY LaidFacts
<1>3. Decode!NumPrefixes(Memory, size) = n /\ Decode!Min({Decode!MaximumLength, size}) - n = Left
  BY <1>1, <1>2, LeftIs DEF Decode!MaximumLength
<1>4. Decode!nmd_x86_decode(Memory, size) =
        IF ~DFound.valid \/ Decode!NotLockable(DFound, Dp) THEN Decode!Invalid
        ELSE Decode!Described(DFound, Dp)
  BY <1>3 DEF Decode!nmd_x86_decode, DFound, Dp
<1>5. ~Decode!Invalid.valid
  BY DEF Decode!Invalid
<1>6. Decode!nmd_x86_decode(Memory, size) = Decode!Described(DFound, Dp)
  BY <1>4, <1>5
<1> QED
  BY <1>6 DEF Decode!Described

(* In which table the decoder has found it. *)
LEMMA DecodedKind ==
  ASSUME Laid, size \in Nat, DFound.valid
  PROVE  \/ /\ DFound.opcode_size = 1 /\ DFound.map = "DEFAULT" /\ DFound.op = Memory[n]
            /\ DFound.operand.modrm \in Byte /\ Memory[n] \notin {\hC4, \hC5, \h0F, \hEA, \h9A}
            /\ ~Decode!Reserved1(DFound.op, DFound.operand.modrm)
            /\ Memory[n] \in Format!Modrm1 => DFound.operand.modrm = Memory[n + 1]
         \/ /\ DFound.opcode_size = 2 /\ DFound.map = "0F" /\ DFound.op = Memory[n + 1]
            /\ DFound.operand.modrm \in Byte /\ Memory[n] = \h0F
            /\ ~Decode!Reserved2(DFound.op, DFound.operand, Dp)
            /\ DFound.op \notin {\h0F, \h38, \h3A}
         \/ DFound.opcode_size = 3 /\ DFound.map \in {"0F38", "0F3A"}
         \/ DFound.map = "OTHER" /\ (DFound.opcode_size = 0 \/ Vex)
<1> DEFINE op == Memory[n]
           op2 == Memory[n + 1]
<1>1. Left \in 0 .. 15
  BY LeftIs
<1>2. DFound # Decode!Invalid
  BY DEF Decode!Invalid
<1>3. Left # 0 /\ Memory[n + 1] \in Byte /\ Memory[n + 2] \in Byte
  BY <1>2, LaidFacts DEF DFound, Decode!Instruction
<1>4. CASE op \in {\hC4, \hC5}
  <2>1. DFound = Decode!DecodeOneByte(Memory, n, Left, Dp)
    BY <1>3, <1>4 DEF DFound, Decode!Instruction
  <2>2. DFound = Decode!DecodeVex(Memory, n, Left)
    BY <1>2, <1>4, <2>1 DEF Decode!DecodeOneByte
  <2>3. DFound.map = "OTHER"
    BY <1>2, <2>2 DEF Decode!DecodeVex, Decode!Decoded
  <2> QED
    BY <1>4, <2>3 DEF Vex
<1>5. CASE op \notin {\hC4, \hC5, \h0F}
  <2>1. DFound = Decode!DecodeOneByte(Memory, n, Left, Dp)
    BY <1>3, <1>5 DEF DFound, Decode!Instruction
  <2>2. /\ ~Refused1(Left)
        /\ DFound = Decode!Decoded("DEFAULT", 1, op, Operand1(Left),
             Operand1(Left).next + Ldisasm!Immediate1(op, Operand1(Left).modrm, Dp, Dp.rexW))
    BY <1>1, <1>2, <1>3, <1>5, <2>1, OneByteIs
  <2>3. Operand1(Left).modrm \in Byte
    BY <1>3 DEF Operand1, Ldisasm!NoOperand, Byte
  <2>4. ~Decode!Reserved1(op, Operand1(Left).modrm) /\ op \notin {\hEA, \h9A}
    BY <2>2, SameReserved1 DEF Refused1
  <2>5. op \in Format!Modrm1 => Operand1(Left).modrm = Memory[n + 1]
    BY DEF Operand1
  <2> QED
    BY <1>5, <2>2, <2>3, <2>4, <2>5 DEF Decode!Decoded
<1>6. CASE op = \h0F
  <2>1. Left # 1
    BY <1>2, <1>6 DEF DFound, Decode!Instruction
  <2>2. CASE op2 \in {\h38, \h3A}
    <3>1. DFound = Decode!DecodeThreeByte(Memory, n, Left, Dp)
      BY <1>3, <1>6, <2>1, <2>2 DEF DFound, Decode!Instruction
    <3>2. DFound = Decode!Decoded(IF op2 = \h38 THEN "0F38" ELSE "0F3A", 3, Memory[n + 2],
                                  Operand3(Left), Length3(Left))
      BY <1>1, <1>2, <3>1, ThreeByteIs
    <3> QED
      BY <3>2 DEF Decode!Decoded
  <2>3. CASE op2 = \h0F
    <3>1. DFound = Decode!Decode3DNow(Memory, n, Left)
      BY <1>3, <1>6, <2>1, <2>3 DEF DFound, Decode!Instruction
    <3>2. DFound.opcode_size = 0 /\ DFound.map = "OTHER"
      BY <1>2, <3>1 DEF Decode!Decode3DNow, Decode!Decoded
    <3> QED
      BY <3>2
  <2>4. CASE op2 \notin {\h0F, \h38, \h3A}
    <3>1. DFound = Decode!DecodeTwoByte(Memory, n, Left, Dp)
      BY <1>3, <1>6, <2>1, <2>4 DEF DFound, Decode!Instruction
    <3>2. /\ ~Refused2(Left, Dp)
          /\ DFound = Decode!Decoded("0F", 2, op2, Operand2(Left),
                                     Length2(Left, Dp.simd \in {REPNE, OPSIZE}))
      BY <1>1, <1>2, <3>1, TwoByteIs
    <3>3. ~Decode!Reserved2(op2, Operand2(Left), Dp)
      BY <3>2, SameReserved2 DEF Refused2
    <3>4. Operand2(Left).modrm \in Byte
      BY <1>3 DEF Operand2, Byte
    <3> QED
      BY <1>6, <2>4, <3>2, <3>3, <3>4 DEF Decode!Decoded
  <2> QED
    BY <2>2, <2>3, <2>4
<1> QED
  BY <1>4, <1>5, <1>6

-----------------------------------------------------------------------------
(* What the functions have answered for is the code that is there. *)
Answered ==
  /\ bytes \in Seq(Byte) /\ size \in Nat /\ more \in Int
  /\ ~Complete => \E c \in Contexts : more \in 0 .. c.prefixes
  /\ Complete => /\ length = Ldisasm!ldisasm(Memory, size)
                 /\ decoded = Decode!nmd_x86_decode(Memory, size)

LEMMA AnsweredInit == Init => Answered
<1> SUFFICES ASSUME Init
             PROVE  Answered
  OBVIOUS
<1>1. PICK c \in Contexts :
        /\ bytes = [i \in 1 .. c.padding |-> \h3E]
        /\ size = c.size
        /\ more = c.prefixes
  BY DEF Init
<1>2. c.padding \in Nat /\ c.prefixes \in Nat /\ c.size \in Nat
  BY DisassemblersAssumption DEF MaximumLength
<1>3. bytes \in Seq(Byte)
  BY SMTT(60), <1>1, <1>2 DEF Byte
<1>4. more \in 0 .. c.prefixes /\ ~(more < 0)
  BY <1>1, <1>2
<1> QED
  BY <1>1, <1>2, <1>3, <1>4 DEF Answered, Complete

LEMMA AnsweredNext == Answered /\ [Next]_vars => Answered'
<1> SUFFICES ASSUME Answered, [Next]_vars
             PROVE  Answered'
  OBVIOUS
<1>1. ASSUME NEW b \in PrefixBytes, PutPrefix(b)
      PROVE  Answered'
  <2>1. more > 0 /\ bytes' = Append(bytes, b) /\ more' = more - 1 /\ size' = size
    BY <1>1 DEF PutPrefix
  <2>2. b \in Byte
    BY DisassemblersAssumption
  <2>3. PICK c \in Contexts : more \in 0 .. c.prefixes
    BY <2>1 DEF Answered, Complete
  <2>4. c.prefixes \in Nat
    BY DisassemblersAssumption
  <2>5. more' \in 0 .. c.prefixes /\ ~Complete'
    BY <2>1, <2>3, <2>4 DEF Complete
  <2>6. bytes' \in Seq(Byte)
    BY <2>1, <2>2 DEF Answered
  <2> QED
    BY <2>1, <2>5, <2>6 DEF Answered
<1>2. ASSUME NEW opcode \in Opcodes, Disassemble(opcode)
      PROVE  Answered'
  <2>1. PICK o \in Operands(more) : bytes' = bytes \o opcode \o o
    BY <1>2 DEF Disassemble
  <2>2. /\ more >= 0 /\ more' = -1 /\ size' = size
        /\ length' = Ldisasm!ldisasm(Memory', size)
        /\ decoded' = Decode!nmd_x86_decode(Memory', size)
    BY <1>2 DEF Disassemble
  <2>3. PICK c \in Contexts : more \in 0 .. c.prefixes
    BY <2>2 DEF Answered, Complete
  <2>4. o \in Seq(Byte) /\ opcode \in Seq(Byte)
    BY <2>1, <2>3, DisassemblersAssumption
  <2>5. bytes' \in Seq(Byte)
    BY <2>1, <2>4 DEF Answered
  <2>6. Complete' /\ more' \in Int
    BY <2>2 DEF Complete
  <2> QED
    BY <2>2, <2>5, <2>6 DEF Answered
<1>3. CASE UNCHANGED vars
  BY <1>3 DEF Answered, vars, Complete, Memory, Followed
<1> QED
  BY <1>1, <1>2, <1>3 DEF Next

LEMMA AnsweredAlways == Spec => []Answered
BY AnsweredInit, AnsweredNext, PTL DEF Spec

LEMMA LaidDown == Answered => Laid
<1> SUFFICES ASSUME Answered, NEW j \in 0 .. 30
             PROVE  Memory[j] \in Byte
  BY DEF Laid
<1>1. bytes \in Seq(Byte) /\ Filler \in Byte
  BY DisassemblersAssumption DEF Answered
<1>2. Memory[j] = IF j < Len(bytes) THEN bytes[j + 1] ELSE Filler
  BY DEF Memory, Followed, MaximumLength
<1>3. j < Len(bytes) => j + 1 \in 1 .. Len(bytes)
  BY <1>1
<1> QED
  BY <1>1, <1>2, <1>3

LEMMA AnswersAreEncoded == Answered => LengthIsEncoded
<1> SUFFICES ASSUME Answered, Complete, ~Misread, ~VexMisread
             PROVE  /\ length # 0 /\ ~ThreeDNow => length = Encoded
                    /\ decoded.valid => decoded.length = Encoded - IF Vex THEN 1 ELSE 0
  BY DEF LengthIsEncoded, Encoded
<1>1. Laid /\ size \in Nat
  BY LaidDown DEF Answered
<1>2. ASSUME length # 0, ~ThreeDNow
      PROVE  length = Encoded
  <2>1. LFound.length # 0 /\ length = LFound.length
    BY <1>1, <1>2, LengthIs DEF Answered
  <2> QED
    BY <1>1, <1>2, <2>1, FoundIsEncoded
<1>3. ASSUME decoded.valid
      PROVE  decoded.length = Encoded - IF Vex THEN 1 ELSE 0
  <2>1. DFound.valid /\ ~Locked(DFound) /\ decoded.length = DFound.length
    BY <1>1, <1>3, DecodedIs DEF Answered
  <2> QED
    BY <1>1, <2>1, DecodedIsEncoded
<1> QED
  BY <1>2, <1>3

LEMMA AnswersFit == Answered => FixedPartWithin
<1> SUFFICES ASSUME Answered, Complete, length # 0, ~Misread, ~VexMisread, ~ThreeDNow, size >= n
             PROVE  LET limit == Min({size, MaximumLength})
                    IN  \/ Fixed <= limit
                        \/ limit - n = 2 /\ \E op \in \h20 .. \h23 : Starts(<<\h0F, op>>)
  BY DEF FixedPartWithin, Fixed
<1>1. Laid /\ size \in Nat
  BY LaidDown DEF Answered
<1>2. LFound.length # 0
  BY <1>1, LengthIs DEF Answered
<1>3. Fixed <= n + Left \/ (Left = 2 /\ \E op \in \h20 .. \h23 : Starts(<<\h0F, op>>))
  BY <1>1, <1>2, FoundIsEncoded
<1>4. n + Left = Min({size, MaximumLength}) /\ Left \in Int /\ n \in Int
  BY <1>1, LeftIs, LaidFacts
<1>5. Min({size, MaximumLength}) - n = Left
  BY <1>4
<1> QED
  BY <1>3, <1>4, <1>5

LEMMA AnswersAgree == Answered => SameVerdict
<1> SUFFICES ASSUME Answered, Complete, OneSelects, ~ThreeDNow, ~Vex, size >= n
             PROVE  length = 0 <=> ~decoded.valid
  BY DEF SameVerdict, OneSelects
<1>1. Laid /\ size \in Nat /\ n \in Int
  BY SMTT(60), LaidDown, LaidFacts DEF Answered
<1>2. length = 0 <=> LFound.length = 0 \/ Locked(LFound)
  BY <1>1, LengthIs DEF Answered
<1>3. ~decoded.valid <=> ~DFound.valid \/ Locked(DFound)
  <2>1. ~(size < n)
    BY <1>1
  <2> QED
    BY <1>1, <2>1, DecodedIs DEF Answered
<1> QED
  BY <1>1, <1>2, <1>3, SameFound

(* A length ldisasm returns is that of the instruction format, and the     *)
(* decoder's is too but for VEX, where it is one short: a stub made by      *)
(* add_function_hook is cut between two instructions, whatever the code,    *)
(* as long as it is none of what Misread and VexMisread name.               *)
THEOREM LengthsEncoded == Spec => []LengthIsEncoded
BY AnsweredAlways, AnswersAreEncoded, PTL

(* ldisasm does not answer for an instruction whose opcode, ModR/M, SIB or  *)
(* displacement lies beyond the buffer it was given, or beyond 15 bytes,    *)
(* but for a move to or from a control register that lacks its last byte.   *)
THEOREM FixedPartsFit == Spec => []FixedPartWithin
BY AnsweredAlways, AnswersFit, PTL

(* nmd_x86_ldisasm refuses what nmd_x86_decode refuses and nothing else,    *)
(* outside of 3DNow! and VEX, if not more than one of the prefixes that may *)
(* select an instruction is there: their lists of reserved opcodes, written *)
(* twice in the file, say the same.                                         *)
THEOREM VerdictsAgree == Spec => []SameVerdict
BY AnsweredAlways, AnswersAgree, PTL

-----------------------------------------------------------------------------
(* What may be locked. *)

LEMMA LockedOperand1 ==
  ASSUME NEW i, NEW op \in Byte, i.op = op, i.modrm \in Byte, NEW operand, operand.modrm = i.modrm,
         Ldisasm!Lockable(1, op, operand)
  PROVE  Decode!Operands1(i)[1] = Decode!Memory({"r", "w"})
<1> DEFINE reg == Decode!Reg(i.modrm)
           row == Decode!Row(op)
<1>1. /\ Decode!Mod(i.modrm) # 3
      /\ \/ op \in {\h86, \h87}
         \/ row < 4 /\ op % 8 < 2 /\ op < \h38
         \/ op \in \h80 .. \h83
         \/ op \in {\hFE, \hFF} /\ reg < 2
         \/ op \in {\hF6, \hF7}
  BY DEF Ldisasm!Lockable, Ldisasm!Mod, Ldisasm!Reg, Ldisasm!Row, Decode!Mod, Decode!Reg, Decode!Row
<1>2. row \in 0 .. 15 /\ op \in 16 * row .. 16 * row + 15
  BY DEF Byte, Decode!Row
<1>3. \A action, other : /\ Decode!EG(i, action, other)[1] = Decode!Memory(action)
                         /\ Decode!E(i, action) = Decode!Memory(action)
  BY <1>1 DEF Decode!EG, Decode!E
<1>4. reg \in Int
  BY DEF Decode!Reg, Byte
<1> HIDE DEF reg, row
<1>5. CASE op \in {\h86, \h87}
  <2>1. Decode!Row(op) = 8
    BY <1>2, <1>5 DEF row
  <2>2. Decode!Operands1(i) = Decode!EG(i, Decode!READWRITE, Decode!READWRITE)
    <3>1. CASE op = \h86
      BY <2>1, <3>1 DEF Decode!Operands1, Decode!Explicit1
    <3>2. CASE op = \h87
      BY <2>1, <3>2 DEF Decode!Operands1, Decode!Explicit1
    <3> QED
      BY <1>5, <3>1, <3>2
  <2> QED
    BY <1>3, <2>2 DEF Decode!READWRITE
<1>6. CASE op \in {\h80, \h81, \h82, \h83}
  <2>1. Decode!Row(op) = 8
    BY <1>2, <1>6 DEF row
  <2>2. Decode!Operands1(i) = <<Decode!E(i, Decode!READWRITE), Decode!Immediate(Decode!UNSAID)>>
    <3>1. CASE op = \h80
      BY <2>1, <3>1 DEF Decode!Operands1, Decode!Explicit1
    <3>2. CASE op = \h81
      BY <2>1, <3>2 DEF Decode!Operands1, Decode!Explicit1
    <3>3. CASE op = \h82
      BY <2>1, <3>3 DEF Decode!Operands1, Decode!Explicit1
    <3>4. CASE op = \h83
      BY <2>1, <3>4 DEF Decode!Operands1, Decode!Explicit1
    <3> QED
      BY <1>6, <3>1, <3>2, <3>3, <3>4
  <2> QED
    BY <1>3, <2>2 DEF Decode!READWRITE
<1>7. CASE row < 4 /\ op % 8 < 2 /\ op < \h38
  <2>1. /\ Decode!Row(\h00) = 0 /\ Decode!Row(\h01) = 0 /\ Decode!Row(\h08) = 0 /\ Decode!Row(\h09) = 0
        /\ Decode!Row(\h10) = 1 /\ Decode!Row(\h11) = 1 /\ Decode!Row(\h18) = 1 /\ Decode!Row(\h19) = 1
        /\ Decode!Row(\h20) = 2 /\ Decode!Row(\h21) = 2 /\ Decode!Row(\h28) = 2 /\ Decode!Row(\h29) = 2
        /\ Decode!Row(\h30) = 3 /\ Decode!Row(\h31) = 3
    BY DEF Decode!Row
  <2>2. op \in {\h00, \h01, \h08, \h09, \h10, \h11, \h18, \h19,
               \h20, \h21, \h28, \h29, \h30, \h31}
    BY <1>7 DEF Byte
  <2>3. Decode!Operands1(i) = Decode!EG(i, Decode!READWRITE, Decode!READ)
    <3>1. CASE op = \h00
      BY <2>1, <3>1 DEF Decode!Operands1, Decode!Explicit1, Decode!ArithmeticOperands
    <3>2. CASE op = \h01
      BY <2>1, <3>2 DEF Decode!Operands1, Decode!Explicit1, Decode!ArithmeticOperands
    <3>3. CASE op = \h08
      BY <2>1, <3>3 DEF Decode!Operands1, Decode!Explicit1, Decode!ArithmeticOperands
    <3>4. CASE op = \h09
      BY <2>1, <3>4 DEF Decode!Operands1, Decode!Explicit1, Decode!ArithmeticOperands
    <3>5. CASE op = \h10
      BY <2>1, <3>5 DEF Decode!Operands1, Decode!Explicit1, Decode!ArithmeticOperands
    <3>6. CASE op = \h11
      BY <2>1, <3>6 DEF Decode!Operands1, Decode!Explicit1, Decode!ArithmeticOperands
    <3>7. CASE op = \h18
      BY <2>1, <3>7 DEF Decode!Operands1, Decode!Explicit1, Decode!ArithmeticOperands
    <3>8. CASE op = \h19
      BY <2>1, <3>8 DEF Decode!Operands1, Decode!Explicit1, Decode!ArithmeticOperands
    <3>9. CASE op = \h20
      BY <2>1, <3>9 DEF Decode!Operands1, Decode!Explicit1, Decode!ArithmeticOperands
    <3>10. CASE op = \h21
      BY <2>1, <3>10 DEF Decode!Operands1, Decode!Explicit1, Decode!ArithmeticOperands
    <3>11. CASE op = \h28
      BY <2>1, <3>11 DEF Decode!Operands1, Decode!Explicit1, Decode!ArithmeticOperands
    <3>12. CASE op = \h29
      BY <2>1, <3>12 DEF Decode!Operands1, Decode!Explicit1, Decode!ArithmeticOperands
    <3>13. CASE op = \h30
      BY SMTT(60), <2>1, <3>13 DEF Decode!Operands1, Decode!Explicit1, Decode!ArithmeticOperands
    <3>14. CASE op = \h31
      BY SMTT(60), <2>1, <3>14 DEF Decode!Operands1, Decode!Explicit1, Decode!ArithmeticOperands
    <3> QED
      BY <2>2, <3>1, <3>2, <3>3, <3>4, <3>5, <3>6, <3>7, <3>8, <3>9, <3>10, <3>11, <3>12, <3>13, <3>14
  <2> QED
    BY <1>3, <2>3 DEF Decode!READWRITE
<1>8. CASE op \in {\hF6, \hF7} \/ (op \in {\hFE, \hFF} /\ reg < 2)
  <2>1. Decode!Row(op) = 15
    BY <1>2, <1>8 DEF row
  <2>2. Decode!Operands1(i) = Decode!UpperOperands(i)
    <3>1. CASE op = \hF6
      BY <2>1, <3>1 DEF Decode!Operands1, Decode!Explicit1
    <3>2. CASE op = \hF7
      BY <2>1, <3>2 DEF Decode!Operands1, Decode!Explicit1
    <3>3. CASE op = \hFE
      BY <2>1, <3>3 DEF Decode!Operands1, Decode!Explicit1
    <3>4. CASE op = \hFF /\ reg < 2
      <4>1. Decode!Reg(i.modrm) # 6
        BY <1>4, <3>4 DEF reg
      <4> QED
        BY <2>1, <3>4, <4>1 DEF Decode!Operands1, Decode!Explicit1
    <3> QED
      BY <1>8, <3>1, <3>2, <3>3, <3>4
  <2>3. Decode!UpperOperands(i) = <<Decode!E(i, Decode!READWRITE)>>
    <3>1. CASE op = \hF6
      BY <2>1, <3>1 DEF Decode!UpperOperands
    <3>2. CASE op = \hF7
      BY <2>1, <3>2 DEF Decode!UpperOperands
    <3>3. CASE op = \hFE
      BY <2>1, <3>3 DEF Decode!UpperOperands
    <3>4. CASE op = \hFF /\ reg < 2
      <4>1. ~(Decode!Reg(i.modrm) >= 2)
        BY <1>4, <3>4 DEF reg
      <4> QED
        BY <2>1, <3>4, <4>1 DEF Decode!UpperOperands
    <3> QED
      BY <1>8, <3>1, <3>2, <3>3, <3>4
  <2> QED
    BY <1>3, <2>2, <2>3 DEF Decode!READWRITE
<1> QED
  BY <1>1, <1>5, <1>6, <1>7, <1>8

LEMMA LockedOperand2 ==
  ASSUME NEW i, NEW op \in Byte, i.op = op, NEW operand, operand.modrm = i.modrm,
         Ldisasm!Lockable(2, op, operand)
  PROVE  \E action \in {{"r", "w"}, {"r", "cw"}, {"w"}} :
           /\ Decode!Operands2(i)[1] = Decode!Memory(action)
           /\ action = {"w"} => op = \hBA
<1> DEFINE reg == Decode!Reg(i.modrm)
<1>1. /\ Decode!Mod(i.modrm) # 3
      /\ \/ op \in {\hAB, \hB0, \hB1, \hB3, \hBA, \hBB, \hC0, \hC1}
         \/ op = \hC7 /\ reg = 1
  BY DEF Ldisasm!Lockable, Ldisasm!Mod, Ldisasm!Reg, Ldisasm!two_opcodes, Decode!Mod, Decode!Reg
<1>2. /\ Decode!Row(\hAB) = 10
      /\ Decode!Row(\hB0) = 11 /\ Decode!Row(\hB1) = 11 /\ Decode!Row(\hB3) = 11
      /\ Decode!Row(\hBA) = 11 /\ Decode!Row(\hBB) = 11
      /\ Decode!Row(\hC0) = 12 /\ Decode!Row(\hC1) = 12 /\ Decode!Row(\hC7) = 12
  BY DEF Decode!Row
<1>3. \A action, other : /\ Decode!EG(i, action, other)[1] = Decode!Memory(action)
                         /\ Decode!E(i, action) = Decode!Memory(action)
  BY <1>1 DEF Decode!EG, Decode!E
<1> HIDE DEF reg
<1>4. CASE op \in {\hAB, \hB3, \hBB}
  <2>1. Decode!Operands2(i) = Decode!EG(i, {"r", "w"}, Decode!READ)
    <3>1. CASE op = \hAB
      BY SMTT(60), <1>2, <3>1 DEF Decode!Operands2, Decode!Explicit2, Decode!READWRITE
    <3>2. CASE op = \hB3
      BY SMTT(60), <1>2, <3>2 DEF Decode!Operands2, Decode!Explicit2, Decode!READWRITE
    <3>3. CASE op = \hBB
      BY <1>2, <3>3 DEF Decode!Operands2, Decode!Explicit2, Decode!READWRITE
    <3> QED
      BY <1>4, <3>1, <3>2, <3>3
  <2> QED
    BY <1>3, <2>1
<1>5. CASE op \in {\hB0, \hB1}
  <2>1. Decode!Operands2(i) = Decode!EG(i, {"r", "cw"}, Decode!READ)
    <3>1. CASE op = \hB0
      BY SMTT(60), <1>2, <3>1 DEF Decode!Operands2, Decode!Explicit2, Decode!CONDWRITE
    <3>2. CASE op = \hB1
      BY <1>2, <3>2 DEF Decode!Operands2, Decode!Explicit2, Decode!CONDWRITE
    <3> QED
      BY <1>5, <3>1, <3>2
  <2> QED
    BY <1>3, <2>1
<1>6. CASE op \in {\hC0, \hC1}
  <2>1. Decode!Operands2(i) = Decode!EG(i, {"r", "w"}, {"r", "w"})
    <3>1. CASE op = \hC0
      BY <1>2, <3>1 DEF Decode!Operands2, Decode!Explicit2, Decode!READWRITE
    <3>2. CASE op = \hC1
      BY <1>2, <3>2 DEF Decode!Operands2, Decode!Explicit2, Decode!READWRITE
    <3> QED
      BY <1>6, <3>1, <3>2
  <2> QED
    BY <1>3, <2>1
<1>7. CASE op = \hBA
  <2>1. Decode!Operands2(i) = <<Decode!E(i, {"w"}), Decode!Immediate(Decode!READ)>>
    BY SMTT(60), <1>2, <1>7 DEF Decode!Operands2, Decode!Explicit2, Decode!WRITE
  <2> QED
    BY <1>3, <1>7, <2>1
<1>8. CASE op = \hC7 /\ reg = 1
  <2>1. Decode!Operands2(i) = <<Decode!E(i, {"r", "cw"})>>
    BY SMTT(60), <1>2, <1>8 DEF Decode!Operands2, Decode!Explicit2, Decode!CONDWRITE, reg
  <2> QED
    BY <1>3, <2>1
<1> QED
  BY <1>1, <1>4, <1>5, <1>6, <1>7, <1>8

LEMMA AnswersLocked == Answered => LockedWritesMemory
<1> DEFINE insn == [map |-> DFound.map, op |-> DFound.op, modrm |-> DFound.operand.modrm, p |-> Dp]
<1> SUFFICES ASSUME Answered, Complete, decoded.valid, LOCK \in seen, ~Vex
             PROVE  LET operand == decoded.operands[1]
                    IN  /\ operand.type = "mem" /\ ~operand.implicit
                        /\ {"w", "cw"} \cap operand.action # {}
                        /\ "r" \in operand.action \/ Starts(<<\h0F, \hBA>>)
  BY DEF LockedWritesMemory
<1>1. Laid /\ size \in Nat /\ n \in Int /\ Left \in 0 .. 15
  BY SMTT(60), LaidDown, LaidFacts, LeftIs DEF Answered
<1>2. DFound.valid /\ ~Locked(DFound)
  BY <1>1, DecodedIs DEF Answered
<1>3. decoded.operands = Decode!OperandsOf(insn)
  BY <1>1, DecodedOperands DEF Answered
<1>4. Ldisasm!Lockable(DFound.opcode_size, DFound.op, DFound.operand)
  BY <1>2 DEF Locked
<1>5. DFound.opcode_size \in {1, 2}
  BY <1>4 DEF Ldisasm!Lockable
<1>6. \/ /\ DFound.opcode_size = 1 /\ DFound.map = "DEFAULT" /\ DFound.op = Memory[n]
         /\ DFound.operand.modrm \in Byte
      \/ /\ DFound.opcode_size = 2 /\ DFound.map = "0F" /\ DFound.op = Memory[n + 1]
         /\ Memory[n] = \h0F
  BY <1>1, <1>2, <1>5, DecodedKind
<1>7. /\ Memory[n] \in Byte /\ Memory[n + 1] \in Byte
  <2>1. Memory[n + 0] \in Byte /\ Memory[n + 1] \in Byte
    BY <1>1, LaidFacts
  <2> QED
    BY <1>1, <2>1
<1>8. PICK action \in {{"r", "w"}, {"r", "cw"}, {"w"}} :
        /\ decoded.operands[1] = Decode!Memory(action)
        /\ action = {"w"} => Starts(<<\h0F, \hBA>>)
  <2>1. insn.op = DFound.op /\ insn.map = DFound.map /\ insn.modrm = DFound.operand.modrm
    OBVIOUS
  <2> HIDE DEF insn
  <2>2. CASE DFound.opcode_size = 1
    <3>1. Decode!OperandsOf(insn) = Decode!Operands1(insn)
      BY <1>6, <2>1, <2>2 DEF Decode!OperandsOf
    <3>2. Decode!Operands1(insn)[1] = Decode!Memory({"r", "w"})
      BY <1>4, <1>6, <1>7, <2>1, <2>2, LockedOperand1
    <3> QED
      BY <1>3, <3>1, <3>2
  <2>3. CASE DFound.opcode_size = 2
    <3>1. Decode!OperandsOf(insn) = Decode!Operands2(insn)
      BY <1>6, <2>1, <2>3 DEF Decode!OperandsOf
    <3>2. PICK action \in {{"r", "w"}, {"r", "cw"}, {"w"}} :
            /\ Decode!Operands2(insn)[1] = Decode!Memory(action)
            /\ action = {"w"} => DFound.op = \hBA
      BY <1>4, <1>6, <1>7, <2>1, <2>3, LockedOperand2
    <3>3. action = {"w"} => Starts(<<\h0F, \hBA>>)
      <4>1. Starts(<<\h0F, \hBA>>) <=> Memory[n] = \h0F /\ Memory[n + 1] = \hBA
        BY ZenonT(60), <1>1, StartsIs
      <4> QED
        BY <1>6, <2>3, <3>2, <4>1
    <3> QED
      BY <1>3, <3>1, <3>2, <3>3
  <2> QED
    BY <1>5, <2>2, <2>3
<1>9. /\ decoded.operands[1].type = "mem" /\ ~decoded.operands[1].implicit
      /\ decoded.operands[1].action = action
  BY <1>8 DEF Decode!Memory
<1> QED
  BY <1>8, <1>9

(* An instruction the decoder accepts behind a LOCK names memory as its     *)
(* first operand, which it reads and writes: the list of what may be locked *)
(* and the table of the operands, far apart in the code, agree.             *)
THEOREM LockedInstructionsWrite == Spec => []LockedWritesMemory
BY AnsweredAlways, AnswersLocked, PTL

-----------------------------------------------------------------------------
(* The ids computed from the order of the members. *)

(* The member of the list of ids at a place, by the part of the list.       *)
MemberAt(k) ==
  IF k <= 31 THEN Decode!OpcodeGroups[k]
  ELSE IF k <= 47 THEN Decode!Jumps[k - 31]
  ELSE IF k <= 130 THEN Decode!FloatingPoint[k - 47]
  ELSE IF k <= 151 THEN Decode!Rows13To15[k - 130]
  ELSE IF k <= 213 THEN Decode!SystemGroups[k - 151]
  ELSE IF k <= 252 THEN Decode!Conditional[k - 213]
  ELSE Decode!AroundCpuid[k - 252]

Part(t, a, b) == t = [k \in 1 .. b |-> MemberAt(a + k)]
Upto(a) == [k \in 1 .. a |-> MemberAt(k)]

(* A part joined to what comes before it. *)
LEMMA Joined ==
  ASSUME NEW t, NEW a \in Nat, NEW b \in Nat,
         Part(t, a, b)
  PROVE  Upto(a) \o t = Upto(a + b)
<1> DEFINE s == Upto(a)
<1> USE DEF Upto, Part
<1>1. s \o t = [k \in 1 .. a + b |-> IF k <= a THEN s[k] ELSE t[k - a]]
  OBVIOUS
<1>2. ASSUME NEW k \in 1 .. a + b
      PROVE  (IF k <= a THEN s[k] ELSE t[k - a]) = MemberAt(k)
  <2>1. k > a => k - a \in 1 .. b /\ a + (k - a) = k
    OBVIOUS
  <2> QED
    BY <2>1
<1> QED
  BY <1>1, <1>2

(* The list of the members, a member at each place. *)
LEMMA MembersAre == Decode!Members = [k \in 1 .. 256 |-> MemberAt(k)]
<1>1. Decode!OpcodeGroups = Upto(31)
  <2>1. Decode!OpcodeGroups = [k \in 1 .. 31 |-> Decode!OpcodeGroups[k]]
    BY DEF Decode!OpcodeGroups
  <2> QED
    BY <2>1 DEF MemberAt, Upto
<1>2. Part(Decode!Jumps, 31, 16)
  <2>1. Decode!Jumps = [k \in 1 .. 16 |-> Decode!Jumps[k]]
    BY DEF Decode!Jumps
  <2> QED
    BY <2>1 DEF MemberAt, Part
<1>3. Part(Decode!FloatingPoint, 47, 83)
  <2>1. Decode!FloatingPoint = [k \in 1 .. 83 |-> Decode!FloatingPoint[k]]
    BY DEF Decode!FloatingPoint
  <2> QED
    BY <2>1 DEF MemberAt, Part
<1>4. Part(Decode!Rows13To15, 130, 21)
  <2>1. Decode!Rows13To15 = [k \in 1 .. 21 |-> Decode!Rows13To15[k]]
    BY DEF Decode!Rows13To15
  <2> QED
    BY <2>1 DEF MemberAt, Part
<1>5. Part(Decode!SystemGroups, 151, 62)
  <2>1. Decode!SystemGroups = [k \in 1 .. 62 |-> Decode!SystemGroups[k]]
    BY DEF Decode!SystemGroups
  <2> QED
    BY <2>1 DEF MemberAt, Part
<1>6. Part(Decode!Conditional, 213, 39)
  <2>1. Decode!Conditional = [k \in 1 .. 39 |-> Decode!Conditional[k]]
    BY DEF Decode!Conditional
  <2> QED
    BY <2>1 DEF MemberAt, Part
<1>7. Part(Decode!AroundCpuid, 252, 4)
  <2>1. Decode!AroundCpuid = [k \in 1 .. 4 |-> Decode!AroundCpuid[k]]
    BY DEF Decode!AroundCpuid
  <2> QED
    BY <2>1 DEF MemberAt, Part
<1>8. Upto(31) \o Decode!Jumps = Upto(47)
  BY <1>2, Joined
<1>9. Upto(47) \o Decode!FloatingPoint = Upto(130)
  BY <1>3, Joined
<1>10. Upto(130) \o Decode!Rows13To15 = Upto(151)
  BY <1>4, Joined
<1>11. Upto(151) \o Decode!SystemGroups = Upto(213)
  BY <1>5, Joined
<1>12. Upto(213) \o Decode!Conditional = Upto(252)
  BY <1>6, Joined
<1>13. Upto(252) \o Decode!AroundCpuid = Upto(256)
  BY <1>7, Joined
<1>14. Decode!Members = Upto(256)
  <2>1. Decode!Members = ((((Upto(47) \o Decode!FloatingPoint) \o Decode!Rows13To15)
                             \o Decode!SystemGroups) \o Decode!Conditional) \o Decode!AroundCpuid
    BY <1>1, <1>8, Zenon DEF Decode!Members
  <2>2. Decode!Members = ((Upto(151) \o Decode!SystemGroups) \o Decode!Conditional) \o Decode!AroundCpuid
    BY ZenonT(60), <1>9, <1>10, <2>1
  <2>3. Decode!Members = (Upto(213) \o Decode!Conditional) \o Decode!AroundCpuid
    BY <1>11, <2>2, Zenon
  <2>4. Decode!Members = Upto(252) \o Decode!AroundCpuid
    BY <1>12, <2>3, Zenon
  <2> QED
    BY <1>13, <2>4, Zenon
<1> QED
  BY <1>14 DEF Upto

(* No member is listed twice. *)
LEMMA MembersApart ==
  ASSUME NEW k \in 1 .. 256, NEW j \in 1 .. 256, MemberAt(k) = MemberAt(j)
  PROVE  k = j
BY SMTT(60) DEF MemberAt, Decode!OpcodeGroups, Decode!Jumps, Decode!FloatingPoint, Decode!Rows13To15, Decode!SystemGroups, Decode!Conditional, Decode!AroundCpuid

(* An id computed from a member is the member so many places on. *)
LEMMA PlusIs ==
  ASSUME NEW k \in 1 .. 256, NEW d \in Int, k + d \in 1 .. 256
  PROVE  Decode!Plus(MemberAt(k), d) = MemberAt(k + d)
<1>1. /\ DOMAIN Decode!Members = 1 .. 256
      /\ \A j \in 1 .. 256 : Decode!Members[j] = MemberAt(j)
  BY MembersAre
<1>2. Decode!Place[MemberAt(k)] = CHOOSE j \in 1 .. 256 : MemberAt(j) = MemberAt(k)
  BY ZenonT(60), <1>1 DEF Decode!Place
<1>3. Decode!Place[MemberAt(k)] = k
  BY <1>2, MembersApart
<1> QED
  BY <1>1, <1>3 DEF Decode!Plus

(* The parts of a byte. *)
LEMMA ByteParts ==
  ASSUME NEW b \in Byte
  PROVE  /\ Decode!Row(b) \in 0 .. 15 /\ Decode!Column(b) \in 0 .. 15
         /\ b = 16 * Decode!Row(b) + Decode!Column(b)
         /\ b % 8 = IF Decode!Column(b) >= 8 THEN Decode!Column(b) - 8 ELSE Decode!Column(b)
         /\ Decode!Mod(b) \in 0 .. 3 /\ Decode!Reg(b) \in 0 .. 7 /\ Decode!Rm(b) \in 0 .. 7
         /\ b = 64 * Decode!Mod(b) + 8 * Decode!Reg(b) + Decode!Rm(b)
BY SMTT(60) DEF Byte, Decode!Row, Decode!Column, Decode!Mod, Decode!Reg, Decode!Rm

From(name, k, lo, hi) == \A d \in lo .. hi : Decode!Plus(name, d) = MemberAt(k + d)

(* The same, from a member by its name. *)
LEMMA PlusFrom ==
  ASSUME NEW name, NEW k \in 1 .. 256, MemberAt(k) = name,
         NEW lo \in Int, NEW hi \in Int, k + lo >= 1, k + hi <= 256
  PROVE  From(name, k, lo, hi)
<1> SUFFICES ASSUME NEW d \in lo .. hi
             PROVE  Decode!Plus(name, d) = MemberAt(k + d)
  BY DEF From
<1>1. d \in Int /\ k + d \in 1 .. 256
  OBVIOUS
<1> QED
  BY <1>1, PlusIs

(* The ids that others are computed from, and how far. *)
LEMMA PlusFromBase ==
  /\ From("ADD", 1, 0, 30)
  /\ From("ROL", 9, 0, 7)
  /\ From("TEST", 17, 0, 7)
  /\ From("INC", 25, 0, 6)
  /\ From("JO", 32, 0, 15)
  /\ From("FADD", 48, 0, 15)
  /\ From("FLD", 56, 0, 7)
  /\ From("FCHS", 64, 0, 31)
  /\ From("FIADD", 96, 0, 7)
  /\ From("FCMOVB", 104, 0, 7)
  /\ From("FILD", 108, 0, 7)
  /\ From("FCMOVNB", 116, 0, 7)
  /\ From("FADDP", 123, 0, 7)
  /\ From("INT1", 131, -1, 12)
  /\ From("AAM", 144, 0, 3)
  /\ From("LOOPNE", 148, 0, 3)
  /\ From("SLDT", 152, 0, 7)
  /\ From("SGDT", 158, 0, 7)
  /\ From("VMCALL", 166, 0, 7)
  /\ From("MONITOR", 170, 0, 7)
  /\ From("XGETBV", 178, 0, 7)
  /\ From("VMRUN", 186, 0, 7)
  /\ From("LAR", 194, 0, 9)
  /\ From("WRMSR", 206, 0, 15)
  /\ From("CMOVO", 214, 0, 15)
  /\ From("LSS", 246, 0, 3)
  /\ From("CPUID", 253, 0, 3)
<1>1. From("ADD", 1, 0, 30)
  <2>1. MemberAt(1) = "ADD"
    BY DEF MemberAt, Decode!OpcodeGroups
  <2> QED
    BY <2>1, PlusFrom
<1>2. From("ROL", 9, 0, 7)
  <2>1. MemberAt(9) = "ROL"
    BY DEF MemberAt, Decode!OpcodeGroups
  <2> QED
    BY <2>1, PlusFrom
<1>3. From("TEST", 17, 0, 7)
  <2>1. MemberAt(17) = "TEST"
    BY DEF MemberAt, Decode!OpcodeGroups
  <2> QED
    BY <2>1, PlusFrom
<1>4. From("INC", 25, 0, 6)
  <2>1. MemberAt(25) = "INC"
    BY DEF MemberAt, Decode!OpcodeGroups
  <2> QED
    BY <2>1, PlusFrom
<1>5. From("JO", 32, 0, 15)
  <2>1. MemberAt(32) = "JO"
    BY DEF MemberAt, Decode!Jumps
  <2> QED
    BY <2>1, PlusFrom
<1>6. From("FADD", 48, 0, 15)
  <2>1. MemberAt(48) = "FADD"
    BY DEF MemberAt, Decode!FloatingPoint
  <2> QED
    BY <2>1, PlusFrom
<1>7. From("FLD", 56, 0, 7)
  <2>1. MemberAt(56) = "FLD"
    BY DEF MemberAt, Decode!FloatingPoint
  <2> QED
    BY <2>1, PlusFrom
<1>8. From("FCHS", 64, 0, 31)
  <2>1. MemberAt(64) = "FCHS"
    BY DEF MemberAt, Decode!FloatingPoint
  <2> QED
    BY <2>1, PlusFrom
<1>9. From("FIADD", 96, 0, 7)
  <2>1. MemberAt(96) = "FIADD"
    BY DEF MemberAt, Decode!FloatingPoint
  <2> QED
    BY <2>1, PlusFrom
<1>10. From("FCMOVB", 104, 0, 7)
  <2>1. MemberAt(104) = "FCMOVB"
    BY DEF MemberAt, Decode!FloatingPoint
  <2> QED
    BY <2>1, PlusFrom
<1>11. From("FILD", 108, 0, 7)
  <2>1. MemberAt(108) = "FILD"
    BY DEF MemberAt, Decode!FloatingPoint
  <2> QED
    BY <2>1, PlusFrom
<1>12. From("FCMOVNB", 116, 0, 7)
  <2>1. MemberAt(116) = "FCMOVNB"
    BY DEF MemberAt, Decode!FloatingPoint
  <2> QED
    BY <2>1, PlusFrom
<1>13. From("FADDP", 123, 0, 7)
  <2>1. MemberAt(123) = "FADDP"
    BY DEF MemberAt, Decode!FloatingPoint
  <2> QED
    BY <2>1, PlusFrom
<1>14. From("INT1", 131, -1, 12)
  <2>1. MemberAt(131) = "INT1"
    BY DEF MemberAt, Decode!Rows13To15
  <2> QED
    BY <2>1, PlusFrom
<1>15. From("AAM", 144, 0, 3)
  <2>1. MemberAt(144) = "AAM"
    BY DEF MemberAt, Decode!Rows13To15
  <2> QED
    BY <2>1, PlusFrom
<1>16. From("LOOPNE", 148, 0, 3)
  <2>1. MemberAt(148) = "LOOPNE"
    BY DEF MemberAt, Decode!Rows13To15
  <2> QED
    BY <2>1, PlusFrom
<1>17. From("SLDT", 152, 0, 7)
  <2>1. MemberAt(152) = "SLDT"
    BY DEF MemberAt, Decode!SystemGroups
  <2> QED
    BY <2>1, PlusFrom
<1>18. From("SGDT", 158, 0, 7)
  <2>1. MemberAt(158) = "SGDT"
    BY DEF MemberAt, Decode!SystemGroups
  <2> QED
    BY <2>1, PlusFrom
<1>19. From("VMCALL", 166, 0, 7)
  <2>1. MemberAt(166) = "VMCALL"
    BY DEF MemberAt, Decode!SystemGroups
  <2> QED
    BY <2>1, PlusFrom
<1>20. From("MONITOR", 170, 0, 7)
  <2>1. MemberAt(170) = "MONITOR"
    BY DEF MemberAt, Decode!SystemGroups
  <2> QED
    BY <2>1, PlusFrom
<1>21. From("XGETBV", 178, 0, 7)
  <2>1. MemberAt(178) = "XGETBV"
    BY DEF MemberAt, Decode!SystemGroups
  <2> QED
    BY <2>1, PlusFrom
<1>22. From("VMRUN", 186, 0, 7)
  <2>1. MemberAt(186) = "VMRUN"
    BY DEF MemberAt, Decode!SystemGroups
  <2> QED
    BY <2>1, PlusFrom
<1>23. From("LAR", 194, 0, 9)
  <2>1. MemberAt(194) = "LAR"
    BY DEF MemberAt, Decode!SystemGroups
  <2> QED
    BY <2>1, PlusFrom
<1>24. From("WRMSR", 206, 0, 15)
  <2>1. MemberAt(206) = "WRMSR"
    BY DEF MemberAt, Decode!SystemGroups
  <2> QED
    BY <2>1, PlusFrom
<1>25. From("CMOVO", 214, 0, 15)
  <2>1. MemberAt(214) = "CMOVO"
    BY DEF MemberAt, Decode!Conditional
  <2> QED
    BY <2>1, PlusFrom
<1>26. From("LSS", 246, 0, 3)
  <2>1. MemberAt(246) = "LSS"
    BY DEF MemberAt, Decode!Conditional
  <2> QED
    BY <2>1, PlusFrom
<1>27. From("CPUID", 253, 0, 3)
  <2>1. MemberAt(253) = "CPUID"
    BY DEF MemberAt, Decode!AroundCpuid
  <2> QED
    BY <2>1, PlusFrom
<1> QED
  BY <1>1, <1>2, <1>3, <1>4, <1>5, <1>6, <1>7, <1>8, <1>9, <1>10, <1>11, <1>12, <1>13, <1>14, <1>15, <1>16, <1>17, <1>18, <1>19, <1>20, <1>21, <1>22, <1>23, <1>24, <1>25, <1>26, <1>27

-----------------------------------------------------------------------------
(* Branches by their place in the list, and by their opcode. *)
FarBranchIds == {"LJMP", "LCALL"}
IsBranch(id) == id \in BranchIds \cup FarBranchIds

(* The ids of the branches, by name ... *)
LEMMA BranchIdsAre ==
  BranchIds = {"JO", "JNO", "JB", "JNB", "JZ", "JNZ", "JBE", "JA",
               "JS", "JNS", "JP", "JNP", "JL", "JGE", "JLE", "JG",
               "JMP", "CALL", "LOOP", "LOOPE", "LOOPNE", "JRCXZ", "XBEGIN"}
<1>1. {Decode!Jumps[k] : k \in DOMAIN Decode!Jumps}
        = {"JO", "JNO", "JB", "JNB", "JZ", "JNZ", "JBE", "JA",
           "JS", "JNS", "JP", "JNP", "JL", "JGE", "JLE", "JG"}
  <2>1. DOMAIN Decode!Jumps = 1 .. 16
    BY DEF Decode!Jumps
  <2> QED
    BY <2>1 DEF Decode!Jumps
<1> QED
  BY <1>1 DEF BranchIds

(* ... and by their places. *)
LEMMA BranchMembers ==
  ASSUME NEW k \in 1 .. 256
  PROVE  /\ MemberAt(k) \in BranchIds <=> k \in {27, 29} \cup (32 .. 47) \cup (148 .. 151)
         /\ MemberAt(k) \in FarBranchIds <=> k \in {28, 30}
         /\ MemberAt(k) # "LEA"
<1> USE DEF MemberAt, Decode!OpcodeGroups, Decode!Jumps, Decode!FloatingPoint, Decode!Rows13To15,
            Decode!SystemGroups, Decode!Conditional, Decode!AroundCpuid
<1>1. MemberAt(k) \in BranchIds <=> k \in {27, 29} \cup (32 .. 47) \cup (148 .. 151)
  BY SMTT(60), BranchIdsAre
<1>2. MemberAt(k) \in FarBranchIds <=> k \in {28, 30}
  BY SMTT(60) DEF FarBranchIds
<1>3. MemberAt(k) # "LEA"
  BY SMTT(60)
<1> QED
  BY <1>1, <1>2, <1>3

(* The opcodes whose id is computed, each from its base. *)
LEMMA Id1Computed ==
  ASSUME NEW i, NEW op \in Byte, NEW m \in Byte, i.op = op, i.modrm = m
  PROVE  /\ Decode!Row(op) < 4 /\ op % 8 < 6 =>
              Decode!Id1(i) = MemberAt(1 + 2 * Decode!Row(op) + (IF Decode!Column(op) >= 8 THEN 1 ELSE 0))
         /\ op \in \h80 .. \h84 => Decode!Id1(i) = MemberAt(1 + Decode!Reg(m))
         /\ op \in \h70 .. \h7F => Decode!Id1(i) = MemberAt(32 + Decode!Column(op))
         /\ op = \hFF /\ Decode!Reg(m) # 7 => Decode!Id1(i) = MemberAt(25 + Decode!Reg(m))
         /\ op \in {\hC0, \hC1} \cup (\hD0 .. \hD3) => Decode!Id1(i) = MemberAt(9 + Decode!Reg(m))
         /\ op \in {\hF6, \hF7} => Decode!Id1(i) = MemberAt(17 + Decode!Reg(m))
         /\ op \in (\hF0 .. \hF5) \cup (\hF8 .. \hFD) => Decode!Id1(i) = MemberAt(131 + (op - \hF1))
         /\ op = \hD7 => Decode!Id1(i) = MemberAt(147)
         /\ op \in \hE0 .. \hE3 => Decode!Id1(i) = MemberAt(148 + (op - \hE0))
<1> DEFINE row == Decode!Row(op)
           column == Decode!Column(op)
           reg == Decode!Reg(m)
<1>1. /\ row \in 0 .. 15 /\ column \in 0 .. 15 /\ op = 16 * row + column
      /\ op % 8 = (IF column >= 8 THEN column - 8 ELSE column) /\ reg \in 0 .. 7
  BY ByteParts
<1> HIDE DEF row, column, reg
<1>2. ASSUME row < 4, op % 8 < 6
      PROVE  Decode!Id1(i) = MemberAt(1 + 2 * row + (IF column >= 8 THEN 1 ELSE 0))
  <2> DEFINE d == 2 * row + (IF column >= 8 THEN 1 ELSE 0)
  <2>1. Decode!Id1(i) = Decode!Plus("ADD", d)
    BY <1>1, <1>2 DEF Decode!Id1, row, column
  <2>2. d \in 0 .. 30 /\ 1 + d = 1 + 2 * row + (IF column >= 8 THEN 1 ELSE 0)
    BY <1>1, <1>2
  <2> HIDE DEF d
  <2>3. Decode!Plus("ADD", d) = MemberAt(1 + d)
    BY <2>2, PlusFromBase DEF From
  <2> QED
    BY <2>1, <2>2, <2>3
<1>3. ASSUME op \in \h80 .. \h84
      PROVE  Decode!Id1(i) = MemberAt(1 + reg)
  <2>1. Decode!Id1(i) = Decode!Plus("ADD", reg)
    BY <1>1, <1>3 DEF Decode!Id1, row, column, reg
  <2>2. Decode!Plus("ADD", reg) = MemberAt(1 + reg)
    BY <1>1, PlusFromBase DEF From
  <2> QED
    BY <2>1, <2>2
<1>4. ASSUME op \in \h70 .. \h7F
      PROVE  Decode!Id1(i) = MemberAt(32 + column)
  <2>1. Decode!Id1(i) = Decode!Plus("JO", column)
    BY <1>1, <1>4 DEF Decode!Id1, row, column, reg
  <2>2. Decode!Plus("JO", column) = MemberAt(32 + column)
    BY <1>1, PlusFromBase DEF From
  <2> QED
    BY <2>1, <2>2
<1>5. ASSUME op = \hFF, reg # 7
      PROVE  Decode!Id1(i) = MemberAt(25 + reg)
  <2>1. Decode!Id1(i) = Decode!Plus("INC", reg)
    BY <1>1, <1>5 DEF Decode!Id1, row, column, reg
  <2>2. Decode!Plus("INC", reg) = MemberAt(25 + reg)
    BY <1>1, <1>5, PlusFromBase DEF From
  <2> QED
    BY <2>1, <2>2
<1>6. ASSUME op \in {\hC0, \hC1} \cup (\hD0 .. \hD3)
      PROVE  Decode!Id1(i) = MemberAt(9 + reg)
  <2>1. Decode!Id1(i) = Decode!Plus("ROL", reg)
    BY <1>1, <1>6 DEF Decode!Id1, row, column, reg
  <2>2. Decode!Plus("ROL", reg) = MemberAt(9 + reg)
    BY <1>1, PlusFromBase DEF From
  <2> QED
    BY <2>1, <2>2
<1>7. ASSUME op \in {\hF6, \hF7}
      PROVE  Decode!Id1(i) = MemberAt(17 + reg)
  <2>1. Decode!Id1(i) = Decode!Plus("TEST", reg)
    BY <1>1, <1>7 DEF Decode!Id1, row, column, reg
  <2>2. Decode!Plus("TEST", reg) = MemberAt(17 + reg)
    BY <1>1, PlusFromBase DEF From
  <2> QED
    BY <2>1, <2>2
<1>8. ASSUME op \in (\hF0 .. \hF5) \cup (\hF8 .. \hFD)
      PROVE  Decode!Id1(i) = MemberAt(131 + (op - \hF1))
  <2>1. Decode!Id1(i) = Decode!Plus("INT1", op - \hF1)
    BY <1>1, <1>8 DEF Decode!Id1, row, column, reg
  <2>2. op - \hF1 \in -1 .. 12
    BY <1>8
  <2>3. Decode!Plus("INT1", op - \hF1) = MemberAt(131 + (op - \hF1))
    BY <2>2, PlusFromBase DEF From
  <2> QED
    BY <2>1, <2>3
<1>9. ASSUME op = \hD7
      PROVE  Decode!Id1(i) = MemberAt(147)
  <2>1. Decode!Id1(i) = Decode!Plus("AAM", 3)
    BY <1>1, <1>9 DEF Decode!Id1, row, column, reg
  <2>2. Decode!Plus("AAM", 3) = MemberAt(147)
    BY PlusFromBase DEF From
  <2> QED
    BY <2>1, <2>2
<1>10. ASSUME op \in \hE0 .. \hE3
      PROVE  Decode!Id1(i) = MemberAt(148 + (op - \hE0))
  <2>1. Decode!Id1(i) = Decode!Plus("LOOPNE", op - \hE0)
    BY <1>1, <1>10 DEF Decode!Id1, row, column, reg
  <2>2. op - \hE0 \in 0 .. 3
    BY <1>10
  <2>3. Decode!Plus("LOOPNE", op - \hE0) = MemberAt(148 + (op - \hE0))
    BY <2>2, PlusFromBase DEF From
  <2> QED
    BY <2>1, <2>3
<1> QED
  BY <1>2, <1>3, <1>4, <1>5, <1>6, <1>7, <1>8, <1>9, <1>10 DEF row, column, reg

(* The ids of the escape opcodes. *)
LEMMA FloatingPointIs ==
  ASSUME NEW op \in \hD8 .. \hDF, NEW m \in Byte, ~Decode!Reserved1(op, m)
  PROVE  LET reg == Decode!Reg(m)
             registers == Decode!Mod(m) = 3
             byRow == 2 * (Decode!Row(m) - 12) + 1
             id == Decode!FloatingPointId(op, m)
         IN  /\ op \in {\hD8, \hDC} /\ ~registers => id = MemberAt(48 + reg)
             /\ op = \hD8 /\ registers => id = MemberAt(48 + byRow)
             /\ op = \hDC /\ registers => id \in {MemberAt(48 + byRow), MemberAt(48 + (byRow - 1))}
             /\ op = \hDC /\ registers /\ Decode!Row(m) > 13 => id = MemberAt(48 + (byRow - 1))
             /\ op = \hD9 /\ ~registers => id = MemberAt(56 + reg)
             /\ op = \hD9 /\ registers /\ m >= \hE0 => id = MemberAt(64 + (m - \hE0))
             /\ op = \hD9 /\ registers /\ m < \hE0 =>
                  id = IF m < \hC8 THEN "FLD" ELSE IF m < \hD0 THEN "FXCH"
                       ELSE IF m = \hD0 THEN "FNOP" ELSE "FSTPNCE"
             /\ op \in {\hDA, \hDE} /\ ~registers => id = MemberAt(96 + reg)
             /\ op = \hDA /\ registers => id = IF m = \hE9 THEN "FUCOMPP" ELSE MemberAt(104 + byRow)
             /\ op \in {\hDB, \hDF} /\ ~registers /\ reg <= 4 => id = MemberAt(108 + reg)
             /\ op = \hDF /\ ~registers /\ reg = 6 => id = MemberAt(114)
             /\ op \in {\hDB, \hDF} /\ ~registers /\ reg \in {5, 7} =>
                  id = IF op = \hDB THEN IF reg = 5 THEN "FLD" ELSE "FSTP"
                       ELSE IF reg = 5 THEN "FILD" ELSE "FISTP"
             /\ op = \hDB /\ registers =>
                  id = IF m = \hE2 THEN "FNCLEX" ELSE MemberAt(116 + byRow)
             /\ op = \hDD /\ registers =>
                  /\ reg \in 0 .. 5
                  /\ id = <<"FFREE", "FXCH", "FST", "FSTP", "FUCOM", "FUCOMP">>[reg + 1]
             /\ op = \hDD /\ ~registers =>
                  id = <<"FLD", "FISTTP", "FST", "FSTP", "FRSTOR", "INVALID", "FNSAVE",
                         "FNSTSW">>[reg + 1]
             /\ op = \hDE /\ registers =>
                  id = IF m = \hD9 THEN "FCOMPP" ELSE IF m \in \hD0 .. \hD7 THEN "FCOMP"
                       ELSE MemberAt(123 + byRow)
             /\ op = \hDF /\ registers =>
                  id = IF reg = 0 THEN "FFREEP" ELSE IF reg = 1 THEN "FXCH"
                       ELSE IF reg \in {2, 3} THEN "FSTP" ELSE IF m = \hE0 THEN "FNSTSW"
                       ELSE IF reg = 6 THEN "FCOMIP" ELSE "FUCOMIP"
<1> DEFINE reg == Decode!Reg(m)
           mod == Decode!Mod(m)
           rm == Decode!Rm(m)
           row == Decode!Row(m)
           column == Decode!Column(m)
           byRow == 2 * (row - 12) + 1
           registers == mod = 3
           id == Decode!FloatingPointId(op, m)
<1>1. /\ mod \in 0 .. 3 /\ reg \in 0 .. 7 /\ rm \in 0 .. 7 /\ m = 64 * mod + 8 * reg + rm
      /\ row \in 0 .. 15 /\ column \in 0 .. 15 /\ m = 16 * row + column
  BY ByteParts
<1>2. registers => byRow \in {1, 3, 5, 7} /\ row >= 12
  BY <1>1
<1>3. Decode!OfRegisters(m) = byRow
  BY DEF Decode!OfRegisters
<1> HIDE DEF reg, mod, rm, row, column
<1>4. /\ op \in {\hD8, \hDC} /\ ~registers => id = MemberAt(48 + reg)
      /\ op = \hD8 /\ registers => id = MemberAt(48 + byRow)
  <2>1. CASE op = \hD8 /\ ~registers
    <3>1. id = Decode!Plus("FADD", reg)
      BY <2>1 DEF Decode!FloatingPointId, mod, reg
    <3> QED
      BY <1>1, <2>1, <3>1, PlusFromBase DEF From
  <2>2. CASE op = \hD8 /\ registers
    <3>1. id = Decode!Plus("FADD", byRow)
      BY <1>3, <2>2 DEF Decode!FloatingPointId, mod
    <3>2. Decode!Plus("FADD", byRow) = MemberAt(48 + byRow)
      BY <1>2, <2>2, PlusFromBase DEF From
    <3> QED
      BY <2>2, <3>1, <3>2
  <2>3. CASE op = \hDC /\ ~registers
    <3>1. id = Decode!Plus("FADD", reg)
      BY <2>3 DEF Decode!FloatingPointId, mod, reg
    <3> QED
      BY <1>1, <2>3, <3>1, PlusFromBase DEF From
  <2> QED
    BY <2>1, <2>2, <2>3
<1>5. ASSUME op = \hDC, registers
      PROVE  /\ id \in {MemberAt(48 + byRow), MemberAt(48 + (byRow - 1))}
             /\ row > 13 => id = MemberAt(48 + (byRow - 1))
  <2> DEFINE d == 2 * (row - 12) + (IF column >= 8 /\ row <= 13 THEN 1 ELSE 0)
  <2>1. id = Decode!Plus("FADD", d)
    BY <1>5 DEF Decode!FloatingPointId, mod, row, column
  <2>2. d \in {byRow, byRow - 1} /\ d \in 0 .. 7 /\ (row > 13 => d = byRow - 1)
    BY <1>1, <1>2, <1>5
  <2> HIDE DEF d
  <2>3. Decode!Plus("FADD", d) = MemberAt(48 + d)
    BY <2>2, PlusFromBase DEF From
  <2> QED
    BY <2>1, <2>2, <2>3
<1>6. ASSUME op = \hD9
      PROVE  /\ ~registers => id = MemberAt(56 + reg)
             /\ registers /\ m >= \hE0 => id = MemberAt(64 + (m - \hE0))
             /\ registers /\ m < \hE0 =>
                  id = IF m < \hC8 THEN "FLD" ELSE IF m < \hD0 THEN "FXCH"
                       ELSE IF m = \hD0 THEN "FNOP" ELSE "FSTPNCE"
  <2>1. CASE ~registers
    <3>1. ~(m >= \hC0)
      BY <1>1, <2>1
    <3>2. id = Decode!Plus("FLD", reg)
      BY <1>6, <2>1, <3>1 DEF Decode!FloatingPointId, mod, reg, Byte
    <3>3. Decode!Plus("FLD", reg) = MemberAt(56 + reg)
      BY <1>1, PlusFromBase DEF From
    <3> QED
      BY <2>1, <3>2, <3>3
  <2>2. CASE registers /\ m >= \hE0
    <3>1. id = Decode!Plus("FCHS", m - \hE0)
      BY <1>6, <2>2 DEF Decode!FloatingPointId, mod, Byte
    <3>2. m - \hE0 \in 0 .. 31
      BY <2>2 DEF Byte
    <3>3. Decode!Plus("FCHS", m - \hE0) = MemberAt(64 + (m - \hE0))
      BY <3>2, PlusFromBase DEF From
    <3> QED
      BY <2>2, <3>1, <3>3 DEF Byte
  <2>3. CASE registers /\ m < \hE0
    <3>1. m \in \hC0 .. \hDF /\ m \notin \hD1 .. \hD7
      BY <1>1, <1>6, <2>3 DEF Decode!Reserved1
    <3>2. id = IF m < \hC8 THEN "FLD" ELSE IF m < \hD0 THEN "FXCH"
               ELSE IF m = \hD0 THEN "FNOP" ELSE "FSTPNCE"
      BY <1>6, <2>3, <3>1 DEF Decode!FloatingPointId, mod, Byte
    <3> QED
      BY <2>3, <3>1, <3>2
  <2> QED
    BY <2>1, <2>2, <2>3 DEF Byte
<1>7. /\ op \in {\hDA, \hDE} /\ ~registers => id = MemberAt(96 + reg)
      /\ op = \hDA /\ registers => id = IF m = \hE9 THEN "FUCOMPP" ELSE MemberAt(104 + byRow)
  <2>1. CASE op = \hDA /\ ~registers
    <3>1. id = Decode!Plus("FIADD", reg)
      BY <2>1 DEF Decode!FloatingPointId, mod, reg
    <3> QED
      BY <1>1, <2>1, <3>1, PlusFromBase DEF From
  <2>2. CASE op = \hDA /\ registers
    <3>1. id = IF m = \hE9 THEN "FUCOMPP" ELSE Decode!Plus("FCMOVB", byRow)
      BY <1>3, <2>2 DEF Decode!FloatingPointId, mod
    <3>2. Decode!Plus("FCMOVB", byRow) = MemberAt(104 + byRow)
      BY <1>2, <2>2, PlusFromBase DEF From
    <3> QED
      BY <2>2, <3>1, <3>2
  <2>3. CASE op = \hDE /\ ~registers
    <3>1. id = Decode!Plus("FIADD", reg)
      BY <2>3 DEF Decode!FloatingPointId, mod, reg
    <3> QED
      BY <1>1, <2>3, <3>1, PlusFromBase DEF From
  <2> QED
    BY <2>1, <2>2, <2>3
<1>8. ASSUME op \in {\hDB, \hDF}, ~registers
      PROVE  /\ reg <= 4 => id = MemberAt(108 + reg)
             /\ op = \hDF /\ reg = 6 => id = MemberAt(114)
             /\ reg \in {5, 7} =>
                  id = IF op = \hDB THEN IF reg = 5 THEN "FLD" ELSE "FSTP"
                       ELSE IF reg = 5 THEN "FILD" ELSE "FISTP"
  <2>1. Decode!Plus("FILD", reg) = MemberAt(108 + reg)
    BY <1>1, PlusFromBase DEF From
  <2>2. CASE op = \hDB
    <3>1. id = CASE reg = 5 -> "FLD" [] reg = 7 -> "FSTP" [] OTHER -> Decode!Plus("FILD", reg)
      BY <1>8, <2>2 DEF Decode!FloatingPointId, mod, reg
    <3> QED
      BY <1>1, <2>1, <2>2, <3>1
  <2>3. CASE op = \hDF
    <3>1. id = CASE reg = 5 -> "FILD" [] reg = 7 -> "FISTP" [] OTHER -> Decode!Plus("FILD", reg)
      BY <1>8, <2>3 DEF Decode!FloatingPointId, mod, reg
    <3> QED
      BY <1>1, <2>1, <2>3, <3>1
  <2> QED
    BY <1>8, <2>2, <2>3
<1>9. ASSUME op = \hDB, registers
      PROVE  id = IF m = \hE2 THEN "FNCLEX" ELSE MemberAt(116 + byRow)
  <2>1. id = IF m = \hE2 THEN "FNCLEX" ELSE Decode!Plus("FCMOVNB", byRow)
    BY <1>3, <1>9 DEF Decode!FloatingPointId, mod
  <2>2. Decode!Plus("FCMOVNB", byRow) = MemberAt(116 + byRow)
    BY <1>2, <1>9, PlusFromBase DEF From
  <2> QED
    BY <2>1, <2>2
<1>10. ASSUME op = \hDD
       PROVE  /\ registers =>
                   /\ reg \in 0 .. 5
                   /\ id = <<"FFREE", "FXCH", "FST", "FSTP", "FUCOM", "FUCOMP">>[reg + 1]
              /\ ~registers =>
                   id = <<"FLD", "FISTTP", "FST", "FSTP", "FRSTOR", "INVALID", "FNSAVE",
                          "FNSTSW">>[reg + 1]
  <2>1. registers => reg \in 0 .. 5
    <3>1. row # 15
      BY <1>10 DEF Decode!Reserved1, row
    <3> QED
      BY <1>1, <3>1
  <2>2. id = IF registers
               THEN <<"FFREE", "FXCH", "FST", "FSTP", "FUCOM", "FUCOMP">>[reg + 1]
               ELSE <<"FLD", "FISTTP", "FST", "FSTP", "FRSTOR", "INVALID", "FNSAVE",
                      "FNSTSW">>[reg + 1]
    BY <1>10 DEF Decode!FloatingPointId, Decode!INVALID, mod, reg
  <2> QED
    BY <2>1, <2>2
<1>11. ASSUME op = \hDE, registers
       PROVE  id = IF m = \hD9 THEN "FCOMPP" ELSE IF m \in \hD0 .. \hD7 THEN "FCOMP"
                   ELSE MemberAt(123 + byRow)
  <2>1. id = CASE m = \hD9 -> "FCOMPP" [] m \in \hD0 .. \hD7 -> "FCOMP"
               [] OTHER -> Decode!Plus("FADDP", byRow)
    BY <1>3, <1>11 DEF Decode!FloatingPointId, mod
  <2>2. Decode!Plus("FADDP", byRow) = MemberAt(123 + byRow)
    BY <1>2, <1>11, PlusFromBase DEF From
  <2> QED
    BY <2>1, <2>2
<1>12. ASSUME op = \hDF, registers
       PROVE  id = IF reg = 0 THEN "FFREEP" ELSE IF reg = 1 THEN "FXCH"
                   ELSE IF reg \in {2, 3} THEN "FSTP" ELSE IF m = \hE0 THEN "FNSTSW"
                   ELSE IF reg = 6 THEN "FCOMIP" ELSE "FUCOMIP"
  <2>1. m = \hE0 => reg = 4
    BY <1>1
  <2>2. id = CASE reg = 0 -> "FFREEP"
               [] reg = 1 -> "FXCH"
               [] reg \in {2, 3} -> "FSTP"
               [] m = \hE0 -> "FNSTSW"
               [] reg = 6 -> "FCOMIP"
               [] OTHER -> "FUCOMIP"
    BY <1>12 DEF Decode!FloatingPointId, mod, reg
  <2> QED
    BY <1>1, <2>1, <2>2
<1> QED
  BY <1>4, <1>5, <1>6, <1>7, <1>8, <1>9, <1>10, <1>11, <1>12 DEF reg, mod, row, byRow, registers, id

(* No escape opcode is given the id of a branch. *)
LEMMA FloatingPointBranches ==
  ASSUME NEW op \in \hD8 .. \hDF, NEW m \in Byte, ~Decode!Reserved1(op, m)
  PROVE  ~IsBranch(Decode!FloatingPointId(op, m)) /\ Decode!FloatingPointId(op, m) # "LEA"
<1> DEFINE id == Decode!FloatingPointId(op, m)
           reg == Decode!Reg(m)
<1>1. (\E k \in 48 .. 130 : id = MemberAt(k))
      \/ id \in {"FLD", "FXCH", "FNOP", "FSTPNCE", "FUCOMPP", "FSTP", "FILD", "FISTP", "FNCLEX",
                 "FFREE", "FST", "FUCOM", "FUCOMP", "FISTTP", "FRSTOR", "INVALID", "FNSAVE",
                 "FNSTSW", "FCOMPP", "FCOMP", "FFREEP", "FCOMIP", "FUCOMIP"}
  <2> DEFINE row == Decode!Row(m)
             mod == Decode!Mod(m)
             names == {"FLD", "FXCH", "FNOP", "FSTPNCE", "FUCOMPP", "FSTP", "FILD", "FISTP", "FNCLEX",
                       "FFREE", "FST", "FUCOM", "FUCOMP", "FISTTP", "FRSTOR", "INVALID", "FNSAVE",
                       "FNSTSW", "FCOMPP", "FCOMP", "FFREEP", "FCOMIP", "FUCOMIP"}
             named == \E k \in 48 .. 130 : id = MemberAt(k)
  <2>1. /\ reg \in 0 .. 7 /\ row \in 0 .. 15 /\ (mod = 3 => 2 * (row - 12) + 1 \in {1, 3, 5, 7})
        /\ m - \hE0 \in Int /\ (m >= \hE0 => m - \hE0 \in 0 .. 31)
    <3>1. /\ reg \in 0 .. 7 /\ row \in 0 .. 15 /\ mod \in 0 .. 3
          /\ mod = 3 => row \in 12 .. 15
      BY ByteParts
    <3> HIDE DEF reg, row, mod
    <3>2. m - \hE0 \in Int /\ (m >= \hE0 => m - \hE0 \in 0 .. 31)
      BY DEF Byte
    <3> QED
      BY <3>1, <3>2
  <2> HIDE DEF row, mod, reg, id
  <2>2. CASE op \in {\hD8, \hDC}
    <3>1. CASE mod = 3
      <4> DEFINE a == 48 + (2 * (row - 12) + 1)
                 b == 48 + (2 * (row - 12) + 1 - 1)
      <4>1. id = MemberAt(a) \/ id = MemberAt(b)
        BY <2>1, <2>2, <3>1, FloatingPointIs DEF id, row, mod
      <4>2. a \in 48 .. 130 /\ b \in 48 .. 130
        BY <2>1, <3>1
      <4> HIDE DEF a, b
      <4> QED
        BY <4>1, <4>2
    <3>2. CASE mod # 3
      <4>1. id = MemberAt(48 + reg)
        BY <2>2, <3>2, FloatingPointIs DEF id, mod, reg
      <4> QED
        BY <2>1, <4>1
    <3> QED
      BY <3>1, <3>2
  <2>3. CASE op = \hD9
    <3>1. CASE mod = 3 /\ m >= \hE0
      <4>1. id = MemberAt(64 + (m - \hE0))
        BY <2>3, <3>1, FloatingPointIs DEF id, mod
      <4>2. 64 + (m - \hE0) \in 48 .. 130
        BY <2>1, <3>1
      <4> QED
        BY <4>1, <4>2
    <3>2. CASE mod = 3 /\ m < \hE0
      BY <2>3, <3>2, FloatingPointIs DEF id, mod
    <3>3. CASE mod # 3
      <4>1. id = MemberAt(56 + reg)
        BY <2>3, <3>3, FloatingPointIs DEF id, mod, reg
      <4> QED
        BY <2>1, <4>1
    <3> QED
      BY <3>1, <3>2, <3>3 DEF Byte
  <2>4. CASE op \in {\hDA, \hDE}
    BY <2>1, <2>4, FloatingPointIs DEF id, row, mod, reg
  <2>5. CASE op \in {\hDB, \hDF}
    <3>1. CASE mod = 3
      BY <2>1, <2>5, <3>1, FloatingPointIs DEF id, row, mod, reg
    <3>2. CASE mod # 3
      <4>1. op = \hDB => reg \notin {4, 6}
        BY <3>2 DEF Decode!Reserved1, reg, mod
      <4> QED
        BY <2>1, <2>5, <3>2, <4>1, FloatingPointIs DEF id, row, mod, reg
    <3> QED
      BY <3>1, <3>2
  <2>6. CASE op = \hDD
    <3>1. CASE mod = 3
      <4>1. reg \in 0 .. 5 /\ id = <<"FFREE", "FXCH", "FST", "FSTP", "FUCOM", "FUCOMP">>[reg + 1]
        BY <2>6, <3>1, FloatingPointIs DEF id, reg, mod
      <4> QED
        BY <4>1
    <3>2. CASE mod # 3
      <4>1. id = <<"FLD", "FISTTP", "FST", "FSTP", "FRSTOR", "INVALID", "FNSAVE", "FNSTSW">>[reg + 1]
        BY <2>6, <3>2, FloatingPointIs DEF id, reg, mod
      <4> QED
        BY <2>1, <4>1
    <3> QED
      BY <3>1, <3>2
  <2> QED
    BY <2>2, <2>3, <2>4, <2>5, <2>6
<1> HIDE DEF id
<1>2. CASE \E k \in 48 .. 130 : id = MemberAt(k)
  <2>1. PICK k \in 48 .. 130 : id = MemberAt(k)
    BY <1>2
  <2> QED
    BY <2>1, BranchMembers DEF IsBranch, id
<1>3. CASE ~\E k \in 48 .. 130 : id = MemberAt(k)
  BY <1>1, <1>3, BranchIdsAre DEF IsBranch, FarBranchIds, id
<1> QED
  BY <1>2, <1>3

(* The one-byte opcodes whose id is given by name. *)
LEMMA Named1Is ==
  ASSUME NEW op \in Byte
  PROVE  LET id == Decode!Named1[op]
         IN  /\ id = "CALL" <=> op = \hE8
             /\ id = "JMP" <=> op \in {\hE9, \hEB}
             /\ id = "LEA" <=> op = \h8D
             /\ id \in {"CALL", "JMP", "LEA", "POP", "TEST", "IMUL", "MOVSXD", "PUSH", "RET", "XCHG",
                       "MOV", "INT3", "INT", "INSB", "OUTSB", "ENTER", "LEAVE", "FWAIT", "SAHF", "LAHF",
                       "MOVSB", "CMPSB", "STOSB", "LODSB", "SCASB", "RETF", "IN", "OUT", "INVALID"}
<1> op \in Decode!Byte
  BY DEF Byte, Decode!Byte
<1>1. Decode!Named1[op] = "CALL" <=> op = \hE8
  BY DEF Decode!Named1, Decode!INVALID
<1>2. Decode!Named1[op] = "JMP" <=> op \in {\hE9, \hEB}
  BY DEF Decode!Named1, Decode!INVALID
<1>3. Decode!Named1[op] = "LEA" <=> op = \h8D
  BY DEF Decode!Named1, Decode!INVALID
<1>4. Decode!Named1[op] \in
        {"CALL", "JMP", "LEA", "POP", "TEST", "IMUL", "MOVSXD", "PUSH", "RET", "XCHG",
         "MOV", "INT3", "INT", "INSB", "OUTSB", "ENTER", "LEAVE", "FWAIT", "SAHF", "LAHF",
         "MOVSB", "CMPSB", "STOSB", "LODSB", "SCASB", "RETF", "IN", "OUT", "INVALID"}
  BY DEF Decode!Named1, Decode!INVALID
<1> QED
  BY <1>1, <1>2, <1>3, <1>4

(* Which one-byte opcodes are given the id of a branch. *)
Branch1(op, m) ==
  \/ op \in (\h70 .. \h7F) \cup (\hE0 .. \hE3) \cup {\hE8, \hE9, \hEB}
  \/ op = \hC7 /\ m = \hF8
  \/ op = \hFF /\ Decode!Reg(m) \in {2, 4}

(* The ids of branches are given to the opcodes of branches. *)
LEMMA BranchId1 ==
  ASSUME NEW i, NEW op \in Byte, NEW m \in Byte, i.op = op, i.modrm = m, ~Decode!Reserved1(op, m)
  PROVE  /\ Decode!Id1(i) \in BranchIds <=> Branch1(op, m)
         /\ Decode!Id1(i) \in FarBranchIds <=> op = \hFF /\ Decode!Reg(m) \in {3, 5}
         /\ Decode!Id1(i) = "LEA" <=> op = \h8D
<1> DEFINE row == Decode!Row(op)
           column == Decode!Column(op)
           reg == Decode!Reg(m)
           id == Decode!Id1(i)
           plain(name) == ~IsBranch(name) /\ name # "LEA"
           group == op \in (\hF0 .. \hF5) \cup (\hF8 .. \hFD)
           Goal == /\ id \in BranchIds <=> Branch1(op, m)
                   /\ id \in FarBranchIds <=> op = \hFF /\ reg \in {3, 5}
                   /\ id = "LEA" <=> op = \h8D
<1>1. /\ row \in 0 .. 15 /\ column \in 0 .. 15 /\ op = 16 * row + column
      /\ op % 8 = (IF column >= 8 THEN column - 8 ELSE column) /\ reg \in 0 .. 7
  BY ByteParts
<1>2. Branch1(op, m) <=> \/ op \in (\h70 .. \h7F) \cup (\hE0 .. \hE3) \cup {\hE8, \hE9, \hEB}
                         \/ op = \hC7 /\ m = \hF8
                         \/ op = \hFF /\ reg \in {2, 4}
  BY DEF Branch1
<1> SUFFICES Goal
  OBVIOUS
<1> HIDE DEF row, column, reg, id
<1>3. CASE row < 4 /\ op % 8 < 6
  <2> DEFINE k == 1 + 2 * row + (IF column >= 8 THEN 1 ELSE 0)
  <2>1. k \in 1 .. 8 /\ id = MemberAt(k)
    BY <1>1, <1>3, Id1Computed DEF row, column, id
  <2> HIDE DEF k
  <2> QED
    BY <1>1, <1>2, <1>3, <2>1, BranchMembers
<1>4. CASE op \in \h80 .. \h84
  <2>1. 1 + reg \in 1 .. 8 /\ id = MemberAt(1 + reg)
    BY <1>1, <1>4, Id1Computed DEF reg, id
  <2> QED
    BY <1>2, <1>4, <2>1, BranchMembers
<1>5. CASE row = 5
  <2>1. id \in {"PUSH", "POP"}
    BY <1>1, <1>5 DEF Decode!Id1, id, row, column
  <2> QED
    BY <1>1, <1>2, <1>5, <2>1, BranchIdsAre DEF FarBranchIds
<1>6. CASE row = 7
  <2>1. op \in \h70 .. \h7F /\ 32 + column \in 32 .. 47
    BY <1>1, <1>6
  <2>2. id = MemberAt(32 + column)
    BY <2>1, Id1Computed DEF column, id
  <2> QED
    BY <1>2, <2>1, <2>2, BranchMembers
<1>7. CASE op = \hFF
  <2>1. reg # 7
    BY <1>7 DEF Decode!Reserved1, reg
  <2>2. 25 + reg \in 25 .. 31 /\ id = MemberAt(25 + reg)
    BY <1>1, <1>7, <2>1, Id1Computed DEF reg, id
  <2> QED
    BY <1>1, <1>2, <1>7, <2>2, BranchMembers
<1>8. CASE op \in {\hFE, \h90}
  <2>1. id \in {"INC", "DEC", "PAUSE", "XCHG", "NOP"}
    <3>1. CASE op = \hFE
      BY <1>1, <3>1 DEF Decode!Id1, id, row, column
    <3>2. CASE op = \h90
      BY <1>1, <3>2 DEF Decode!Id1, id, row, column
    <3> QED
      BY <1>8, <3>1, <3>2
  <2> QED
    BY <1>2, <1>8, <2>1, BranchIdsAre DEF FarBranchIds
<1>9. CASE op \in {\hC0, \hC1} \cup (\hD0 .. \hD3)
  <2>1. 9 + reg \in 9 .. 16 /\ id = MemberAt(9 + reg)
    BY <1>1, <1>9, Id1Computed DEF reg, id
  <2> QED
    BY <1>2, <1>9, <2>1, BranchMembers
<1>10. CASE op \in {\hF6, \hF7}
  <2>1. 17 + reg \in 17 .. 24 /\ id = MemberAt(17 + reg)
    BY <1>1, <1>10, Id1Computed DEF reg, id
  <2> QED
    BY <1>2, <1>10, <2>1, BranchMembers
<1>11. CASE op \in {\hC6, \hC7}
  <2>1. reg = 0 \/ m = \hF8
    BY <1>11 DEF Decode!Reserved1, reg
  <2>2. m = \hF8 => reg = 7
    BY DEF reg, Decode!Reg
  <2>3. id = IF reg = 0 THEN "MOV" ELSE IF op = \hC6 THEN "XABORT" ELSE "XBEGIN"
    BY <1>1, <1>11 DEF Decode!Id1, id, row, column, reg
  <2> QED
    BY <1>2, <1>11, <2>1, <2>2, <2>3, BranchIdsAre DEF FarBranchIds
<1>12. CASE op \in (\hF0 .. \hF5) \cup (\hF8 .. \hFD)
  <2>1. 131 + (op - \hF1) \in 130 .. 143 /\ id = MemberAt(131 + (op - \hF1))
    BY <1>12, Id1Computed DEF id
  <2> QED
    BY <1>2, <1>12, <2>1, BranchMembers
<1>13. CASE op = \hD7
  <2>1. id = MemberAt(147)
    BY <1>13, Id1Computed DEF id
  <2> QED
    BY <1>2, <1>13, <2>1, BranchMembers
<1>14. CASE op \in \hE0 .. \hE3
  <2>1. 148 + (op - \hE0) \in 148 .. 151 /\ id = MemberAt(148 + (op - \hE0))
    BY <1>14, Id1Computed DEF id
  <2> QED
    BY <1>2, <1>14, <2>1, BranchMembers
<1>15. CASE op \in \hD8 .. \hDF
  <2>1. id = Decode!FloatingPointId(op, m)
    BY <1>1, <1>15 DEF Decode!Id1, id, row, column
  <2> QED
    BY <1>2, <1>15, <2>1, FloatingPointBranches DEF IsBranch
<1>16. CASE op \in {\h6D, \h6F, \h98, \h99, \h9C, \h9D, \hA5, \hA7, \hAB, \hAD, \hAF, \hCF}
  <2>1. id = Decode!SizedId(i)
    BY <1>1, <1>16 DEF Decode!Id1, id, row, column
  <2>2. id \in {"INSW", "INSD", "OUTSW", "OUTSD", "PUSHF", "PUSHFQ", "POPF", "POPFQ",
                "MOVSW", "MOVSD", "MOVSQ", "CMPSW", "CMPSD", "CMPSQ", "STOSW", "STOSD", "STOSQ",
                "LODSW", "LODSD", "LODSQ", "SCASW", "SCASD", "SCASQ", "CDQE", "CBW", "CWDE",
                "CQO", "CWD", "CDQ", "IRETQ", "IRET", "IRETD"}
    BY <1>16, <2>1 DEF Decode!SizedId, Decode!Sized
  <2> QED
    BY <1>2, <1>16, <2>2, BranchIdsAre DEF FarBranchIds
<1>17. CASE ~(\/ (row < 4 /\ op % 8 < 6) \/ row \in {5, 7} \/ op \in \h80 .. \h84
              \/ op \in {\hFF, \hFE, \h90, \hC0, \hC1, \hF6, \hF7, \hC6, \hC7, \hD7}
              \/ op \in (\hD0 .. \hD3) \cup (\hF0 .. \hF5) \cup (\hF8 .. \hFD)
                          \cup (\hE0 .. \hE3) \cup (\hD8 .. \hDF)
              \/ op \in {\h6D, \h6F, \h98, \h99, \h9C, \h9D, \hA5, \hA7, \hAB, \hAD, \hAF, \hCF})
  <2>1. id = Decode!Named1[op]
    BY SMTT(60), <1>1, <1>17 DEF Decode!Id1, id, row, column
  <2>2. op \notin \h70 .. \h7F
    BY <1>1, <1>17
  <2>3. /\ id = "CALL" <=> op = \hE8
        /\ id = "JMP" <=> op \in {\hE9, \hEB}
        /\ id = "LEA" <=> op = \h8D
        /\ id \in {"CALL", "JMP", "LEA", "POP", "TEST", "IMUL", "MOVSXD", "PUSH", "RET", "XCHG",
                  "MOV", "INT3", "INT", "INSB", "OUTSB", "ENTER", "LEAVE", "FWAIT", "SAHF", "LAHF",
                  "MOVSB", "CMPSB", "STOSB", "LODSB", "SCASB", "RETF", "IN", "OUT", "INVALID"}
    BY <2>1, Named1Is
  <2> QED
    BY <1>2, <1>17, <2>2, <2>3, BranchIdsAre DEF FarBranchIds
<1> QED
  BY <1>3, <1>4, <1>5, <1>6, <1>7, <1>8, <1>9, <1>10, <1>11, <1>12, <1>13, <1>14, <1>15, <1>16, <1>17

(* The same behind 0F: the ids given by name, ... *)
LEMMA Named2Is ==
  ASSUME NEW op \in Byte
  PROVE  Decode!Named2[op] \in
           {"PUSH", "POP", "MOV", "IMUL", "CMPXCHG", "XADD", "SHRD", "MOVZX", "MOVSX", "BSWAP",
            "SYSCALL", "EMMS", "FEMMS", "RSM", "BTS", "POPCNT", "UD1", "BTC", "UD0", "SIMD", "INVALID"}
<1> op \in Decode!Byte
  BY DEF Byte, Decode!Byte
<1> QED
  BY DEF Decode!Named2, Decode!INVALID, Decode!SIMD

(* ... those that are computed, ... *)
LEMMA Id2Computed ==
  ASSUME NEW i, NEW op \in Byte, NEW m \in Byte, i.op = op, i.modrm = m
  PROVE  /\ op \in \h80 .. \h8F => Decode!Id2(i) = MemberAt(32 + Decode!Column(op))
         /\ op \in \hA2 .. \hA5 => Decode!Id2(i) = MemberAt(253 + (op - \hA2))
         /\ op \in \h40 .. \h4F => Decode!Id2(i) = MemberAt(214 + Decode!Column(op))
         /\ op = \h00 => Decode!Id2(i) = MemberAt(152 + Decode!Reg(m))
         /\ op \in (\h02 .. \h0B) \ {\h05} => Decode!Id2(i) = MemberAt(194 + (op - 2))
         /\ op \in \h30 .. \h3F => Decode!Id2(i) = MemberAt(206 + Decode!Column(op))
         /\ op \in \hB2 .. \hB5 => Decode!Id2(i) = MemberAt(246 + (op - \hB2))
<1> DEFINE row == Decode!Row(op)
           column == Decode!Column(op)
           reg == Decode!Reg(m)
<1>1. /\ row \in 0 .. 15 /\ column \in 0 .. 15 /\ op = 16 * row + column /\ reg \in 0 .. 7
  BY ByteParts
<1> HIDE DEF row, column, reg
<1>2. ASSUME op \in \h80 .. \h8F
      PROVE  Decode!Id2(i) = MemberAt(32 + column)
  <2>1. Decode!Id2(i) = Decode!Plus("JO", column)
    BY <1>1, <1>2 DEF Decode!Id2, row, column
  <2> QED
    BY <1>1, <2>1, PlusFromBase DEF From
<1>3. ASSUME op \in \hA2 .. \hA5
      PROVE  Decode!Id2(i) = MemberAt(253 + (op - \hA2))
  <2>1. Decode!Id2(i) = Decode!Plus("CPUID", op - \hA2)
    BY <1>1, <1>3 DEF Decode!Id2, row, column
  <2>2. op - \hA2 \in 0 .. 3
    BY <1>3
  <2>3. Decode!Plus("CPUID", op - \hA2) = MemberAt(253 + (op - \hA2))
    BY <2>2, PlusFromBase DEF From
  <2> QED
    BY <2>1, <2>3
<1>4. ASSUME op \in \h40 .. \h4F
      PROVE  Decode!Id2(i) = MemberAt(214 + column)
  <2>1. Decode!Id2(i) = Decode!Plus("CMOVO", column)
    BY <1>1, <1>4 DEF Decode!Id2, row, column
  <2> QED
    BY <1>1, <2>1, PlusFromBase DEF From
<1>5. ASSUME op = \h00
      PROVE  Decode!Id2(i) = MemberAt(152 + reg)
  <2>1. Decode!Id2(i) = Decode!Plus("SLDT", reg)
    BY <1>1, <1>5 DEF Decode!Id2, row, column, reg
  <2> QED
    BY <1>1, <2>1, PlusFromBase DEF From
<1>6. ASSUME op \in (\h02 .. \h0B) \ {\h05}
      PROVE  Decode!Id2(i) = MemberAt(194 + (op - 2))
  <2>1. Decode!Id2(i) = Decode!Plus("LAR", op - 2)
    BY <1>1, <1>6 DEF Decode!Id2, row, column
  <2>2. op - 2 \in 0 .. 9
    BY <1>6
  <2>3. Decode!Plus("LAR", op - 2) = MemberAt(194 + (op - 2))
    BY <2>2, PlusFromBase DEF From
  <2> QED
    BY <2>1, <2>3
<1>7. ASSUME op \in \h30 .. \h3F
      PROVE  Decode!Id2(i) = MemberAt(206 + column)
  <2>1. Decode!Id2(i) = Decode!Plus("WRMSR", column)
    BY <1>1, <1>7 DEF Decode!Id2, row, column
  <2> QED
    BY <1>1, <2>1, PlusFromBase DEF From
<1>8. ASSUME op \in \hB2 .. \hB5
      PROVE  Decode!Id2(i) = MemberAt(246 + (op - \hB2))
  <2>1. Decode!Id2(i) = Decode!Plus("LSS", op - \hB2)
    BY <1>1, <1>8 DEF Decode!Id2, row, column
  <2>2. op - \hB2 \in 0 .. 3
    BY <1>8
  <2>3. Decode!Plus("LSS", op - \hB2) = MemberAt(246 + (op - \hB2))
    BY <2>2, PlusFromBase DEF From
  <2> QED
    BY <2>1, <2>3
<1> QED
  BY <1>2, <1>3, <1>4, <1>5, <1>6, <1>7, <1>8 DEF column, reg

(* ... those of the group of 0F 01, ... *)
LEMMA SystemIdIs ==
  ASSUME NEW m \in Byte
  PROVE  \/ \E k \in 158 .. 193 : Decode!SystemId(m) = MemberAt(k)
         \/ Decode!SystemId(m) \in {"SMSW", "INVALID", "LMSW", "SWAPGS", "RDTSCP"}
<1> DEFINE reg == Decode!Reg(m)
           mod == Decode!Mod(m)
           rm == Decode!Rm(m)
<1>1. reg \in 0 .. 7 /\ mod \in 0 .. 3 /\ rm \in 0 .. 7
  BY ByteParts
<1> HIDE DEF reg, mod, rm
<1>2. CASE mod # 3
  <2>1. Decode!SystemId(m) = Decode!Plus("SGDT", reg)
    BY <1>2 DEF Decode!SystemId, mod, reg
  <2>2. Decode!Plus("SGDT", reg) = MemberAt(158 + reg)
    BY <1>1, PlusFromBase DEF From
  <2> QED
    BY <1>1, <2>1, <2>2
<1>3. CASE mod = 3 /\ reg < 4
  <2>1. Decode!SystemId(m) = Decode!Plus(<<"VMCALL", "MONITOR", "XGETBV", "VMRUN">>[reg + 1], rm)
    BY <1>1, <1>3 DEF Decode!SystemId, mod, reg, rm
  <2>2. /\ Decode!Plus("VMCALL", rm) = MemberAt(166 + rm)
        /\ Decode!Plus("MONITOR", rm) = MemberAt(170 + rm)
        /\ Decode!Plus("XGETBV", rm) = MemberAt(178 + rm)
        /\ Decode!Plus("VMRUN", rm) = MemberAt(186 + rm)
    BY <1>1, PlusFromBase DEF From
  <2>3. reg = 0 \/ reg = 1 \/ reg = 2 \/ reg = 3
    BY <1>1, <1>3
  <2>4. Decode!SystemId(m) \in {MemberAt(166 + rm), MemberAt(170 + rm), MemberAt(178 + rm), MemberAt(186 + rm)}
    BY <2>1, <2>2, <2>3
  <2> QED
    BY <1>1, <2>4
<1>4. CASE mod = 3 /\ reg >= 4
  BY <1>1, <1>4 DEF Decode!SystemId, mod, reg, rm, Decode!INVALID
<1> QED
  BY <1>1, <1>2, <1>3, <1>4

(* ... and those of branches. *)
LEMMA BranchId2 ==
  ASSUME NEW i, NEW op \in Byte, NEW m \in Byte, i.op = op, i.modrm = m,
         NEW operand, operand.modrm = m, ~Decode!Reserved2(op, operand, i.p)
  PROVE  /\ Decode!Id2(i) \in BranchIds <=> op \in \h80 .. \h8F
         /\ Decode!Id2(i) \notin FarBranchIds /\ Decode!Id2(i) # "LEA"
<1> DEFINE row == Decode!Row(op)
           column == Decode!Column(op)
           reg == Decode!Reg(m)
           id == Decode!Id2(i)
           Goal == /\ id \in BranchIds <=> op \in \h80 .. \h8F
                   /\ id \notin FarBranchIds /\ id # "LEA"
<1>1. /\ row \in 0 .. 15 /\ column \in 0 .. 15 /\ op = 16 * row + column /\ reg \in 0 .. 7
  BY ByteParts
<1> SUFFICES Goal
  OBVIOUS
<1> HIDE DEF row, column, reg, id
<1>2. CASE row = 8
  <2>1. op \in \h80 .. \h8F /\ 32 + column \in 32 .. 47
    BY <1>1, <1>2
  <2>2. id = MemberAt(32 + column)
    BY <2>1, Id2Computed DEF column, id
  <2> QED
    BY <2>1, <2>2, BranchMembers
<1>3. CASE op \in \hA2 .. \hA5
  <2>1. 253 + (op - \hA2) \in 253 .. 256 /\ id = MemberAt(253 + (op - \hA2))
    BY <1>3, Id2Computed DEF id
  <2> QED
    BY <1>3, <2>1, BranchMembers
<1>4. CASE row = 4
  <2>1. op \in \h40 .. \h4F /\ 214 + column \in 214 .. 229
    BY <1>1, <1>4
  <2>2. id = MemberAt(214 + column)
    BY <2>1, Id2Computed DEF column, id
  <2> QED
    BY <2>1, <2>2, BranchMembers
<1>5. CASE op = \h00
  <2>1. 152 + reg \in 152 .. 159 /\ id = MemberAt(152 + reg)
    BY <1>1, <1>5, Id2Computed DEF reg, id
  <2> QED
    BY <1>5, <2>1, BranchMembers
<1>6. CASE op = \h01
  <2>1. id = Decode!SystemId(m)
    BY <1>1, <1>6 DEF Decode!Id2, id, row, column
  <2>2. CASE \E k \in 158 .. 193 : id = MemberAt(k)
    <3>1. PICK k \in 158 .. 193 : id = MemberAt(k)
      BY <2>2
    <3> QED
      BY <1>6, <3>1, BranchMembers
  <2>3. CASE id \in {"SMSW", "INVALID", "LMSW", "SWAPGS", "RDTSCP"}
    BY <1>6, <2>3, BranchIdsAre DEF FarBranchIds
  <2> QED
    BY <2>1, <2>2, <2>3, SystemIdIs
<1>7. CASE op \in (\h02 .. \h0B) \ {\h05}
  <2>1. 194 + (op - 2) \in 194 .. 203 /\ id = MemberAt(194 + (op - 2))
    BY <1>7, Id2Computed DEF id
  <2> QED
    BY <1>7, <2>1, BranchMembers
<1>8. CASE op \in {\h18, \h19} \cup (\h1C .. \h1F)
  <2>1. id = Decode!HintId(op, m)
    BY <1>1, <1>8 DEF Decode!Id2, id, row, column
  <2>2. id \in {"ENDBR64", "ENDBR32", "PREFETCHNTA", "PREFETCHT0", "PREFETCHT1", "PREFETCHT2", "NOP"}
    BY <1>1, <1>8, <2>1 DEF Decode!HintId, reg
  <2> QED
    BY <1>8, <2>2, BranchIdsAre DEF FarBranchIds
<1>9. CASE row = 3
  <2>1. op \in \h30 .. \h3F /\ 206 + column \in 206 .. 221
    BY <1>1, <1>9
  <2>2. id = MemberAt(206 + column)
    BY <2>1, Id2Computed DEF column, id
  <2> QED
    BY <2>1, <2>2, BranchMembers
<1>10. CASE op \in {\h78, \h79}
  <2>1. id \in {"SIMD", "VMREAD", "VMWRITE"}
    BY <1>1, <1>10 DEF Decode!Id2, id, row, column, Decode!SIMD
  <2> QED
    BY <1>10, <2>1, BranchIdsAre DEF FarBranchIds
<1>11. CASE op \in \hB2 .. \hB5
  <2>1. 246 + (op - \hB2) \in 246 .. 249 /\ id = MemberAt(246 + (op - \hB2))
    BY <1>11, Id2Computed DEF id
  <2> QED
    BY <1>11, <2>1, BranchMembers
<1>12. CASE op = \hBA
  <2>1. reg > 3
    BY <1>1, <1>12 DEF Decode!Reserved2, reg, Decode!invalid_op2, Decode!Row
  <2>2. id = <<"BT", "BTS", "BTR", "BTC">>[reg - 3]
    BY <1>1, <1>12 DEF Decode!Id2, id, row, column, reg
  <2>3. id \in {"BT", "BTS", "BTR", "BTC"}
    BY <1>1, <2>1, <2>2
  <2> QED
    BY <1>12, <2>3, BranchIdsAre DEF FarBranchIds
<1>13. CASE op \in {\hBC, \hBD}
  <2>1. id \in {"BSF", "TZCNT", "BSR", "LZCNT"}
    BY <1>1, <1>13 DEF Decode!Id2, id, row, column
  <2> QED
    BY <1>13, <2>1, BranchIdsAre DEF FarBranchIds
<1>14. CASE op = \hC7
  <2>1. id = Decode!Group9Id(i)
    BY <1>1, <1>14 DEF Decode!Id2, id, row, column
  <2>2. id \in {"CMPXCHG16B", "CMPXCHG8B", "VMPTRST", "RDPID", "RDSEED", "RDRAND", "VMCLEAR",
                "VMXON", "VMPTRLD"}
    BY <1>1, <1>14, <2>1 DEF Decode!Group9Id, Decode!OPSIZE, Decode!REP
  <2> QED
    BY <1>14, <2>2, BranchIdsAre DEF FarBranchIds
<1>15. CASE ~(\/ row \in {3, 4, 8} \/ op \in (\hA2 .. \hA5) \cup ((\h00 .. \h0B) \ {\h05})
              \/ op \in {\h18, \h19} \cup (\h1C .. \h1F)
              \/ op \in {\h78, \h79, \hBA, \hBC, \hBD, \hC7} \cup (\hB2 .. \hB5))
  <2>1. id = Decode!Named2[op]
    BY SMTT(60), <1>1, <1>15 DEF Decode!Id2, id, row, column
  <2>2. op \notin \h80 .. \h8F
    BY <1>1, <1>15
  <2> QED
    BY <2>1, <2>2, Named2Is, BranchIdsAre DEF FarBranchIds
<1> QED
  BY <1>2, <1>3, <1>4, <1>5, <1>6, <1>7, <1>8, <1>9, <1>10, <1>11, <1>12, <1>13, <1>14, <1>15

Branches == {Decode!UNCONDITIONAL, Decode!CONDITIONAL, Decode!JUMP, Decode!CALL}

(* What the groups say of the opcodes. *)
LEMMA BranchGroup1 ==
  ASSUME NEW op \in Byte, NEW m \in Byte, ~Decode!Reserved1(op, m)
  PROVE  /\ Decode!RELATIVE \in Decode!Group1(op, m)
              <=> (Branch1(op, m) /\ op # \hFF) \/ op = \h8D
         /\ Decode!Group1(op, m) \cap Branches # {}
              <=> Branch1(op, m) \/ (op = \hFF /\ Decode!Reg(m) \in {3, 5})
<1> DEFINE row == Decode!Row(op)
           reg == Decode!Reg(m)
<1>1. row \in 0 .. 15 /\ reg \in 0 .. 7 /\ (row = 7 <=> op \in \h70 .. \h7F)
      /\ (op = \hC7 /\ m # \hF8 => reg = 0) /\ op \in 0 .. 255
  <2>1. op = \hC7 /\ m # \hF8 => reg = 0
    BY DEF Decode!Reserved1
  <2>2. row \in 0 .. 15 /\ reg \in 0 .. 7 /\ Decode!Column(op) \in 0 .. 15
        /\ op = 16 * row + Decode!Column(op)
    BY ByteParts
  <2> HIDE DEF row, reg
  <2> QED
    BY <2>1, <2>2 DEF Byte
<1> HIDE DEF row, reg
<1>2. Decode!Group1(op, m) =
        IF op \in \h70 .. \h7F \/ op = \hE3 THEN {"JUMP", "CONDITIONAL_BRANCH", "RELATIVE_ADDRESSING"}
        ELSE IF op \in {\hE9, \hEB} THEN {"JUMP", "UNCONDITIONAL_BRANCH", "RELATIVE_ADDRESSING"}
        ELSE IF op = \hFF /\ reg \in {4, 5} THEN {"JUMP", "UNCONDITIONAL_BRANCH"}
        ELSE IF op = \hE8 THEN {"CALL", "UNCONDITIONAL_BRANCH", "RELATIVE_ADDRESSING"}
        ELSE IF op = \hFF /\ reg \in {2, 3} THEN {"CALL", "UNCONDITIONAL_BRANCH"}
        ELSE IF op = \hC7 /\ m = \hF8 THEN {"UNCONDITIONAL_BRANCH", "RELATIVE_ADDRESSING"}
        ELSE IF op \in \hE0 .. \hE2 THEN {"CONDITIONAL_BRANCH", "RELATIVE_ADDRESSING"}
        ELSE IF op = \h8D THEN {"RELATIVE_ADDRESSING"}
        ELSE IF op \in {\hC2, \hC3, \hCA, \hCB} THEN {"RET"}
        ELSE IF op \in {\hCC, \hCD, \hF1} THEN {"INT"}
        ELSE IF op = \hF4 THEN {"PRIVILEGE"}
        ELSE IF op = \hCF THEN {"RET", "INT"} ELSE {}
  BY <1>1 DEF Decode!Group1, row, reg, Decode!JUMP, Decode!CALL, Decode!RET, Decode!INT, Decode!PRIVILEGE,
              Decode!CONDITIONAL, Decode!UNCONDITIONAL, Decode!RELATIVE
<1> DEFINE group == Decode!Group1(op, m)
<1>3. /\ Branch1(op, m) <=> \/ op \in (\h70 .. \h7F) \cup (\hE0 .. \hE3) \cup {\hE8, \hE9, \hEB}
                            \/ op = \hC7 /\ m = \hF8
                            \/ op = \hFF /\ reg \in {2, 4}
      /\ Branches = {"UNCONDITIONAL_BRANCH", "CONDITIONAL_BRANCH", "JUMP", "CALL"}
      /\ Decode!RELATIVE = "RELATIVE_ADDRESSING"
  BY DEF Branch1, reg, Branches, Decode!JUMP, Decode!CALL, Decode!CONDITIONAL,
         Decode!UNCONDITIONAL, Decode!RELATIVE
<1> HIDE DEF group
<1>4. Decode!RELATIVE \in group <=> (Branch1(op, m) /\ op # \hFF) \/ op = \h8D
  BY <1>1, <1>2, <1>3 DEF group
<1>5. group \cap Branches # {} <=> "UNCONDITIONAL_BRANCH" \in group \/ "CONDITIONAL_BRANCH" \in group
                                     \/ "JUMP" \in group \/ "CALL" \in group
  BY <1>3
<1>6. group \cap Branches # {} <=> Branch1(op, m) \/ (op = \hFF /\ reg \in {3, 5})
  BY <1>1, <1>2, <1>3, <1>5 DEF group
<1> QED
  BY <1>4, <1>6 DEF group, reg

(* Behind 0F the groups of branches are those of the conditional jumps. *)
LEMMA BranchGroup2 ==
  ASSUME NEW op \in Byte, NEW m \in Byte
  PROVE  /\ Decode!RELATIVE \in Decode!Group2(op, m) <=> op \in \h80 .. \h8F
         /\ Decode!Group2(op, m) \cap Branches # {} <=> op \in \h80 .. \h8F
<1>1. Decode!Row(op) = 8 <=> op \in \h80 .. \h8F
  <2>1. /\ Decode!Row(op) \in 0 .. 15 /\ Decode!Column(op) \in 0 .. 15
        /\ op = 16 * Decode!Row(op) + Decode!Column(op)
    BY ByteParts
  <2> QED
    BY <2>1
<1>2. CASE op \in \h80 .. \h8F
  <2>1. Decode!Group2(op, m) = {"JUMP", "CONDITIONAL_BRANCH", "RELATIVE_ADDRESSING"}
    BY <1>1, <1>2 DEF Decode!Group2, Decode!JUMP, Decode!CONDITIONAL, Decode!RELATIVE
  <2> QED
    BY <1>2, <2>1 DEF Branches, Decode!JUMP, Decode!RELATIVE
<1>3. CASE op \notin \h80 .. \h8F
  <2>1. Decode!Group2(op, m) \in {{"PRIVILEGE"}, {}}
    BY <1>1, <1>3 DEF Decode!Group2, Decode!PRIVILEGE
  <2> QED
    BY <1>3, <2>1 DEF Branches, Decode!JUMP, Decode!CALL, Decode!CONDITIONAL, Decode!UNCONDITIONAL,
                      Decode!RELATIVE
<1> QED
  BY <1>2, <1>3

(* What the operands of a branch say. *)
StartsImmediate(operands) == operands # <<>> /\ operands[1].type = "imm"

(* What is appended to the operands leaves the first one. *)
LEMMA ImmediateFirst ==
  ASSUME NEW operand, operand.type = "imm", NEW s \in Seq({operand, Decode!IP(Decode!READWRITE)}),
         s # <<>>, s[1] = operand
  PROVE  StartsImmediate(s) /\ StartsImmediate(s \o Decode!Pushes)
<1>1. Len(Decode!Pushes) = 2 /\ Decode!Pushes \in Seq({Decode!Pushes[1], Decode!Pushes[2]})
  BY DEF Decode!Pushes
<1>2. (s \o Decode!Pushes)[1] = s[1] /\ s \o Decode!Pushes # <<>>
  BY <1>1
<1> QED
  BY <1>2 DEF StartsImmediate

(* A one-byte branch has its distance as first operand, but for those of FF. *)
LEMMA BranchOperands1 ==
  ASSUME NEW i, NEW op \in Byte, NEW m \in Byte, i.op = op, i.modrm = m, Branch1(op, m)
  PROVE  StartsImmediate(Decode!Operands1(i)) <=> op # \hFF
<1> DEFINE row == Decode!Row(op)
           reg == Decode!Reg(m)
<1>1. row \in 0 .. 15 /\ op \in 16 * row .. 16 * row + 15 /\ reg \in 0 .. 7
  <2>1. /\ row \in 0 .. 15 /\ Decode!Column(op) \in 0 .. 15 /\ op = 16 * row + Decode!Column(op)
        /\ reg \in 0 .. 7
    BY ByteParts
  <2> HIDE DEF row
  <2> QED
    BY <2>1
<1> HIDE DEF row, reg
<1>2. CASE op \in (\h70 .. \h7F) \cup {\hE9}
  <2>1. row = 7 \/ (row = 14 /\ op = \hE9)
    BY <1>1, <1>2
  <2>2. Decode!Operands1(i) = <<Decode!Immediate(Decode!READ), Decode!IP(Decode!READWRITE)>>
    <3>1. CASE op = \h70
      BY <2>1, <3>1 DEF Decode!Operands1, row
    <3>2. CASE op = \h71
      BY <2>1, <3>2 DEF Decode!Operands1, row
    <3>3. CASE op = \h72
      BY <2>1, <3>3 DEF Decode!Operands1, row
    <3>4. CASE op = \h73
      BY <2>1, <3>4 DEF Decode!Operands1, row
    <3>5. CASE op = \h74
      BY <2>1, <3>5 DEF Decode!Operands1, row
    <3>6. CASE op = \h75
      BY <2>1, <3>6 DEF Decode!Operands1, row
    <3>7. CASE op = \h76
      BY <2>1, <3>7 DEF Decode!Operands1, row
    <3>8. CASE op = \h77
      BY <2>1, <3>8 DEF Decode!Operands1, row
    <3>9. CASE op = \h78
      BY <2>1, <3>9 DEF Decode!Operands1, row
    <3>10. CASE op = \h79
      BY <2>1, <3>10 DEF Decode!Operands1, row
    <3>11. CASE op = \h7A
      BY <2>1, <3>11 DEF Decode!Operands1, row
    <3>12. CASE op = \h7B
      BY <2>1, <3>12 DEF Decode!Operands1, row
    <3>13. CASE op = \h7C
      BY <2>1, <3>13 DEF Decode!Operands1, row
    <3>14. CASE op = \h7D
      BY <2>1, <3>14 DEF Decode!Operands1, row
    <3>15. CASE op = \h7E
      BY <2>1, <3>15 DEF Decode!Operands1, row
    <3>16. CASE op = \h7F
      BY <2>1, <3>16 DEF Decode!Operands1, row
    <3>17. CASE op = \hE9
      BY <2>1, <3>17 DEF Decode!Operands1, row
    <3> QED
      BY <1>2, <3>1, <3>2, <3>3, <3>4, <3>5, <3>6, <3>7, <3>8, <3>9, <3>10, <3>11, <3>12, <3>13, <3>14, <3>15, <3>16, <3>17
  <2> QED
    BY <1>2, <2>2 DEF StartsImmediate, Decode!Immediate
<1>3. CASE op = \hE8
  <2>1. Decode!Operands1(i)
          = <<Decode!Immediate(Decode!READ), Decode!IP(Decode!READWRITE)>> \o Decode!Pushes
    BY <1>1, <1>3 DEF Decode!Operands1, row
  <2> DEFINE s == <<Decode!Immediate(Decode!READ), Decode!IP(Decode!READWRITE)>>
  <2>2. /\ s \in Seq({Decode!Immediate(Decode!READ), Decode!IP(Decode!READWRITE)}) /\ s # <<>>
        /\ s[1] = Decode!Immediate(Decode!READ)
    OBVIOUS
  <2>3. Decode!Immediate(Decode!READ).type = "imm"
    BY DEF Decode!Immediate
  <2> HIDE DEF s
  <2>4. StartsImmediate(s \o Decode!Pushes)
    BY <2>2, <2>3, ImmediateFirst
  <2> QED
    BY <1>3, <2>1, <2>4 DEF s
<1>4. CASE op \in (\hE0 .. \hE3) \cup {\hEB}
  <2>0. row = 14
    BY <1>1, <1>4
  <2>1. Decode!Operands1(i) = Decode!UpperOperands(i)
    <3>1. CASE op = \hE0
      BY <2>0, <3>1 DEF Decode!Operands1, Decode!Explicit1, row
    <3>2. CASE op = \hE1
      BY <2>0, <3>2 DEF Decode!Operands1, Decode!Explicit1, row
    <3>3. CASE op = \hE2
      BY <2>0, <3>3 DEF Decode!Operands1, Decode!Explicit1, row
    <3>4. CASE op = \hE3
      BY <2>0, <3>4 DEF Decode!Operands1, Decode!Explicit1, row
    <3>5. CASE op = \hEB
      BY <2>0, <3>5 DEF Decode!Operands1, Decode!Explicit1, row
    <3> QED
      BY <1>4, <3>1, <3>2, <3>3, <3>4, <3>5
  <2>2. Decode!UpperOperands(i) = IF op % 8 < 4 THEN <<Decode!Immediate(Decode!UNSAID)>> ELSE Decode!PortOperands(op)
    BY <1>1, <1>4, <2>0 DEF Decode!UpperOperands, row
  <2>3. op % 8 < 4
    BY <1>4
  <2> QED
    BY <1>4, <2>1, <2>2, <2>3 DEF StartsImmediate, Decode!Immediate
<1>5. CASE op = \hC7 /\ m = \hF8
  <2>1. Decode!Operands1(i) = Decode!UpperOperands(i)
    BY <1>1, <1>5 DEF Decode!Operands1, Decode!Explicit1, row
  <2>2. reg = 7
    BY <1>5 DEF reg, Decode!Reg
  <2>3. Decode!UpperOperands(i) = <<Decode!Immediate(Decode!WRITE)>>
    BY <1>1, <1>5, <2>2 DEF Decode!UpperOperands, row, reg
  <2> QED
    BY <1>5, <2>1, <2>3 DEF StartsImmediate, Decode!Immediate
<1>6. CASE op = \hFF /\ reg \in {2, 4}
  <2>1. Decode!Operands1(i) = Decode!UpperOperands(i)
    BY <1>1, <1>6 DEF Decode!Operands1, Decode!Explicit1, row, reg
  <2>2. Decode!UpperOperands(i) = <<Decode!E(i, Decode!READ)>>
    BY <1>1, <1>6 DEF Decode!UpperOperands, row, reg
  <2>3. Decode!E(i, Decode!READ).type # "imm"
    BY DEF Decode!E, Decode!Register, Decode!Memory
  <2> QED
    BY <1>6, <2>1, <2>2, <2>3 DEF StartsImmediate
<1> QED
  BY <1>2, <1>3, <1>4, <1>5, <1>6 DEF Branch1, reg

(* So has a conditional jump behind 0F. *)
LEMMA BranchOperands2 ==
  ASSUME NEW i, NEW op \in \h80 .. \h8F, i.op = op
  PROVE  StartsImmediate(Decode!Operands2(i))
<1>1. Decode!Row(op) = 8
  <2>1. /\ Decode!Row(op) \in 0 .. 15 /\ Decode!Column(op) \in 0 .. 15
        /\ op = 16 * Decode!Row(op) + Decode!Column(op)
    <3>1. op \in Byte
      BY DEF Byte
    <3> QED
      BY <3>1, ByteParts
  <2> QED
    BY <2>1
<1>2. Decode!Operands2(i) = <<Decode!Immediate(Decode!READ), Decode!IP(Decode!READWRITE)>>
  <2>1. CASE op = \h80
    BY <1>1, <2>1 DEF Decode!Operands2
  <2>2. CASE op = \h81
    BY <1>1, <2>2 DEF Decode!Operands2
  <2>3. CASE op = \h82
    BY <1>1, <2>3 DEF Decode!Operands2
  <2>4. CASE op = \h83
    BY <1>1, <2>4 DEF Decode!Operands2
  <2>5. CASE op = \h84
    BY <1>1, <2>5 DEF Decode!Operands2
  <2>6. CASE op = \h85
    BY <1>1, <2>6 DEF Decode!Operands2
  <2>7. CASE op = \h86
    BY <1>1, <2>7 DEF Decode!Operands2
  <2>8. CASE op = \h87
    BY <1>1, <2>8 DEF Decode!Operands2
  <2>9. CASE op = \h88
    BY <1>1, <2>9 DEF Decode!Operands2
  <2>10. CASE op = \h89
    BY <1>1, <2>10 DEF Decode!Operands2
  <2>11. CASE op = \h8A
    BY <1>1, <2>11 DEF Decode!Operands2
  <2>12. CASE op = \h8B
    BY <1>1, <2>12 DEF Decode!Operands2
  <2>13. CASE op = \h8C
    BY <1>1, <2>13 DEF Decode!Operands2
  <2>14. CASE op = \h8D
    BY <1>1, <2>14 DEF Decode!Operands2
  <2>15. CASE op = \h8E
    BY <1>1, <2>15 DEF Decode!Operands2
  <2>16. CASE op = \h8F
    BY <1>1, <2>16 DEF Decode!Operands2
  <2> QED
    BY <2>1, <2>2, <2>3, <2>4, <2>5, <2>6, <2>7, <2>8, <2>9, <2>10, <2>11, <2>12, <2>13, <2>14, <2>15, <2>16
<1> QED
  BY <1>2 DEF StartsImmediate, Decode!Immediate

(* So the branches are marked as such whenever the decoder has answered. *)
LEMMA AnswersBranch == Answered => BranchesMarked
<1> DEFINE insn == [map |-> DFound.map, op |-> DFound.op, modrm |-> DFound.operand.modrm, p |-> Dp]
           op == DFound.op
           m == DFound.operand.modrm
           Goal == /\ Decode!RELATIVE \in decoded.group
                        <=> (decoded.id \in BranchIds /\ StartsImmediate(decoded.operands)) \/ decoded.id = "LEA"
                   /\ decoded.group \cap Branches # {}
                        <=> decoded.id \in BranchIds \cup FarBranchIds
<1> SUFFICES ASSUME Answered, Complete, decoded.valid
             PROVE  Goal
  BY DEF BranchesMarked, StartsImmediate, Branches, FarBranchIds
<1>1. Laid /\ size \in Nat /\ n \in Int /\ Left \in 0 .. 15
  BY SMTT(60), LaidDown, LaidFacts, LeftIs DEF Answered
<1>2. DFound.valid
  BY <1>1, DecodedIs DEF Answered
<1>3. /\ decoded.id = Decode!Id(insn) /\ decoded.group = Decode!Group(insn)
      /\ decoded.operands = Decode!OperandsOf(insn)
  <2>1. decoded = Decode!Described(DFound, Dp)
    BY <1>1, DecodedOperands DEF Answered
  <2> QED
    BY <2>1 DEF Decode!Described
<1>4. Memory[n] \in Byte /\ Memory[n + 1] \in Byte
  <2>1. Memory[n + 0] \in Byte /\ Memory[n + 1] \in Byte
    BY <1>1, LaidFacts
  <2> QED
    BY <1>1, <2>1
<1>5. insn.op = op /\ insn.map = DFound.map /\ insn.modrm = m /\ insn.p = Dp
  OBVIOUS
<1> HIDE DEF insn
<1>6. CASE /\ DFound.map = "DEFAULT" /\ op = Memory[n] /\ m \in Byte /\ ~Decode!Reserved1(op, m)
  <2>1. /\ decoded.id = Decode!Id1(insn) /\ decoded.group = Decode!Group1(op, m)
        /\ decoded.operands = Decode!Operands1(insn)
    BY <1>3, <1>5, <1>6 DEF Decode!Id, Decode!Group, Decode!OperandsOf
  <2>2. /\ decoded.id \in BranchIds <=> Branch1(op, m)
        /\ decoded.id \in FarBranchIds <=> op = \hFF /\ Decode!Reg(m) \in {3, 5}
        /\ decoded.id = "LEA" <=> op = \h8D
    BY <1>4, <1>5, <1>6, <2>1, BranchId1
  <2>3. Branch1(op, m) => (StartsImmediate(decoded.operands) <=> op # \hFF)
    BY <1>4, <1>5, <1>6, <2>1, BranchOperands1
  <2>4. /\ Decode!RELATIVE \in decoded.group <=> (Branch1(op, m) /\ op # \hFF) \/ op = \h8D
        /\ decoded.group \cap Branches # {} <=> Branch1(op, m) \/ (op = \hFF /\ Decode!Reg(m) \in {3, 5})
    BY <1>4, <1>6, <2>1, BranchGroup1
  <2> QED
    BY <2>2, <2>3, <2>4
<1>7. CASE /\ DFound.map = "0F" /\ op = Memory[n + 1] /\ m \in Byte
           /\ ~Decode!Reserved2(op, DFound.operand, Dp)
  <2>1. /\ decoded.id = Decode!Id2(insn) /\ decoded.group = Decode!Group2(op, m)
        /\ decoded.operands = Decode!Operands2(insn)
    BY <1>3, <1>5, <1>7 DEF Decode!Id, Decode!Group, Decode!OperandsOf
  <2>2. /\ decoded.id \in BranchIds <=> op \in \h80 .. \h8F
        /\ decoded.id \notin FarBranchIds /\ decoded.id # "LEA"
    BY <1>4, <1>5, <1>7, <2>1, BranchId2
  <2>3. op \in \h80 .. \h8F => StartsImmediate(decoded.operands)
    BY <1>5, <2>1, BranchOperands2
  <2>4. /\ Decode!RELATIVE \in decoded.group <=> op \in \h80 .. \h8F
        /\ decoded.group \cap Branches # {} <=> op \in \h80 .. \h8F
    BY <1>4, <1>7, <2>1, BranchGroup2
  <2> QED
    BY <2>2, <2>3, <2>4
<1>8. CASE DFound.map \in {"0F38", "0F3A", "OTHER"}
  <2>1. decoded.group = {}
    BY <1>3, <1>5, <1>8 DEF Decode!Group
  <2>2. decoded.id \in {"SIMD", "INVALID"}
    BY <1>3, <1>5, <1>8 DEF Decode!Id, Decode!SIMD, Decode!INVALID
  <2> QED
    BY <2>1, <2>2, BranchIdsAre DEF FarBranchIds
<1> QED
  BY <1>1, <1>2, <1>6, <1>7, <1>8, DecodedKind

(* A branch with a distance, and LEA, are among the groups of those whose    *)
(* operand is relative, a branch of any kind is among the groups of          *)
(* branches, and nothing else is: the ids, which are computed from the order *)
(* of the members of an enumeration, the groups and the operands agree.      *)
THEOREM BranchesAreMarked == Spec => []BranchesMarked
BY AnsweredAlways, AnswersBranch, PTL

-----------------------------------------------------------------------------
(* What is said of the ids that several encodings have: of those in the list *)
(* of the members by their place, of the others by their name.              *)
KnownPlaces ==
  (1 .. 17) \cup (19 .. 27) \cup {29, 31} \cup (32 .. 56) \cup {58, 59, 70}
    \cup (96 .. 103) \cup (108 .. 111) \cup {247, 251, 252}
BitTest == Decode!Modifies({"CF"}, {"OF", "SF", "AF", "PF"})
PlaceFlags(k) ==
  IF k \in 1 .. 8 THEN Decode!Group1Flags(k - 1)
  ELSE IF k \in 9 .. 16 THEN Decode!ShiftFlags(k - 9)
  ELSE IF k \in 17 .. 24 THEN Decode!Group3Flags(k - 17)
  ELSE IF k \in {25, 26} THEN Decode!Modifies(Decode!Arithmetic \ {"CF"}, {})
  ELSE IF k \in 32 .. 47 THEN Decode!conditional_flag(k - 32)
  ELSE IF k \in {50, 51, 98, 99} THEN Decode!Compares
  ELSE IF k = 109 THEN Decode!Exchanges
  ELSE IF k \in (48 .. 59) \cup (96 .. 111) THEN Decode!Computes
  ELSE IF k \in {247, 251, 252} THEN BitTest
  ELSE Decode!NoFlags
PlaceAction(k) ==
  IF k \in {8, 27, 29, 31} \cup (32 .. 47) THEN Decode!READ
  ELSE IF k \in (1 .. 26) \cup {247, 251, 252} THEN Decode!READWRITE
  ELSE IF k = 70 THEN Decode!WRITE
  ELSE {}

KnownNames == {"FXCH", "XCHG", "MOV", "POP", "IN", "SHRD", "CMPXCHG", "MOVZX", "MOVSX", "XADD"}
NameFlags(name) ==
  IF name = "FXCH" THEN Decode!Exchanges
  ELSE IF name \in {"CMPXCHG", "XADD"} THEN Decode!Modifies(Decode!Arithmetic, {})
  ELSE IF name = "SHRD" THEN Decode!Modifies({"CF", "PF", "ZF", "SF"}, {"AF", "OF"})
  ELSE Decode!NoFlags
NameAction(name) ==
  IF name \in {"MOV", "POP", "IN", "MOVZX", "MOVSX"} THEN Decode!WRITE
  ELSE IF name = "CMPXCHG" THEN Decode!CONDWRITE
  ELSE IF name = "FXCH" THEN {}
  ELSE Decode!READWRITE

Known(id) == id \in KnownNames \/ \E k \in KnownPlaces : id = MemberAt(k)
Means(id, flags, action) ==
  /\ \A k \in KnownPlaces :
       id = MemberAt(k) => flags = PlaceFlags(k) /\ action \in {{}, PlaceAction(k)}
  /\ id \in KnownNames => flags = NameFlags(id) /\ action \in {{}, NameAction(id)}

(* The ids known by their name are not in the list of the members. *)
LEMMA NamesApart ==
  ASSUME NEW k \in 1 .. 256
  PROVE  MemberAt(k) \notin KnownNames
BY SMTT(60) DEF KnownNames, MemberAt, Decode!OpcodeGroups, Decode!Jumps, Decode!FloatingPoint,
   Decode!Rows13To15, Decode!SystemGroups, Decode!Conditional, Decode!AroundCpuid

(* The members that are also given by name, and where they are.             *)
LEMMA NamedMembers ==
  /\ MemberAt(17) = "TEST" /\ MemberAt(22) = "IMUL" /\ MemberAt(25) = "INC" /\ MemberAt(26) = "DEC"
  /\ MemberAt(27) = "CALL" /\ MemberAt(29) = "JMP" /\ MemberAt(31) = "PUSH"
  /\ MemberAt(51) = "FCOMP" /\ MemberAt(56) = "FLD" /\ MemberAt(58) = "FST" /\ MemberAt(59) = "FSTP"
  /\ MemberAt(70) = "RET" /\ MemberAt(108) = "FILD" /\ MemberAt(109) = "FISTTP" /\ MemberAt(111) = "FISTP"
  /\ MemberAt(247) = "BTR" /\ MemberAt(251) = "BTC" /\ MemberAt(252) = "BTS"
BY DEF MemberAt, Decode!OpcodeGroups, Decode!Jumps, Decode!FloatingPoint,
   Decode!Rows13To15, Decode!SystemGroups, Decode!Conditional, Decode!AroundCpuid

(* What is to be shown of an id at a place, ... *)
LEMMA MeansPlace ==
  ASSUME NEW k \in 1 .. 256, NEW id, id = MemberAt(k), NEW flags, NEW action,
         k \in KnownPlaces => flags = PlaceFlags(k) /\ action \in {{}, PlaceAction(k)}
  PROVE  Means(id, flags, action)
<1>1. ASSUME NEW j \in KnownPlaces, id = MemberAt(j)
      PROVE  j = k
  <2>1. j \in 1 .. 256
    BY DEF KnownPlaces
  <2> QED
    BY ZenonT(60), <1>1, <2>1, MembersApart
<1>2. id \notin KnownNames
  BY NamesApart
<1> QED
  BY SMTT(60), <1>1, <1>2 DEF Means

OtherNames ==
  {"FNOP", "FSTPNCE", "FUCOMPP", "FNCLEX", "FFREE", "FUCOM", "FUCOMP", "FRSTOR", "INVALID",
   "FNSAVE", "FNSTSW", "FCOMPP", "FFREEP", "FCOMIP", "FUCOMIP", "SIMD", "PAUSE", "NOP", "XABORT",
   "XBEGIN", "INSW", "INSD", "OUTSW", "OUTSD", "PUSHF", "PUSHFQ", "POPF", "POPFQ",
   "MOVSW", "MOVSD", "MOVSQ", "CMPSW", "CMPSD", "CMPSQ", "STOSW", "STOSD", "STOSQ",
   "LODSW", "LODSD", "LODSQ", "SCASW", "SCASD", "SCASQ", "CDQE", "CBW", "CWDE",
   "CQO", "CWD", "CDQ", "IRETQ", "IRET", "IRETD", "MOVSXD", "LEA", "INT3", "INT", "INSB", "OUTSB",
   "ENTER", "LEAVE", "FWAIT", "SAHF", "LAHF", "MOVSB", "CMPSB", "STOSB", "LODSB", "SCASB", "RETF",
   "OUT", "SMSW", "LMSW", "SWAPGS", "RDTSCP", "ENDBR64", "ENDBR32", "PREFETCHNTA", "PREFETCHT0",
   "PREFETCHT1", "PREFETCHT2", "VMREAD", "VMWRITE", "BT", "BSF", "TZCNT", "BSR", "LZCNT",
   "CMPXCHG16B", "CMPXCHG8B", "VMPTRST", "RDPID", "RDSEED", "RDRAND", "VMCLEAR", "VMXON", "VMPTRLD",
   "BSWAP", "SYSCALL", "EMMS", "FEMMS", "RSM", "POPCNT", "UD1", "UD0"}
(* ... of one of which nothing is said, ... *)
LEMMA MeansOther ==
  ASSUME NEW id \in OtherNames, NEW flags, NEW action
  PROVE  Means(id, flags, action)
<1>1. ASSUME NEW k \in KnownPlaces
      PROVE  MemberAt(k) \notin OtherNames
  BY SMTT(60) DEF OtherNames, KnownPlaces, MemberAt, Decode!OpcodeGroups, Decode!Jumps,
     Decode!FloatingPoint, Decode!Rows13To15, Decode!SystemGroups, Decode!Conditional,
     Decode!AroundCpuid
<1>2. id \notin KnownNames
  BY DEF OtherNames, KnownNames
<1> QED
  BY <1>1, <1>2 DEF Means

(* ... and of one known by its name. *)
LEMMA MeansName ==
  ASSUME NEW id \in KnownNames, NEW flags, NEW action,
         flags = NameFlags(id), action \in {{}, NameAction(id)}
  PROVE  Means(id, flags, action)
<1>1. ASSUME NEW k \in KnownPlaces
      PROVE  MemberAt(k) # id
  <2>1. k \in 1 .. 256
    BY DEF KnownPlaces
  <2> QED
    BY <2>1, NamesApart
<1> QED
  BY <1>1 DEF Means

(* What is said of a known id is said of it alone. *)
LEMMA SameMeaning ==
  ASSUME NEW id, Known(id), NEW flags, NEW action, Means(id, flags, action),
         NEW otherFlags, NEW otherAction, Means(id, otherFlags, otherAction)
  PROVE  /\ flags = otherFlags
         /\ {} \in {action, otherAction} \/ action = otherAction
<1>1. CASE id \in KnownNames
  BY <1>1 DEF Means
<1>2. CASE \E k \in KnownPlaces : id = MemberAt(k)
  <2>1. PICK k \in KnownPlaces : id = MemberAt(k)
    BY <1>2
  <2> QED
    BY <2>1 DEF Means
<1> QED
  BY <1>1, <1>2 DEF Known

(* What is done to the first operand; nothing is said of none. *)
FirstAction(operands) == IF operands = <<>> THEN {} ELSE operands[1].action

(* The first operand stays the first when others follow. *)
LEMMA FirstOfMore ==
  ASSUME NEW operand
  PROVE  /\ FirstAction(<<operand>>) = operand.action
         /\ FirstAction(<<operand>> \o Decode!Pushes) = operand.action
         /\ FirstAction(<<operand>> \o Decode!Pops) = operand.action
         /\ \A other : /\ FirstAction(<<operand, other>>) = operand.action
                       /\ FirstAction(<<operand, other>> \o Decode!Pushes) = operand.action
                       /\ \A third : FirstAction(<<operand, other>> \o <<third>>) = operand.action
<1>1. /\ Decode!Pushes \in Seq({Decode!Pushes[1], Decode!Pushes[2]})
      /\ Decode!Pops \in Seq({Decode!Pops[1], Decode!Pops[2]})
  BY DEF Decode!Pushes, Decode!Pops
<1>2. ASSUME NEW S, NEW s \in Seq(S), NEW T, NEW t \in Seq(T), s # <<>>
      PROVE  FirstAction(s \o t) = s[1].action
  <2>1. (s \o t)[1] = s[1] /\ s \o t # <<>>
    BY <1>2
  <2> QED
    BY <2>1 DEF FirstAction
<1>3. FirstAction(<<operand>>) = operand.action
  BY DEF FirstAction
<1>4. <<operand>> \in Seq({operand}) /\ <<operand>> # <<>> /\ <<operand>>[1] = operand
  OBVIOUS
<1>5. ASSUME NEW other
      PROVE  /\ FirstAction(<<operand, other>>) = operand.action
             /\ FirstAction(<<operand, other>> \o Decode!Pushes) = operand.action
             /\ \A third : FirstAction(<<operand, other>> \o <<third>>) = operand.action
  <2>1. /\ <<operand, other>> \in Seq({operand, other}) /\ <<operand, other>> # <<>>
        /\ <<operand, other>>[1] = operand
    OBVIOUS
  <2>2. FirstAction(<<operand, other>>) = operand.action
    BY DEF FirstAction
  <2>3. \A third : <<third>> \in Seq({third})
    OBVIOUS
  <2> QED
    BY <1>1, <1>2, <2>1, <2>2, <2>3
<1>6. /\ FirstAction(<<operand>> \o Decode!Pushes) = operand.action
      /\ FirstAction(<<operand>> \o Decode!Pops) = operand.action
  BY <1>1, <1>2, <1>4
<1> QED
  BY <1>3, <1>5, <1>6

(* The operands carry the actions they are built with. *)
LEMMA OperandActions ==
  ASSUME NEW action
  PROVE  /\ Decode!Register(action).action = action /\ Decode!Memory(action).action = action
         /\ Decode!Immediate(action).action = action
         /\ Decode!Implicit(Decode!Register(action)).action = action
         /\ \A i : Decode!E(i, action).action = action
BY DEF Decode!Register, Decode!Memory, Decode!Immediate, Decode!Implicit, Decode!E

(* So do those of the common pairs. *)
LEMMA FirstOfTwo ==
  ASSUME NEW i, NEW a0, NEW a1
  PROVE  FirstAction(Decode!EG(i, a0, a1)) = a0 /\ FirstAction(Decode!GE(i, a0, a1)) = a0
<1>1. FirstAction(Decode!EG(i, a0, a1)) = Decode!E(i, a0).action
  BY FirstOfMore DEF Decode!EG
<1>2. FirstAction(Decode!GE(i, a0, a1)) = Decode!Register(a0).action
  BY FirstOfMore DEF Decode!GE
<1> QED
  BY <1>1, <1>2, OperandActions

(* Which opcodes the tables of the operands take up where. *)
LEMMA ExplicitOnly1 ==
  ASSUME NEW i, NEW op, i.op = op, Decode!Row(op) \notin {5, 7, 11},
         op \notin {\hE9, \h68, \h6A, \hCC, \hF1, \hCD, \hE8, \hC3, \hCB, \hCF, \hC2, \hCA, \h9C,
                    \h9D, \hC9, \hD7, \h9E, \h9F, \h98, \h99},
         ~(op = \hFF /\ Decode!Reg(i.modrm) = 6)
  PROVE  Decode!Operands1(i) = Decode!Explicit1(i)
<1>1. /\ ~(Decode!Row(i.op) = 11) /\ ~(Decode!Row(i.op) = 5) /\ ~(Decode!Row(i.op) = 7 \/ i.op = \hE9)
      /\ ~(i.op \in {\h68, \h6A}) /\ ~(i.op \in {\hCC, \hF1}) /\ ~(i.op = \hCD) /\ ~(i.op = \hE8)
      /\ ~(i.op \in {\hC3, \hCB, \hCF}) /\ ~(i.op \in {\hC2, \hCA})
      /\ ~(i.op = \hFF /\ Decode!Reg(i.modrm) = 6) /\ ~(i.op = \h9C) /\ ~(i.op = \h9D) /\ ~(i.op = \hC9)
      /\ ~(i.op = \hD7) /\ ~(i.op = \h9E) /\ ~(i.op = \h9F) /\ ~(i.op \in {\h98, \h99})
  OBVIOUS
<1> QED
  BY ZenonT(60), <1>1 DEF Decode!Operands1

(* Of all but the arithmetic rows and the opcodes named here the upper table decides. *)
LEMMA UpperOnly1 ==
  ASSUME NEW i, NEW op, i.op = op, ~(Decode!Row(op) < 4),
         op \notin {\h63, \h69, \h6B} \cup (\h80 .. \h8E), ~(op = \h90 /\ i.p.rexB)
  PROVE  Decode!Explicit1(i) = Decode!UpperOperands(i)
<1>1. /\ ~(i.op \in {\h84, \h85}) /\ ~(i.op \in {\h86, \h87}) /\ ~(i.op \in {\h88, \h89, \h8C})
      /\ ~(i.op \in {\h8A, \h8B, \h8E, \h63}) /\ ~(i.op \in \h80 .. \h83)
      /\ ~(i.op = \h90 /\ i.p.rexB) /\ ~(Decode!Row(i.op) < 4) /\ ~(i.op \in {\h69, \h6B})
      /\ ~(i.op = \h8D)
  OBVIOUS
<1> QED
  BY <1>1, Zenon DEF Decode!Explicit1

(* The opcodes from 8F on: an arm at a time, the guards of the others decided. *)
LEMMA UpperActions ==
  ASSUME NEW i, i.op \in Byte
  PROVE  LET first == FirstAction(Decode!UpperOperands(i))
         IN  /\ i.op = \h8F => first = Decode!WRITE
             /\ i.op \in \h91 .. \h97 => first = Decode!READWRITE
             /\ i.op \in \hA0 .. \hA3 => first = Decode!WRITE
             /\ i.op \in {\hA8, \hA9} => first = {}
             /\ i.op \in {\hC0, \hC1} \cup (\hD0 .. \hD3) => first = Decode!READWRITE
             /\ i.op \in {\hC6, \hC7} /\ Decode!Reg(i.modrm) = 0 => first = Decode!WRITE
             /\ i.op \in \hD8 .. \hDF => first = {}
             /\ i.op = \hEB => first = {}
             /\ i.op \in {\hE4, \hE5, \hEC, \hED} => first = Decode!WRITE
             /\ i.op \in {\hF6, \hF7, \hFE} => first = Decode!READWRITE
             /\ i.op = \hFF =>
                  first = IF Decode!Reg(i.modrm) >= 2 THEN Decode!READ ELSE Decode!READWRITE
<1> DEFINE operands == Decode!UpperOperands(i)
           P1 == i.op = \h8F
           P2 == i.op \in \h91 .. \h97
           P3 == i.op \in {\hA0, \hA1}
           P4 == i.op \in {\hA2, \hA3}
           P5 == i.op \in {\hA8, \hA9}
           P6 == i.op \in {\hC0, \hC1, \hD0, \hD1}
           P7 == i.op \in {\hD2, \hD3}
           P8 == i.op \in {\hC6, \hC7}
           P9 == i.op = \hC8
           P10 == i.op \in \hD8 .. \hDF
           P11 == Decode!Row(i.op) = 14
           P12 == i.op \in {\hF6, \hF7, \hFE}
           P13 == i.op = \hFF
<1>1. P11 <=> i.op \in \hE0 .. \hEF
  <2> DEFINE row == Decode!Row(i.op)
  <2>1. row \in 0 .. 15 /\ Decode!Column(i.op) \in 0 .. 15 /\ i.op = 16 * row + Decode!Column(i.op)
    BY ByteParts
  <2> HIDE DEF row
  <2>2. row = 14 <=> i.op \in \hE0 .. \hEF
    BY <2>1
  <2> QED
    BY <2>2 DEF row
<1>2. ASSUME P1
      PROVE  FirstAction(operands) = Decode!WRITE
  <2>1. ~P2 /\ ~P3 /\ ~P4 /\ ~P5 /\ ~P6 /\ ~P7 /\ ~P8 /\ ~P9 /\ ~P10 /\ ~P11 /\ ~P12 /\ ~P13
    BY <1>1, <1>2
  <2>2. operands = <<Decode!E(i, Decode!WRITE)>>
    BY SMT, <1>2, <2>1 DEF Decode!UpperOperands
  <2> HIDE DEF operands
  <2> QED
    BY <2>2, FirstOfMore, OperandActions
<1>3. ASSUME P2
      PROVE  FirstAction(operands) = Decode!READWRITE
  <2>1. ~P1 /\ ~P3 /\ ~P4 /\ ~P5 /\ ~P6 /\ ~P7 /\ ~P8 /\ ~P9 /\ ~P10 /\ ~P11 /\ ~P12 /\ ~P13
    BY <1>1, <1>3
  <2>0. PICK op \in Byte : i.op = op /\ op \in \h91 .. \h97 /\ P2
    BY <1>3
  <2>2. operands = <<Decode!Register(Decode!READWRITE), Decode!Register(Decode!READWRITE)>>
    BY SMT, <2>0, <2>1 DEF Decode!UpperOperands
  <2> HIDE DEF operands
  <2> QED
    BY <2>2, FirstOfMore, OperandActions
<1>4. ASSUME P3
      PROVE  FirstAction(operands) = Decode!WRITE
  <2>1. ~P1 /\ ~P2 /\ ~P4 /\ ~P5 /\ ~P6 /\ ~P7 /\ ~P8 /\ ~P9 /\ ~P10 /\ ~P11 /\ ~P12 /\ ~P13
    BY <1>1, <1>4
  <2>2. operands = <<Decode!Register(Decode!WRITE), Decode!Memory(Decode!READ)>>
    BY SMT, <1>4, <2>1 DEF Decode!UpperOperands
  <2> HIDE DEF operands
  <2> QED
    BY <2>2, FirstOfMore, OperandActions
<1>5. ASSUME P4
      PROVE  FirstAction(operands) = Decode!WRITE
  <2>1. ~P1 /\ ~P2 /\ ~P3 /\ ~P5 /\ ~P6 /\ ~P7 /\ ~P8 /\ ~P9 /\ ~P10 /\ ~P11 /\ ~P12 /\ ~P13
    BY <1>1, <1>5
  <2>2. operands = <<Decode!Memory(Decode!WRITE), Decode!Register(Decode!READ)>>
    BY SMT, <1>5, <2>1 DEF Decode!UpperOperands
  <2> HIDE DEF operands
  <2> QED
    BY <2>2, FirstOfMore, OperandActions
<1>6. ASSUME P5
      PROVE  FirstAction(operands) = {}
  <2>1. ~P1 /\ ~P2 /\ ~P3 /\ ~P4 /\ ~P6 /\ ~P7 /\ ~P8 /\ ~P9 /\ ~P10 /\ ~P11 /\ ~P12 /\ ~P13
    BY <1>1, <1>6
  <2>2. operands = <<Decode!Register(Decode!UNSAID), Decode!Immediate(Decode!UNSAID)>>
    BY SMT, <1>6, <2>1 DEF Decode!UpperOperands
  <2> HIDE DEF operands
  <2> QED
    BY <2>2, FirstOfMore, OperandActions DEF Decode!UNSAID
<1>7. ASSUME P6
      PROVE  FirstAction(operands) = Decode!READWRITE
  <2>1. ~P1 /\ ~P2 /\ ~P3 /\ ~P4 /\ ~P5 /\ ~P7 /\ ~P8 /\ ~P9 /\ ~P10 /\ ~P11 /\ ~P12 /\ ~P13
    BY <1>1, <1>7
  <2>2. operands = <<Decode!E(i, Decode!READWRITE), Decode!Immediate(Decode!UNSAID)>>
    BY SMT, <1>7, <2>1 DEF Decode!UpperOperands
  <2> HIDE DEF operands
  <2> QED
    BY <2>2, FirstOfMore, OperandActions
<1>8. ASSUME P7
      PROVE  FirstAction(operands) = Decode!READWRITE
  <2>1. ~P1 /\ ~P2 /\ ~P3 /\ ~P4 /\ ~P5 /\ ~P6 /\ ~P8 /\ ~P9 /\ ~P10 /\ ~P11 /\ ~P12 /\ ~P13
    BY <1>1, <1>8
  <2>2. operands = <<Decode!E(i, Decode!READWRITE), Decode!Register(Decode!UNSAID)>>
    BY SMT, <1>8, <2>1 DEF Decode!UpperOperands
  <2> HIDE DEF operands
  <2> QED
    BY <2>2, FirstOfMore, OperandActions
<1>9. ASSUME P8, Decode!Reg(i.modrm) = 0
      PROVE  FirstAction(operands) = Decode!WRITE
  <2>1. ~P1 /\ ~P2 /\ ~P3 /\ ~P4 /\ ~P5 /\ ~P6 /\ ~P7 /\ ~P9 /\ ~P10 /\ ~P11 /\ ~P12 /\ ~P13
    BY <1>1, <1>9
  <2>2. operands = <<Decode!E(i, Decode!WRITE), Decode!Immediate(Decode!UNSAID)>>
    BY SMT, <1>9, <2>1 DEF Decode!UpperOperands
  <2> HIDE DEF operands
  <2> QED
    BY <2>2, FirstOfMore, OperandActions
<1>10. ASSUME P10
      PROVE  FirstAction(operands) = {}
  <2>1. ~P1 /\ ~P2 /\ ~P3 /\ ~P4 /\ ~P5 /\ ~P6 /\ ~P7 /\ ~P8 /\ ~P9 /\ ~P11 /\ ~P12 /\ ~P13
    BY <1>1, <1>10
  <2>2. operands = Decode!EscapeOperands(i.op, i.modrm)
    BY SMTT(60), <1>10, <2>1 DEF Decode!UpperOperands
  <2>3. Decode!EscapeOperands(i.op, i.modrm)
          \in {<<>>, <<Decode!Implicit(Decode!Register(Decode!UNSAID)), Decode!Register(Decode!UNSAID)>>}
    BY DEF Decode!EscapeOperands
  <2>4. FirstAction(<<>>) = {}
    BY DEF FirstAction
  <2> HIDE DEF operands
  <2> QED
    BY <2>2, <2>3, <2>4, FirstOfMore, OperandActions DEF Decode!UNSAID
<1>11. ASSUME P11, i.op = \hEB
      PROVE  FirstAction(operands) = {}
  <2>1. ~P1 /\ ~P2 /\ ~P3 /\ ~P4 /\ ~P5 /\ ~P6 /\ ~P7 /\ ~P8 /\ ~P9 /\ ~P10 /\ ~P12 /\ ~P13
    BY <1>1, <1>11
  <2>2. i.op % 8 < 4
    BY <1>11
  <2>3. operands = <<Decode!Immediate(Decode!UNSAID)>>
    BY SMT, <1>11, <2>1, <2>2 DEF Decode!UpperOperands
  <2> HIDE DEF operands
  <2> QED
    BY <2>3, FirstOfMore, OperandActions DEF Decode!UNSAID
<1>12. ASSUME P11, i.op \in {\hE4, \hE5, \hEC, \hED}
      PROVE  FirstAction(operands) = Decode!WRITE
  <2>1. ~P1 /\ ~P2 /\ ~P3 /\ ~P4 /\ ~P5 /\ ~P6 /\ ~P7 /\ ~P8 /\ ~P9 /\ ~P10 /\ ~P12 /\ ~P13
    BY <1>1, <1>12
  <2>2. ~(i.op % 8 < 4)
    BY <1>12
  <2>3. operands = Decode!PortOperands(i.op)
    BY SMT, <1>12, <2>1, <2>2 DEF Decode!UpperOperands
  <2>4. \/ Decode!PortOperands(i.op) = <<Decode!Register(Decode!WRITE), Decode!Immediate(Decode!READ)>>
        \/ Decode!PortOperands(i.op) = <<Decode!Register(Decode!WRITE), Decode!Register(Decode!READ)>>
    BY <1>12 DEF Decode!PortOperands
  <2> HIDE DEF operands
  <2> QED
    BY <2>3, <2>4, FirstOfMore, OperandActions
<1>13. ASSUME P12
      PROVE  FirstAction(operands) = Decode!READWRITE
  <2>1. ~P1 /\ ~P2 /\ ~P3 /\ ~P4 /\ ~P5 /\ ~P6 /\ ~P7 /\ ~P8 /\ ~P9 /\ ~P10 /\ ~P11 /\ ~P13
    BY <1>1, <1>13
  <2>2. operands = <<Decode!E(i, Decode!READWRITE)>>
    BY SMT, <1>13, <2>1 DEF Decode!UpperOperands
  <2> HIDE DEF operands
  <2> QED
    BY <2>2, FirstOfMore, OperandActions
<1>14. ASSUME P13
      PROVE  FirstAction(operands) = IF Decode!Reg(i.modrm) >= 2 THEN Decode!READ ELSE Decode!READWRITE
  <2>1. ~P1 /\ ~P2 /\ ~P3 /\ ~P4 /\ ~P5 /\ ~P6 /\ ~P7 /\ ~P8 /\ ~P9 /\ ~P10 /\ ~P11 /\ ~P12
    BY <1>1, <1>14
  <2>2. operands = <<Decode!E(i, IF Decode!Reg(i.modrm) >= 2 THEN Decode!READ ELSE Decode!READWRITE)>>
    BY SMT, <1>14, <2>1 DEF Decode!UpperOperands
  <2> HIDE DEF operands
  <2> QED
    BY SMTT(60), <2>2, FirstOfMore, OperandActions
<1> QED
  BY <1>1, <1>2, <1>3, <1>4, <1>5, <1>6, <1>7, <1>8, <1>9, <1>10, <1>11, <1>12, <1>13, <1>14 DEF operands

(* Those that name all they touch. *)
LEMMA OperandActions1 ==
  ASSUME NEW i, i.op \in Byte
  PROVE  LET first == FirstAction(Decode!Operands1(i))
         IN  /\ i.op \in \hB0 .. \hBF => first = Decode!WRITE
             /\ i.op \in \h50 .. \h5F => first = Decode!READ
             /\ i.op \in (\h70 .. \h7F) \cup {\hE9, \h68, \h6A, \hE8} => first = Decode!READ
             /\ i.op = \hC3 => first = Decode!WRITE
             /\ i.op = \hFF /\ Decode!Reg(i.modrm) = 6 => first = Decode!READ
<1> DEFINE operands == Decode!Operands1(i)
           P1 == Decode!Row(i.op) = 11
           P2 == Decode!Row(i.op) = 5
           P3 == Decode!Row(i.op) = 7 \/ i.op = \hE9
           P4 == i.op \in {\h68, \h6A}
           P5 == i.op \in {\hCC, \hF1}
           P6 == i.op = \hCD
           P7 == i.op = \hE8
           P8 == i.op \in {\hC3, \hCB, \hCF}
           P9 == i.op \in {\hC2, \hCA}
           P10 == i.op = \hFF /\ Decode!Reg(i.modrm) = 6
           P11 == i.op = \h9C
           P12 == i.op = \h9D
           P13 == i.op = \hC9
           P14 == i.op = \hD7
           P15 == i.op = \h9E
           P16 == i.op = \h9F
           P17 == i.op \in {\h98, \h99}
<1>1. Decode!Row(i.op) \in 0 .. 15 /\ i.op \in 16 * Decode!Row(i.op) .. 16 * Decode!Row(i.op) + 15
  <2> DEFINE row == Decode!Row(i.op)
  <2>1. row \in 0 .. 15 /\ Decode!Column(i.op) \in 0 .. 15 /\ i.op = 16 * row + Decode!Column(i.op)
    BY ByteParts
  <2> HIDE DEF row
  <2>2. row \in 0 .. 15 /\ i.op \in 16 * row .. 16 * row + 15
    BY <2>1
  <2> QED
    BY <2>2 DEF row
<1>2. ASSUME P1
      PROVE  FirstAction(operands) = Decode!WRITE
  <2>1. ~P2 /\ ~P3 /\ ~P4 /\ ~P5 /\ ~P6 /\ ~P7 /\ ~P8 /\ ~P9 /\ ~P10 /\ ~P11 /\ ~P12 /\ ~P13 /\ ~P14 /\ ~P15 /\ ~P16 /\ ~P17
    BY <1>1, <1>2
  <2>2. operands = <<Decode!Register(Decode!WRITE), Decode!Immediate(Decode!READ)>>
    BY SMT, <1>2, <2>1 DEF Decode!Operands1
  <2> HIDE DEF operands
  <2> QED
    BY <2>2, FirstOfMore, OperandActions
<1>3. ASSUME P2
      PROVE  FirstAction(operands) = Decode!READ
  <2>1. ~P1 /\ ~P3 /\ ~P4 /\ ~P5 /\ ~P6 /\ ~P7 /\ ~P8 /\ ~P9 /\ ~P10 /\ ~P11 /\ ~P12 /\ ~P13 /\ ~P14 /\ ~P15 /\ ~P16 /\ ~P17
    BY <1>1, <1>3
  <2>2. operands = <<Decode!Register(Decode!READ)>> \o Decode!Pushes
    BY SMTT(60), <1>3, <2>1 DEF Decode!Operands1
  <2> HIDE DEF operands
  <2> QED
    BY <2>2, FirstOfMore, OperandActions
<1>4. ASSUME P3
      PROVE  FirstAction(operands) = Decode!READ
  <2>1. ~P1 /\ ~P2 /\ ~P4 /\ ~P5 /\ ~P6 /\ ~P7 /\ ~P8 /\ ~P9 /\ ~P10 /\ ~P11 /\ ~P12 /\ ~P13 /\ ~P14 /\ ~P15 /\ ~P16 /\ ~P17
    BY <1>1, <1>4
  <2>2. operands = <<Decode!Immediate(Decode!READ), Decode!IP(Decode!READWRITE)>>
    BY SMT, <1>4, <2>1 DEF Decode!Operands1
  <2> HIDE DEF operands
  <2> QED
    BY <2>2, FirstOfMore, OperandActions DEF Decode!IP
<1>5. ASSUME P4
      PROVE  FirstAction(operands) = Decode!READ
  <2>1. ~P1 /\ ~P2 /\ ~P3 /\ ~P5 /\ ~P6 /\ ~P7 /\ ~P8 /\ ~P9 /\ ~P10 /\ ~P11 /\ ~P12 /\ ~P13 /\ ~P14 /\ ~P15 /\ ~P16 /\ ~P17
    BY <1>1, <1>5
  <2>2. operands = <<Decode!Immediate(Decode!READ)>> \o Decode!Pushes
    BY SMTT(60), <1>5, <2>1 DEF Decode!Operands1
  <2> HIDE DEF operands
  <2> QED
    BY <2>2, FirstOfMore, OperandActions
<1>6. ASSUME P7
      PROVE  FirstAction(operands) = Decode!READ
  <2>1. ~P1 /\ ~P2 /\ ~P3 /\ ~P4 /\ ~P5 /\ ~P6 /\ ~P8 /\ ~P9 /\ ~P10 /\ ~P11 /\ ~P12 /\ ~P13 /\ ~P14 /\ ~P15 /\ ~P16 /\ ~P17
    BY <1>1, <1>6
  <2>2. operands = <<Decode!Immediate(Decode!READ), Decode!IP(Decode!READWRITE)>> \o Decode!Pushes
    BY SMT, <1>6, <2>1 DEF Decode!Operands1
  <2> HIDE DEF operands
  <2> QED
    BY <2>2, FirstOfMore, OperandActions DEF Decode!IP
<1>7. ASSUME P8
      PROVE  FirstAction(operands) = Decode!WRITE
  <2>1. ~P1 /\ ~P2 /\ ~P3 /\ ~P4 /\ ~P5 /\ ~P6 /\ ~P7 /\ ~P9 /\ ~P10 /\ ~P11 /\ ~P12 /\ ~P13 /\ ~P14 /\ ~P15 /\ ~P16 /\ ~P17
    BY <1>1, <1>7
  <2>2. operands = <<Decode!IP(Decode!WRITE)>> \o Decode!Pops
    BY SMT, <1>7, <2>1 DEF Decode!Operands1
  <2> HIDE DEF operands
  <2> QED
    BY <2>2, FirstOfMore, OperandActions DEF Decode!IP
<1>8. ASSUME P10
      PROVE  FirstAction(operands) = Decode!READ
  <2>1. ~P1 /\ ~P2 /\ ~P3 /\ ~P4 /\ ~P5 /\ ~P6 /\ ~P7 /\ ~P8 /\ ~P9 /\ ~P11 /\ ~P12 /\ ~P13 /\ ~P14 /\ ~P15 /\ ~P16 /\ ~P17
    BY <1>1, <1>8
  <2>2. operands = <<Decode!Memory(Decode!READ)>> \o Decode!Pushes
    BY SMT, <1>8, <2>1 DEF Decode!Operands1
  <2> HIDE DEF operands
  <2> QED
    BY <2>2, FirstOfMore, OperandActions
<1> QED
  BY <1>1, <1>2, <1>3, <1>4, <1>5, <1>6, <1>7, <1>8 DEF operands

(* Up to 8E. *)
LEMMA ExplicitActions1 ==
  ASSUME NEW i, i.op \in Byte
  PROVE  LET first == FirstAction(Decode!Explicit1(i))
         IN  /\ i.op \in {\h84, \h85} => first = {}
             /\ i.op \in {\h86, \h87} => first = Decode!READWRITE
             /\ i.op \in {\h88, \h89, \h8A, \h8B, \h8C, \h8E} => first = Decode!WRITE
             /\ i.op \in \h80 .. \h83 => first = Decode!READWRITE
             /\ i.op = \h90 /\ i.p.rexB => first = {}
             /\ Decode!Row(i.op) < 4 => Decode!Explicit1(i) = Decode!ArithmeticOperands(i)
<1> DEFINE operands == Decode!Explicit1(i)
           P1 == i.op \in {\h84, \h85}
           P2 == i.op \in {\h86, \h87}
           P3 == i.op \in {\h88, \h89, \h8C}
           P4 == i.op \in {\h8A, \h8B, \h8E, \h63}
           P5 == i.op \in \h80 .. \h83
           P6 == i.op = \h90 /\ i.p.rexB
           P7 == Decode!Row(i.op) < 4
           P8 == i.op \in {\h69, \h6B}
           P9 == i.op = \h8D
<1>1. Decode!Row(i.op) \in 0 .. 15 /\ i.op \in 16 * Decode!Row(i.op) .. 16 * Decode!Row(i.op) + 15
  <2> DEFINE row == Decode!Row(i.op)
  <2>1. row \in 0 .. 15 /\ Decode!Column(i.op) \in 0 .. 15 /\ i.op = 16 * row + Decode!Column(i.op)
    BY ByteParts
  <2> HIDE DEF row
  <2>2. row \in 0 .. 15 /\ i.op \in 16 * row .. 16 * row + 15
    BY <2>1
  <2> QED
    BY <2>2 DEF row
<1>2. ASSUME P1
      PROVE  FirstAction(operands) = {}
  <2>1. ~P2 /\ ~P3 /\ ~P4 /\ ~P5 /\ ~P6 /\ ~P7 /\ ~P8 /\ ~P9
    BY <1>1, <1>2
  <2>2. operands = Decode!EG(i, Decode!UNSAID, Decode!UNSAID)
    BY SMT, <1>2, <2>1 DEF Decode!Explicit1
  <2> HIDE DEF operands
  <2> QED
    BY <2>2, FirstOfTwo DEF Decode!UNSAID
<1>3. ASSUME P2
      PROVE  FirstAction(operands) = Decode!READWRITE
  <2>1. ~P1 /\ ~P3 /\ ~P4 /\ ~P5 /\ ~P6 /\ ~P7 /\ ~P8 /\ ~P9
    BY <1>1, <1>3
  <2>2. operands = Decode!EG(i, Decode!READWRITE, Decode!READWRITE)
    BY SMT, <1>3, <2>1 DEF Decode!Explicit1
  <2> HIDE DEF operands
  <2> QED
    BY <2>2, FirstOfTwo
<1>4. ASSUME P3
      PROVE  FirstAction(operands) = Decode!WRITE
  <2>1. ~P1 /\ ~P2 /\ ~P4 /\ ~P5 /\ ~P6 /\ ~P7 /\ ~P8 /\ ~P9
    BY <1>1, <1>4
  <2>2. operands = Decode!EG(i, Decode!WRITE, Decode!READ)
    BY SMT, <1>4, <2>1 DEF Decode!Explicit1
  <2> HIDE DEF operands
  <2> QED
    BY <2>2, FirstOfTwo
<1>5. ASSUME P4
      PROVE  FirstAction(operands) = Decode!WRITE
  <2>1. ~P1 /\ ~P2 /\ ~P3 /\ ~P5 /\ ~P6 /\ ~P7 /\ ~P8 /\ ~P9
    BY <1>1, <1>5
  <2>0. PICK op \in Byte : i.op = op /\ op \in {\h8A, \h8B, \h8E, \h63} /\ P4
    BY <1>5
  <2>2. operands = Decode!GE(i, Decode!WRITE, Decode!READ)
    BY SMT, <2>0, <2>1 DEF Decode!Explicit1
  <2> HIDE DEF operands
  <2> QED
    BY <2>2, FirstOfTwo
<1>6. ASSUME P5
      PROVE  FirstAction(operands) = Decode!READWRITE
  <2>1. ~P1 /\ ~P2 /\ ~P3 /\ ~P4 /\ ~P6 /\ ~P7 /\ ~P8 /\ ~P9
    BY <1>1, <1>6
  <2>2. operands = <<Decode!E(i, Decode!READWRITE), Decode!Immediate(Decode!UNSAID)>>
    BY SMT, <1>6, <2>1 DEF Decode!Explicit1
  <2> HIDE DEF operands
  <2> QED
    BY <2>2, FirstOfMore, OperandActions DEF Decode!UNSAID
<1>7. ASSUME P6
      PROVE  FirstAction(operands) = {}
  <2>1. ~P1 /\ ~P2 /\ ~P3 /\ ~P4 /\ ~P5 /\ ~P7 /\ ~P8 /\ ~P9
    BY <1>1, <1>7
  <2>2. operands = <<Decode!Register(Decode!UNSAID), Decode!Register(Decode!UNSAID)>>
    BY SMT, <1>7, <2>1 DEF Decode!Explicit1
  <2> HIDE DEF operands
  <2> QED
    BY <2>2, FirstOfMore, OperandActions DEF Decode!UNSAID
<1>8. ASSUME P7
      PROVE  operands = Decode!ArithmeticOperands(i)
  <2>1. ~P1 /\ ~P2 /\ ~P3 /\ ~P4 /\ ~P5 /\ ~P6 /\ ~P8 /\ ~P9
    BY <1>1, <1>8
  <2>2. operands = Decode!ArithmeticOperands(i)
    BY SMT, <1>8, <2>1 DEF Decode!Explicit1
  <2> HIDE DEF operands
  <2> QED
    BY <2>2, FirstOfMore, OperandActions
<1> QED
  BY <1>1, <1>2, <1>3, <1>4, <1>5, <1>6, <1>7, <1>8 DEF operands

(* What the table of the flags says: of most opcodes nothing, ... *)
LEMMA NoFlags1 ==
  ASSUME NEW i, i.op \in Byte, Decode!Reg(i.modrm) \in 0 .. 7,
         \/ i.op \in (\h50 .. \h5F) \cup {\h68, \h6A, \h90} \cup ((\h86 .. \h97) \ {\h8D})
                    \cup (\hA0 .. \hA3) \cup (\hB0 .. \hBF)
                    \cup {\hC3, \hC6, \hC7, \hE4, \hE5, \hE8, \hE9, \hEB, \hEC, \hED}
         \/ i.op = \hFF /\ Decode!Reg(i.modrm) > 1
  PROVE  Decode!Flags1(i) = Decode!NoFlags
<1> DEFINE P1 == i.op \in {\hCC, \hCD}
           P2 == Decode!Row(i.op) = 7
           P3 == i.op \in {\hFE, \hFF} /\ Decode!Reg(i.modrm) <= 1
           P4 == Decode!Row(i.op) < 4 /\ i.op % 8 <= 5
           P5 == i.op \in \h80 .. \h83
           P6 == i.op \in {\hA6, \hA7, \hAE, \hAF}
           P7 == i.op = \h9C
           P8 == i.op = \h9D
           P9 == i.op = \hCF
           P10 == i.op \in {\h84, \h85, \hA8, \hA9}
           P11 == i.op \in {\h69, \h6B}
           P12 == i.op \in {\hF6, \hF7}
           P13 == i.op \in {\hC0, \hC1} \cup (\hD0 .. \hD3)
           P14 == i.op = \h9B
           P15 == i.op = \h9E
           P16 == i.op = \h9F
           P17 == i.op \in \hD8 .. \hDF
           P18 == i.op = \hF5 \/ i.op \in \hF8 .. \hFD
<1>1. Decode!Row(i.op) \in 0 .. 15 /\ i.op \in 16 * Decode!Row(i.op) .. 16 * Decode!Row(i.op) + 15
  <2> DEFINE row == Decode!Row(i.op)
  <2>1. row \in 0 .. 15 /\ Decode!Column(i.op) \in 0 .. 15 /\ i.op = 16 * row + Decode!Column(i.op)
    BY ByteParts
  <2> HIDE DEF row
  <2>2. row \in 0 .. 15 /\ i.op \in 16 * row .. 16 * row + 15
    BY <2>1
  <2> QED
    BY <2>2 DEF row
<1>2. ~P1 /\ ~P2 /\ ~P3 /\ ~P4 /\ ~P5 /\ ~P6 /\ ~P7 /\ ~P8 /\ ~P9 /\ ~P10 /\ ~P11 /\ ~P12 /\ ~P13 /\ ~P14 /\ ~P15 /\ ~P16 /\ ~P17 /\ ~P18
  BY <1>1
<1> QED
  BY ZenonT(60), <1>2 DEF Decode!Flags1

(* ... and of the others, an arm at a time, the guards of the others decided. *)
LEMMA Flags1Are ==
  ASSUME NEW i, i.op \in Byte, Decode!Reg(i.modrm) \in 0 .. 7
  PROVE  LET flags == Decode!Flags1(i)
         IN  /\ Decode!Row(i.op) = 7 =>
                  flags = Decode!conditional_flag(Decode!Column(i.op))
             /\ i.op \in {\hFE, \hFF} /\ Decode!Reg(i.modrm) <= 1 =>
                  flags = Decode!Modifies(Decode!Arithmetic \ {"CF"}, {})
             /\ Decode!Row(i.op) < 4 /\ i.op % 8 <= 5 =>
                  flags = IF i.op \in (\h08 .. \h0D) \cup (\h20 .. \h25) \cup (\h30 .. \h35)
                       THEN Decode!Logic ELSE Decode!Modifies(Decode!Arithmetic, {})
             /\ i.op \in \h80 .. \h83 =>
                  flags = Decode!Group1Flags(Decode!Reg(i.modrm))
             /\ i.op \in {\h84, \h85, \hA8, \hA9} =>
                  flags = Decode!Logic
             /\ i.op \in {\hF6, \hF7} =>
                  flags = Decode!Group3Flags(Decode!Reg(i.modrm))
             /\ i.op \in {\hC0, \hC1} \cup (\hD0 .. \hD3) =>
                  flags = Decode!ShiftFlags(Decode!Reg(i.modrm))
             /\ i.op \in \hD8 .. \hDF =>
                  flags = Decode!FloatingPointFlags(i.op, i.modrm)
<1> DEFINE flags == Decode!Flags1(i)
           P1 == i.op \in {\hCC, \hCD}
           P2 == Decode!Row(i.op) = 7
           P3 == i.op \in {\hFE, \hFF} /\ Decode!Reg(i.modrm) <= 1
           P4 == Decode!Row(i.op) < 4 /\ i.op % 8 <= 5
           P5 == i.op \in \h80 .. \h83
           P6 == i.op \in {\hA6, \hA7, \hAE, \hAF}
           P7 == i.op = \h9C
           P8 == i.op = \h9D
           P9 == i.op = \hCF
           P10 == i.op \in {\h84, \h85, \hA8, \hA9}
           P11 == i.op \in {\h69, \h6B}
           P12 == i.op \in {\hF6, \hF7}
           P13 == i.op \in {\hC0, \hC1} \cup (\hD0 .. \hD3)
           P14 == i.op = \h9B
           P15 == i.op = \h9E
           P16 == i.op = \h9F
           P17 == i.op \in \hD8 .. \hDF
           P18 == i.op = \hF5 \/ i.op \in \hF8 .. \hFD
<1>1. Decode!Row(i.op) \in 0 .. 15 /\ i.op \in 16 * Decode!Row(i.op) .. 16 * Decode!Row(i.op) + 15
  <2> DEFINE row == Decode!Row(i.op)
  <2>1. row \in 0 .. 15 /\ Decode!Column(i.op) \in 0 .. 15 /\ i.op = 16 * row + Decode!Column(i.op)
    BY ByteParts
  <2> HIDE DEF row
  <2>2. row \in 0 .. 15 /\ i.op \in 16 * row .. 16 * row + 15
    BY <2>1
  <2> QED
    BY <2>2 DEF row
<1>2. ASSUME P2
      PROVE  flags = Decode!conditional_flag(Decode!Column(i.op))
  <2>1. ~P1 /\ ~P3 /\ ~P4 /\ ~P5 /\ ~P6 /\ ~P7 /\ ~P8 /\ ~P9 /\ ~P10 /\ ~P11 /\ ~P12 /\ ~P13 /\ ~P14 /\ ~P15 /\ ~P16 /\ ~P17 /\ ~P18
    BY <1>1, <1>2
  <2> QED
    BY SMT, <1>2, <2>1 DEF Decode!Flags1
<1>3. ASSUME P3
      PROVE  flags = Decode!Modifies(Decode!Arithmetic \ {"CF"}, {})
  <2>1. ~P1 /\ ~P2 /\ ~P4 /\ ~P5 /\ ~P6 /\ ~P7 /\ ~P8 /\ ~P9 /\ ~P10 /\ ~P11 /\ ~P12 /\ ~P13 /\ ~P14 /\ ~P15 /\ ~P16 /\ ~P17 /\ ~P18
    BY <1>1, <1>3
  <2> QED
    BY SMT, <1>3, <2>1 DEF Decode!Flags1
<1>4. ASSUME P4
      PROVE  flags = IF i.op \in (\h08 .. \h0D) \cup (\h20 .. \h25) \cup (\h30 .. \h35)
                     THEN Decode!Logic ELSE Decode!Modifies(Decode!Arithmetic, {})
  <2>1. ~P1 /\ ~P2 /\ ~P3 /\ ~P5 /\ ~P6 /\ ~P7 /\ ~P8 /\ ~P9 /\ ~P10 /\ ~P11 /\ ~P12 /\ ~P13 /\ ~P14 /\ ~P15 /\ ~P16 /\ ~P17 /\ ~P18
    BY <1>1, <1>4
  <2> QED
    BY SMT, <1>4, <2>1 DEF Decode!Flags1
<1>5. ASSUME P5
      PROVE  flags = Decode!Group1Flags(Decode!Reg(i.modrm))
  <2>1. ~P1 /\ ~P2 /\ ~P3 /\ ~P4 /\ ~P6 /\ ~P7 /\ ~P8 /\ ~P9 /\ ~P10 /\ ~P11 /\ ~P12 /\ ~P13 /\ ~P14 /\ ~P15 /\ ~P16 /\ ~P17 /\ ~P18
    BY <1>1, <1>5
  <2> QED
    BY SMT, <1>5, <2>1 DEF Decode!Flags1
<1>6. ASSUME P10
      PROVE  flags = Decode!Logic
  <2>1. ~P1 /\ ~P2 /\ ~P3 /\ ~P4 /\ ~P5 /\ ~P6 /\ ~P7 /\ ~P8 /\ ~P9 /\ ~P11 /\ ~P12 /\ ~P13 /\ ~P14 /\ ~P15 /\ ~P16 /\ ~P17 /\ ~P18
    BY <1>1, <1>6
  <2> QED
    BY SMT, <1>6, <2>1 DEF Decode!Flags1
<1>7. ASSUME P12
      PROVE  flags = Decode!Group3Flags(Decode!Reg(i.modrm))
  <2>1. ~P1 /\ ~P2 /\ ~P3 /\ ~P4 /\ ~P5 /\ ~P6 /\ ~P7 /\ ~P8 /\ ~P9 /\ ~P10 /\ ~P11 /\ ~P13 /\ ~P14 /\ ~P15 /\ ~P16 /\ ~P17 /\ ~P18
    BY <1>1, <1>7
  <2> QED
    BY SMT, <1>7, <2>1 DEF Decode!Flags1
<1>8. ASSUME P13
      PROVE  flags = Decode!ShiftFlags(Decode!Reg(i.modrm))
  <2>1. ~P1 /\ ~P2 /\ ~P3 /\ ~P4 /\ ~P5 /\ ~P6 /\ ~P7 /\ ~P8 /\ ~P9 /\ ~P10 /\ ~P11 /\ ~P12 /\ ~P14 /\ ~P15 /\ ~P16 /\ ~P17 /\ ~P18
    BY <1>1, <1>8
  <2> QED
    BY SMT, <1>8, <2>1 DEF Decode!Flags1
<1>9. ASSUME P17
      PROVE  flags = Decode!FloatingPointFlags(i.op, i.modrm)
  <2>1. ~P1 /\ ~P2 /\ ~P3 /\ ~P4 /\ ~P5 /\ ~P6 /\ ~P7 /\ ~P8 /\ ~P9 /\ ~P10 /\ ~P11 /\ ~P12 /\ ~P13 /\ ~P14 /\ ~P15 /\ ~P16 /\ ~P18
    BY <1>1, <1>9
  <2> QED
    BY SMT, <1>9, <2>1 DEF Decode!Flags1
<1> HIDE DEF flags
<1> QED
  BY <1>2, <1>3, <1>4, <1>5, <1>6, <1>7, <1>8, <1>9 DEF flags

(* The arithmetic opcodes change their first operand, CMP reads it. *)
LEMMA ArithmeticActions ==
  ASSUME NEW i, i.op \in Byte
  PROVE  FirstAction(Decode!ArithmeticOperands(i))
           = IF i.op >= \h38 THEN Decode!READ ELSE Decode!READWRITE
<1> DEFINE a0 == IF i.op >= \h38 THEN Decode!READ ELSE Decode!READWRITE
<1>1. \/ Decode!ArithmeticOperands(i) = Decode!EG(i, a0, Decode!READ)
      \/ Decode!ArithmeticOperands(i) = Decode!GE(i, a0, Decode!READ)
      \/ Decode!ArithmeticOperands(i) = <<Decode!Register(a0), Decode!Immediate(Decode!READ)>>
  <2>1. CASE i.op % 8 <= 1
    BY <2>1 DEF Decode!ArithmeticOperands, Byte
  <2>2. CASE i.op % 8 \in {2, 3}
    BY <2>2 DEF Decode!ArithmeticOperands, Byte
  <2>3. CASE ~(i.op % 8 <= 1) /\ i.op % 8 \notin {2, 3}
    BY <2>3 DEF Decode!ArithmeticOperands, Byte
  <2> QED
    BY <2>1, <2>2, <2>3
<1> HIDE DEF a0
<1>2. FirstAction(Decode!ArithmeticOperands(i)) = a0
  BY <1>1, FirstOfMore, FirstOfTwo, OperandActions
<1> QED
  BY <1>2 DEF a0

(* What a one-byte opcode does to its first operand. *)
LEMMA FirstActions1 ==
  ASSUME NEW i, i.op \in Byte, i.modrm \in Byte
  PROVE  LET first == FirstAction(Decode!Operands1(i))
         IN  /\ Decode!Row(i.op) < 4 => first = IF i.op >= \h38 THEN Decode!READ ELSE Decode!READWRITE
             /\ i.op \in (\h80 .. \h83) \cup {\h86, \h87} \cup (\h91 .. \h97)
                          \cup {\hC0, \hC1, \hF6, \hF7, \hFE} \cup (\hD0 .. \hD3)
                  => first = Decode!READWRITE
             /\ i.op \in {\h85, \hA8, \hA9, \hEB} \cup (\hD8 .. \hDF) \/ (i.op = \h90 /\ i.p.rexB)
                  => first = {}
             /\ \/ i.op \in {\h88, \h89, \h8A, \h8B, \h8C, \h8E, \h8F, \hC3, \hE4, \hE5, \hEC, \hED}
                              \cup (\hA0 .. \hA3) \cup (\hB0 .. \hBF)
                \/ i.op \in {\hC6, \hC7} /\ Decode!Reg(i.modrm) = 0
                => first = Decode!WRITE
             /\ i.op \in (\h50 .. \h5F) \cup (\h70 .. \h7F) \cup {\h68, \h6A, \hE8, \hE9}
                  => first = Decode!READ
             /\ i.op = \hFF =>
                  first = IF Decode!Reg(i.modrm) >= 2 THEN Decode!READ ELSE Decode!READWRITE
<1> DEFINE first == FirstAction(Decode!Operands1(i))
           row == Decode!Row(i.op)
           reg == Decode!Reg(i.modrm)
           upper == FirstAction(Decode!UpperOperands(i))
           inUpper == \/ i.op \in {\h8F, \hA8, \hA9, \hC0, \hC1, \hC6, \hC7, \hE4, \hE5, \hEB,
                                   \hEC, \hED, \hF6, \hF7, \hFE}
                                     \cup (\h91 .. \h97) \cup (\hA0 .. \hA3)
                                     \cup (\hD0 .. \hD3) \cup (\hD8 .. \hDF)
                      \/ i.op = \hFF /\ reg # 6
<1>1. row \in 0 .. 15 /\ i.op \in 16 * row .. 16 * row + 15 /\ reg \in 0 .. 7
  <2>1. /\ row \in 0 .. 15 /\ Decode!Column(i.op) \in 0 .. 15 /\ i.op = 16 * row + Decode!Column(i.op)
        /\ reg \in 0 .. 7
    BY ByteParts
  <2> HIDE DEF row
  <2> QED
    BY <2>1
<1> HIDE DEF row, reg
<1>2. ASSUME row < 4
      PROVE  first = IF i.op >= \h38 THEN Decode!READ ELSE Decode!READWRITE
  <2>1. Decode!Operands1(i) = Decode!Explicit1(i)
    BY <1>1, <1>2, ExplicitOnly1 DEF row
  <2> QED
    BY <1>2, <2>1, ExplicitActions1, ArithmeticActions DEF row
<1>3. ASSUME i.op \in (\h80 .. \h8C) \cup {\h8E} \/ (i.op = \h90 /\ i.p.rexB)
      PROVE  first = FirstAction(Decode!Explicit1(i))
  <2>1. row \in {8, 9}
    BY <1>1, <1>3
  <2> QED
    BY <1>3, <2>1, ExplicitOnly1 DEF row
<1>4. ASSUME inUpper
      PROVE  first = upper
  <2>1. row \in {8, 9, 10, 12, 13, 14, 15}
    BY <1>1, <1>4
  <2>2. Decode!Operands1(i) = Decode!Explicit1(i)
    BY <1>4, <2>1, ExplicitOnly1 DEF row, reg
  <2>3. Decode!Explicit1(i) = Decode!UpperOperands(i)
    BY <1>4, <2>1, UpperOnly1 DEF row
  <2> QED
    BY <2>2, <2>3
<1> HIDE DEF first, upper, inUpper
<1>5. ASSUME i.op \in (\h80 .. \h83) \cup {\h86, \h87} \cup (\h91 .. \h97)
                       \cup {\hC0, \hC1, \hF6, \hF7, \hFE} \cup (\hD0 .. \hD3)
      PROVE  first = Decode!READWRITE
  <2>1. CASE i.op \in (\h80 .. \h83) \cup {\h86, \h87}
    BY <1>3, <2>1, ExplicitActions1
  <2>2. CASE i.op \in (\h91 .. \h97) \cup {\hC0, \hC1, \hF6, \hF7, \hFE} \cup (\hD0 .. \hD3)
    <3>1. inUpper
      BY <2>2 DEF inUpper
    <3>2. upper = Decode!READWRITE
      BY <2>2, UpperActions DEF upper
    <3> QED
      BY <1>4, <3>1, <3>2
  <2> QED
    BY <1>5, <2>1, <2>2
<1>6. ASSUME i.op \in {\h85, \hA8, \hA9, \hEB} \cup (\hD8 .. \hDF) \/ (i.op = \h90 /\ i.p.rexB)
      PROVE  first = {}
  <2>1. CASE i.op = \h85 \/ (i.op = \h90 /\ i.p.rexB)
    BY <1>3, <2>1, ExplicitActions1
  <2>2. CASE i.op \in {\hA8, \hA9, \hEB} \cup (\hD8 .. \hDF)
    <3>1. inUpper
      BY <2>2 DEF inUpper
    <3>2. upper = {}
      BY <2>2, UpperActions DEF upper
    <3> QED
      BY <1>4, <3>1, <3>2
  <2> QED
    BY <1>6, <2>1, <2>2
<1>7. ASSUME \/ i.op \in {\h88, \h89, \h8A, \h8B, \h8C, \h8E, \h8F, \hC3, \hE4, \hE5, \hEC, \hED}
                          \cup (\hA0 .. \hA3) \cup (\hB0 .. \hBF)
             \/ i.op \in {\hC6, \hC7} /\ reg = 0
      PROVE  first = Decode!WRITE
  <2>1. CASE i.op \in {\h88, \h89, \h8A, \h8B, \h8C, \h8E}
    BY <1>3, <2>1, ExplicitActions1
  <2>2. CASE i.op \in {\h8F, \hE4, \hE5, \hEC, \hED} \cup (\hA0 .. \hA3)
             \/ (i.op \in {\hC6, \hC7} /\ reg = 0)
    <3>1. inUpper
      BY <2>2 DEF inUpper
    <3>2. upper = Decode!WRITE
      BY <2>2, UpperActions DEF upper, reg
    <3> QED
      BY <1>4, <3>1, <3>2
  <2>3. CASE i.op \in {\hC3} \cup (\hB0 .. \hBF)
    BY <2>3, OperandActions1 DEF first
  <2> QED
    BY <1>7, <2>1, <2>2, <2>3
<1>8. ASSUME i.op \in (\h50 .. \h5F) \cup (\h70 .. \h7F) \cup {\h68, \h6A, \hE8, \hE9}
      PROVE  first = Decode!READ
  BY <1>8, OperandActions1 DEF first
<1>9. ASSUME i.op = \hFF
      PROVE  first = IF reg >= 2 THEN Decode!READ ELSE Decode!READWRITE
  <2>1. CASE reg = 6
    BY <1>9, <2>1, OperandActions1 DEF first, reg
  <2>2. CASE reg # 6
    BY <1>4, <1>9, <2>2, UpperActions DEF upper, inUpper, reg
  <2> QED
    BY <2>1, <2>2
<1> QED
  BY <1>2, <1>5, <1>6, <1>7, <1>8, <1>9 DEF first, row, reg

(* Where, among the one-byte opcodes, what is said is known to differ. *)
Apart1(op, reg) ==
  \/ op \in (\h58 .. \h5F) \cup {\h84, \h69, \h6B, \hC2}
  \/ op \in \h80 .. \h83 /\ reg = 7
  \/ op \in {\hDD, \hDF} /\ reg = 1
  \/ op = \hDE /\ reg = 2

(* What is said of the flags of the escape opcodes. *)
LEMMA FloatingPointFlagsAre ==
  ASSUME NEW op \in \hD8 .. \hDF, NEW m \in Byte
  PROVE  LET reg == Decode!Reg(m)
             registers == Decode!Mod(m) = 3
             flags == Decode!FloatingPointFlags(op, m)
         IN  /\ op \in {\hD8, \hDC} \/ (op \in {\hDA, \hDE} /\ ~registers) =>
                  flags = IF reg \in {2, 3} THEN Decode!Compares ELSE Decode!Computes
             /\ op = \hD9 /\ ~registers /\ reg \in {0, 2, 3} => flags = Decode!Computes
             /\ op = \hD9 /\ registers => flags = IF m < \hC8 THEN Decode!Computes ELSE Decode!Exchanges
             /\ op = \hDA /\ registers /\ m # \hE9 => flags = Decode!Computes
             /\ op \in {\hDB, \hDD, \hDF} /\ reg \in {0, 2, 3} => flags = Decode!Computes
             /\ op \in {\hDB, \hDD, \hDF} /\ ~registers /\ reg \in {5, 7} => flags = Decode!Computes
             /\ op \in {\hDB, \hDD, \hDF} /\ ~registers /\ reg = 1 => flags = Decode!Exchanges
<1> DEFINE reg == Decode!Reg(m)
           registers == Decode!Mod(m) = 3
           flags == Decode!FloatingPointFlags(op, m)
<1>1. reg \in 0 .. 7
  BY ByteParts
<1> HIDE DEF reg
<1>2. ASSUME op \in {\hD8, \hDC} \/ (op \in {\hDA, \hDE} /\ ~registers)
      PROVE  flags = IF reg \in {2, 3} THEN Decode!Compares ELSE Decode!Computes
  BY <1>1, <1>2 DEF Decode!FloatingPointFlags, reg
<1>3. ASSUME op = \hD9, ~registers, reg \in {0, 2, 3}
      PROVE  flags = Decode!Computes
  BY <1>1, <1>3 DEF Decode!FloatingPointFlags, reg
<1>4. ASSUME op = \hD9, registers
      PROVE  flags = IF m < \hC8 THEN Decode!Computes ELSE Decode!Exchanges
  BY <1>1, <1>4 DEF Decode!FloatingPointFlags, reg
<1>5. ASSUME op = \hDA, registers, m # \hE9
      PROVE  flags = Decode!Computes
  BY <1>1, <1>5 DEF Decode!FloatingPointFlags, reg
<1>6. ASSUME op \in {\hDB, \hDD, \hDF}, ~registers, reg \in {0, 2, 3, 5, 7}
      PROVE  flags = Decode!Computes
  BY <1>1, <1>6 DEF Decode!FloatingPointFlags, reg
<1>7. ASSUME op \in {\hDB, \hDD, \hDF}, ~registers, reg = 1
      PROVE  flags = Decode!Exchanges
  BY <1>1, <1>7 DEF Decode!FloatingPointFlags, reg
<1>8. ASSUME op \in {\hDB, \hDD, \hDF}, registers, reg \in {0, 2, 3}
      PROVE  flags = Decode!Computes
  <2>1. m \notin {\hE0, \hE2, \hE3}
    BY <1>8 DEF reg, Decode!Reg
  <2> QED
    BY <1>1, <1>8, <2>1 DEF Decode!FloatingPointFlags, reg
<1> HIDE DEF registers, flags
<1> QED
  BY <1>2, <1>3, <1>4, <1>5, <1>6, <1>7, <1>8 DEF reg, registers, flags

(* A floating-point instruction among the members, by its place. *)
LEMMA FloatingPointPlace ==
  ASSUME NEW k \in 48 .. 130, NEW flags,
         k \in KnownPlaces =>
           /\ k # 70
           /\ flags = IF k \in {50, 51, 98, 99} THEN Decode!Compares
                      ELSE IF k = 109 THEN Decode!Exchanges ELSE Decode!Computes
  PROVE  Means(MemberAt(k), flags, {})
<1>1. k \in 1 .. 256
  OBVIOUS
<1>2. ASSUME k \in KnownPlaces
      PROVE  flags = PlaceFlags(k)
  <2>1. k \in (48 .. 56) \cup {58, 59} \cup (96 .. 103) \cup (108 .. 111)
    BY <1>2 DEF KnownPlaces
  <2> QED
    BY <1>2, <2>1 DEF PlaceFlags
<1>3. {} \in {{}, PlaceAction(k)}
  OBVIOUS
<1> QED
  BY <1>1, <1>2, <1>3, MeansPlace

(* What the escape opcodes say is what is said of their ids. *)
LEMMA FloatingPointMeans ==
  ASSUME NEW op \in \hD8 .. \hDF, NEW m \in Byte, ~Decode!Reserved1(op, m), ~Apart1(op, Decode!Reg(m))
  PROVE  Means(Decode!FloatingPointId(op, m), Decode!FloatingPointFlags(op, m), {})
<1> DEFINE reg == Decode!Reg(m)
           registers == Decode!Mod(m) = 3
           row == Decode!Row(m)
           byRow == 2 * (row - 12) + 1
           id == Decode!FloatingPointId(op, m)
           flags == Decode!FloatingPointFlags(op, m)
           means == Means(id, flags, {})
<1>1. /\ reg \in 0 .. 7 /\ m \in 0 .. 255
      /\ registers => /\ row \in 12 .. 15 /\ byRow \in {1, 3, 5, 7}
                      /\ reg \in 2 * (row - 12) .. 2 * (row - 12) + 1
                      /\ m \in 16 * row .. 16 * row + 15
  <2> DEFINE mod == Decode!Mod(m)
             rm == Decode!Rm(m)
             column == Decode!Column(m)
  <2>1. /\ mod \in 0 .. 3 /\ reg \in 0 .. 7 /\ rm \in 0 .. 7 /\ m = 64 * mod + 8 * reg + rm
        /\ row \in 0 .. 15 /\ column \in 0 .. 15 /\ m = 16 * row + column
    BY ByteParts
  <2> HIDE DEF mod, rm, column, reg, row
  <2>2. mod = 3 => /\ row \in 12 .. 15 /\ byRow \in {1, 3, 5, 7}
                   /\ reg \in 2 * (row - 12) .. 2 * (row - 12) + 1
                   /\ m \in 16 * row .. 16 * row + 15
    BY <2>1
  <2> QED
    BY <2>1, <2>2 DEF mod, Byte
<1>2. ~Apart1(op, reg)
  OBVIOUS
<1> HIDE DEF reg, registers, row, id, flags
<1> SUFFICES means
  BY DEF id, flags
<1> DEFINE at(k) == id = MemberAt(k) /\ k \in 48 .. 130
           same(k) == k \in KnownPlaces =>
                        /\ k # 70
                        /\ flags = IF k \in {50, 51, 98, 99} THEN Decode!Compares
                                   ELSE IF k = 109 THEN Decode!Exchanges ELSE Decode!Computes
<1>3. ASSUME NEW k, at(k), same(k)
      PROVE  means
  BY <1>3, FloatingPointPlace
<1>4. CASE op \in {\hD8, \hDC}
  <2>1. flags = IF reg \in {2, 3} THEN Decode!Compares ELSE Decode!Computes
    BY <1>4, FloatingPointFlagsAre DEF flags, reg
  <2>2. CASE registers
    <3>1. PICK k \in {48 + byRow, 48 + (byRow - 1)} : id = MemberAt(k)
      BY <1>4, <2>2, FloatingPointIs DEF id, registers, row
    <3>2. k \in 48 .. 55 /\ (k \in {50, 51} <=> reg \in {2, 3})
      BY <1>1, <2>2, <3>1
    <3>3. at(k) /\ same(k)
      BY <2>1, <3>1, <3>2
    <3> HIDE DEF at, same
    <3> QED
      BY <1>3, <3>3
  <2>3. CASE ~registers
    <3>1. id = MemberAt(48 + reg)
      BY <1>4, <2>3, FloatingPointIs DEF id, registers, reg
    <3>2. at(48 + reg) /\ same(48 + reg)
      BY <1>1, <2>1, <3>1
    <3> HIDE DEF at, same
    <3> QED
      BY <1>3, <3>2
  <2> QED
    BY <2>2, <2>3
<1>5. CASE op = \hD9 /\ ~registers
  <2>1. id = MemberAt(56 + reg)
    BY <1>5, FloatingPointIs DEF id, registers, reg
  <2>2. reg # 1
    BY <1>5 DEF Decode!Reserved1, reg, registers
  <2>3. reg \in {0, 2, 3} => flags = Decode!Computes
    BY <1>5, FloatingPointFlagsAre DEF flags, registers, reg
  <2>4. at(56 + reg) /\ same(56 + reg)
    BY <1>1, <2>1, <2>2, <2>3 DEF KnownPlaces
  <2> HIDE DEF at, same
  <2> QED
    BY <1>3, <2>4
<1>6. CASE op = \hD9 /\ registers
  <2>1. flags = IF m < \hC8 THEN Decode!Computes ELSE Decode!Exchanges
    BY <1>6, FloatingPointFlagsAre DEF flags, registers
  <2>2. CASE m >= \hE0
    <3>1. id = MemberAt(64 + (m - \hE0))
      BY <1>6, <2>2, FloatingPointIs DEF id, registers
    <3>2. m # \hE6
      BY <1>6 DEF Decode!Reserved1
    <3>3. at(64 + (m - \hE0)) /\ same(64 + (m - \hE0))
      <4>1. 64 + (m - \hE0) \in 64 .. 95 /\ 64 + (m - \hE0) # 70
        BY <1>1, <2>2, <3>2
      <4>2. 64 + (m - \hE0) \notin KnownPlaces
        BY <4>1 DEF KnownPlaces
      <4> QED
        BY <3>1, <4>1, <4>2
    <3> HIDE DEF at, same
    <3> QED
      BY <1>3, <3>3
  <2>3. CASE m < \hC8
    <3>0. id = "FLD"
      BY <1>1, <1>6, <2>3, FloatingPointIs DEF id, registers
    <3>1. id = MemberAt(56)
      BY <3>0, NamedMembers
    <3>2. at(56) /\ same(56)
      BY <2>1, <2>3, <3>1
    <3> HIDE DEF at, same
    <3> QED
      BY <1>3, <3>2
  <2>4. CASE m >= \hC8 /\ m < \hD0
    <3>1. id = "FXCH" /\ flags = Decode!Exchanges
      BY <1>1, <1>6, <2>1, <2>4, FloatingPointIs DEF id, registers
    <3>2. "FXCH" \in KnownNames /\ NameFlags("FXCH") = Decode!Exchanges
      BY DEF KnownNames, NameFlags
    <3> QED
      BY <3>1, <3>2, MeansName
  <2>5. CASE m >= \hD0 /\ m < \hE0
    <3>1. id \in {"FNOP", "FSTPNCE"}
      BY <1>1, <1>6, <2>5, FloatingPointIs DEF id, registers
    <3> QED
      BY <3>1, MeansOther DEF OtherNames
  <2> QED
    BY <1>1, <2>2, <2>3, <2>4, <2>5
<1>7. CASE op \in {\hDA, \hDE} /\ ~registers
  <2>1. id = MemberAt(96 + reg)
    BY <1>7, FloatingPointIs DEF id, registers, reg
  <2>2. flags = IF reg \in {2, 3} THEN Decode!Compares ELSE Decode!Computes
    BY <1>7, FloatingPointFlagsAre DEF flags, reg, registers
  <2>3. at(96 + reg) /\ same(96 + reg)
    BY <1>1, <2>1, <2>2
  <2> HIDE DEF at, same
  <2> QED
    BY <1>3, <2>3
<1>8. CASE op = \hDA /\ registers
  <2>1. CASE m = \hE9
    <3>1. id = "FUCOMPP"
      BY <1>8, <2>1, FloatingPointIs DEF id, registers
    <3> QED
      BY <3>1, MeansOther DEF OtherNames
  <2>2. CASE m # \hE9
    <3>1. id = MemberAt(104 + byRow)
      BY <1>8, <2>2, FloatingPointIs DEF id, registers, row
    <3>2. m < \hE0
      BY <1>1, <1>8, <2>2 DEF Decode!Reserved1
    <3>3. at(104 + byRow) /\ same(104 + byRow)
      BY <1>1, <1>8, <3>1, <3>2 DEF KnownPlaces
    <3> HIDE DEF at, same
    <3> QED
      BY <1>3, <3>3
  <2> QED
    BY <2>1, <2>2
<1>9. CASE op \in {\hDB, \hDF} /\ ~registers
  <2>1. /\ reg \in {0, 2, 3, 5, 7} => flags = Decode!Computes
        /\ reg = 1 => flags = Decode!Exchanges
    BY <1>9, FloatingPointFlagsAre DEF flags, reg, registers
  <2>2. op = \hDB => reg \notin {4, 6}
    BY <1>9 DEF Decode!Reserved1, reg, registers
  <2>3. CASE reg <= 4
    <3>1. id = MemberAt(108 + reg)
      BY <1>9, <2>3, FloatingPointIs DEF id, registers, reg
    <3>2. at(108 + reg) /\ same(108 + reg)
      BY <1>1, <2>1, <2>3, <3>1 DEF KnownPlaces
    <3> HIDE DEF at, same
    <3> QED
      BY <1>3, <3>2
  <2>4. CASE reg = 6
    <3>1. id = MemberAt(114)
      BY <1>1, <1>9, <2>2, <2>4, FloatingPointIs DEF id, registers, reg
    <3>2. at(114) /\ same(114)
      BY <3>1 DEF KnownPlaces
    <3> HIDE DEF at, same
    <3> QED
      BY <1>3, <3>2
  <2>5. CASE reg \in {5, 7}
    <3>1. id \in {"FLD", "FSTP", "FILD", "FISTP"}
      BY <1>9, <2>5, FloatingPointIs DEF id, registers, reg
    <3>2. PICK k \in {56, 59, 108, 111} : id = MemberAt(k)
      BY <3>1, NamedMembers
    <3>3. at(k) /\ same(k)
      BY <2>1, <2>5, <3>2
    <3> HIDE DEF at, same
    <3> QED
      BY <1>3, <3>3
  <2> QED
    BY <1>1, <2>3, <2>4, <2>5
<1>10. CASE op = \hDB /\ registers
  <2>1. CASE m = \hE2
    <3>1. id = "FNCLEX"
      BY <1>10, <2>1, FloatingPointIs DEF id, registers
    <3> QED
      BY <3>1, MeansOther DEF OtherNames
  <2>2. CASE m # \hE2
    <3>1. id = MemberAt(116 + byRow)
      BY <1>10, <2>2, FloatingPointIs DEF id, registers, row
    <3>2. at(116 + byRow) /\ same(116 + byRow)
      BY <1>1, <1>10, <3>1 DEF KnownPlaces
    <3> HIDE DEF at, same
    <3> QED
      BY <1>3, <3>2
  <2> QED
    BY <2>1, <2>2
<1>11. CASE op = \hDD
  <2>1. reg # 1
    BY <1>2, <1>11 DEF Apart1
  <2>2. reg \in {0, 2, 3} => flags = Decode!Computes
    BY <1>11, FloatingPointFlagsAre DEF flags, reg
  <2>3. IF registers
          THEN reg \in 0 .. 5 /\ id = <<"FFREE", "FXCH", "FST", "FSTP", "FUCOM", "FUCOMP">>[reg + 1]
          ELSE id = <<"FLD", "FISTTP", "FST", "FSTP", "FRSTOR", "INVALID", "FNSAVE", "FNSTSW">>[reg + 1]
    BY <1>11, FloatingPointIs DEF id, registers, reg
  <2>4. \/ id \in {"FFREE", "FUCOM", "FUCOMP", "FRSTOR", "INVALID", "FNSAVE", "FNSTSW"}
        \/ reg \in {0, 2, 3} /\ id \in {"FLD", "FST", "FSTP"}
    BY <1>1, <2>1, <2>3
  <2>5. CASE id \in {"FFREE", "FUCOM", "FUCOMP", "FRSTOR", "INVALID", "FNSAVE", "FNSTSW"}
    BY <2>5, MeansOther DEF OtherNames
  <2>6. CASE reg \in {0, 2, 3} /\ id \in {"FLD", "FST", "FSTP"}
    <3>1. PICK k \in {56, 58, 59} : id = MemberAt(k)
      BY <2>6, NamedMembers
    <3>2. at(k) /\ same(k)
      BY <2>2, <2>6, <3>1
    <3> HIDE DEF at, same
    <3> QED
      BY <1>3, <3>2
  <2> QED
    BY <2>4, <2>5, <2>6
<1>12. CASE op = \hDE /\ registers
  <2>1. reg # 2
    BY <1>2, <1>12 DEF Apart1
  <2>2. m \notin \hD0 .. \hD7
    BY <2>1 DEF reg, Decode!Reg
  <2>3. CASE m = \hD9
    <3>1. id = "FCOMPP"
      BY <1>12, <2>3, FloatingPointIs DEF id, registers
    <3> QED
      BY <3>1, MeansOther DEF OtherNames
  <2>4. CASE m # \hD9
    <3>1. id = MemberAt(123 + byRow)
      BY <1>12, <2>2, <2>4, FloatingPointIs DEF id, registers, row
    <3>2. at(123 + byRow) /\ same(123 + byRow)
      BY <1>1, <1>12, <3>1 DEF KnownPlaces
    <3> HIDE DEF at, same
    <3> QED
      BY <1>3, <3>2
  <2> QED
    BY <2>3, <2>4
<1>13. CASE op = \hDF /\ registers
  <2>1. reg # 1
    BY <1>2, <1>13 DEF Apart1
  <2>2. id = IF reg = 0 THEN "FFREEP" ELSE IF reg = 1 THEN "FXCH"
             ELSE IF reg \in {2, 3} THEN "FSTP" ELSE IF m = \hE0 THEN "FNSTSW"
             ELSE IF reg = 6 THEN "FCOMIP" ELSE "FUCOMIP"
    BY <1>13, FloatingPointIs DEF id, registers, reg
  <2>3. CASE reg \in {2, 3}
    <3>1. flags = Decode!Computes
      BY <1>13, <2>3, FloatingPointFlagsAre DEF flags, reg
    <3>2. id = MemberAt(59)
      BY <2>2, <2>3, NamedMembers
    <3>3. at(59) /\ same(59)
      BY <3>1, <3>2
    <3> HIDE DEF at, same
    <3> QED
      BY <1>3, <3>3
  <2>4. CASE reg \notin {2, 3}
    <3>1. id \in {"FFREEP", "FNSTSW", "FCOMIP", "FUCOMIP"}
      BY <2>1, <2>2, <2>4
    <3> QED
      BY <3>1, MeansOther DEF OtherNames
  <2> QED
    BY <2>3, <2>4
<1> QED
  BY <1>4, <1>5, <1>6, <1>7, <1>8, <1>9, <1>10, <1>11, <1>12, <1>13

(* The one-byte opcodes with an id given by name, by the names that are known. *)
LEMMA Named1Means ==
  ASSUME NEW op \in Byte, op \notin {\h69, \h6B, \hC2}
  PROVE  LET id == Decode!Named1[op]
         IN  \/ id \in OtherNames \cup {"LEA"}
             \/ op = \h8F /\ id = "POP"
             \/ op \in {\h85, \hA8, \hA9} /\ id = "TEST"
             \/ op \in {\h68, \h6A} /\ id = "PUSH"
             \/ op = \hE8 /\ id = "CALL"
             \/ op \in {\hE9, \hEB} /\ id = "JMP"
             \/ op = \hC3 /\ id = "RET"
             \/ op \in {\h86, \h87} \cup (\h91 .. \h97) /\ id = "XCHG"
             \/ op \in (\h88 .. \h8C) \cup {\h8E} \cup (\hA0 .. \hA3) \cup (\hB0 .. \hBF) /\ id = "MOV"
             \/ op \in {\hE4, \hE5, \hEC, \hED} /\ id = "IN"
<1> op \in Decode!Byte
  BY DEF Byte, Decode!Byte
<1>1. Decode!Named1[op] \in OtherNames \cup
        {"POP", "TEST", "PUSH", "CALL", "JMP", "RET", "XCHG", "MOV", "IN", "LEA"}
  BY DEF Decode!Named1, Decode!INVALID, OtherNames
<1>2. /\ Decode!Named1[op] = "POP" => op = \h8F
      /\ Decode!Named1[op] = "TEST" => op \in {\h85, \hA8, \hA9}
      /\ Decode!Named1[op] = "PUSH" => op \in {\h68, \h6A}
      /\ Decode!Named1[op] = "CALL" => op = \hE8
      /\ Decode!Named1[op] = "JMP" => op \in {\hE9, \hEB}
  BY DEF Decode!Named1, Decode!INVALID
<1>3. /\ Decode!Named1[op] = "RET" => op = \hC3
      /\ Decode!Named1[op] = "IN" => op \in {\hE4, \hE5, \hEC, \hED}
  BY DEF Decode!Named1, Decode!INVALID
<1>4. Decode!Named1[op] = "XCHG" => op \in {\h86, \h87} \cup (\h91 .. \h97)
  BY DEF Decode!Named1, Decode!INVALID
<1>5. Decode!Named1[op] = "MOV" =>
        op \in (\h88 .. \h8C) \cup {\h8E} \cup (\hA0 .. \hA3) \cup (\hB0 .. \hBF)
  BY DEF Decode!Named1, Decode!INVALID
<1> QED
  BY <1>1, <1>2, <1>3, <1>4, <1>5

(* LEA is the instruction of one encoding only. *)
LEMMA MeansLea ==
  ASSUME NEW flags, NEW action
  PROVE  Means("LEA", flags, action)
<1>1. ASSUME NEW k \in KnownPlaces
      PROVE  MemberAt(k) # "LEA"
  <2>1. k \in 1 .. 256
    BY DEF KnownPlaces
  <2> QED
    BY <2>1, BranchMembers
<1>2. "LEA" \notin KnownNames
  BY DEF KnownNames
<1> QED
  BY <1>1, <1>2 DEF Means

(* What is said of the ids known by their name. *)
LEMMA PlainNames ==
  /\ \A name \in {"XCHG", "MOV", "POP", "IN", "MOVZX", "MOVSX"} :
       name \in KnownNames /\ NameFlags(name) = Decode!NoFlags
  /\ \A name \in {"MOV", "POP", "IN", "MOVZX", "MOVSX"} : NameAction(name) = Decode!WRITE
  /\ NameAction("XCHG") = Decode!READWRITE
BY DEF KnownNames, NameFlags, NameAction

(* What is said of the members of the groups, by the reg field or the column. *)
LEMMA GroupPlaces ==
  /\ \A reg \in 0 .. 7 : /\ PlaceFlags(1 + reg) = Decode!Group1Flags(reg)
                         /\ reg # 7 => PlaceAction(1 + reg) = Decode!READWRITE
  /\ \A reg \in 0 .. 7 : /\ PlaceFlags(9 + reg) = Decode!ShiftFlags(reg)
                         /\ PlaceAction(9 + reg) = Decode!READWRITE
  /\ \A reg \in 0 .. 7 : /\ PlaceFlags(17 + reg) = Decode!Group3Flags(reg)
                         /\ PlaceAction(17 + reg) = Decode!READWRITE
  /\ \A column \in 0 .. 15 : /\ PlaceFlags(32 + column) = Decode!conditional_flag(column)
                             /\ PlaceAction(32 + column) = Decode!READ
<1>1. ASSUME NEW reg \in 0 .. 7
      PROVE  /\ PlaceFlags(1 + reg) = Decode!Group1Flags(reg)
             /\ reg # 7 => PlaceAction(1 + reg) = Decode!READWRITE
  <2> DEFINE k == 1 + reg
  <2>1. k \in 1 .. 8 /\ k - 1 = reg /\ (k = 8 <=> reg = 7)
    OBVIOUS
  <2> HIDE DEF k
  <2>2. PlaceFlags(k) = Decode!Group1Flags(k - 1) /\ (k # 8 => PlaceAction(k) = Decode!READWRITE)
    BY <2>1 DEF PlaceFlags, PlaceAction
  <2> QED
    BY <2>1, <2>2 DEF k
<1>2. ASSUME NEW reg \in 0 .. 7
      PROVE  PlaceFlags(9 + reg) = Decode!ShiftFlags(reg) /\ PlaceAction(9 + reg) = Decode!READWRITE
  <2> DEFINE k == 9 + reg
  <2>1. k \in 9 .. 16 /\ k - 9 = reg
    OBVIOUS
  <2> HIDE DEF k
  <2>2. PlaceFlags(k) = Decode!ShiftFlags(k - 9) /\ PlaceAction(k) = Decode!READWRITE
    BY <2>1 DEF PlaceFlags, PlaceAction
  <2> QED
    BY <2>1, <2>2 DEF k
<1>3. ASSUME NEW reg \in 0 .. 7
      PROVE  PlaceFlags(17 + reg) = Decode!Group3Flags(reg) /\ PlaceAction(17 + reg) = Decode!READWRITE
  <2> DEFINE k == 17 + reg
  <2>1. k \in 17 .. 24 /\ k - 17 = reg
    OBVIOUS
  <2> HIDE DEF k
  <2>2. PlaceFlags(k) = Decode!Group3Flags(k - 17) /\ PlaceAction(k) = Decode!READWRITE
    BY <2>1 DEF PlaceFlags, PlaceAction
  <2> QED
    BY <2>1, <2>2 DEF k
<1>4. ASSUME NEW column \in 0 .. 15
      PROVE  /\ PlaceFlags(32 + column) = Decode!conditional_flag(column)
             /\ PlaceAction(32 + column) = Decode!READ
  <2> DEFINE k == 32 + column
  <2>1. k \in 32 .. 47 /\ k - 32 = column
    OBVIOUS
  <2> HIDE DEF k
  <2>2. PlaceFlags(k) = Decode!conditional_flag(k - 32) /\ PlaceAction(k) = Decode!READ
    BY <2>1 DEF PlaceFlags, PlaceAction
  <2> QED
    BY <2>1, <2>2 DEF k
<1> QED
  BY <1>1, <1>2, <1>3, <1>4

(* What the one-byte opcodes say is what is said of their ids. *)
LEMMA Means1 ==
  ASSUME NEW i, NEW op \in Byte, NEW m \in Byte, i.op = op, i.modrm = m,
         ~Decode!Reserved1(op, m), ~Apart1(op, Decode!Reg(m))
  PROVE  Means(Decode!Id1(i), Decode!Flags1(i), FirstAction(Decode!Operands1(i)))
<1> DEFINE row == Decode!Row(op)
           column == Decode!Column(op)
           reg == Decode!Reg(m)
           id == Decode!Id1(i)
           flags == Decode!Flags1(i)
           first == FirstAction(Decode!Operands1(i))
           means == Means(id, flags, first)
<1>1. /\ row \in 0 .. 15 /\ column \in 0 .. 15 /\ op = 16 * row + column
      /\ op % 8 = (IF column >= 8 THEN column - 8 ELSE column) /\ reg \in 0 .. 7
      /\ op \in 0 .. 255
  BY ByteParts DEF Byte
<1>2. ~Apart1(op, reg)
  OBVIOUS
<1>3. ASSUME NEW k \in 1 .. 256, id = MemberAt(k),
             k \in KnownPlaces => flags = PlaceFlags(k) /\ first \in {{}, PlaceAction(k)}
      PROVE  means
  BY <1>3, MeansPlace
<1>4. ASSUME NEW k \in 1 .. 256, id = MemberAt(k), k \notin KnownPlaces
      PROVE  means
  BY <1>4, MeansPlace
<1>5. ASSUME id \in KnownNames, flags = NameFlags(id), first \in {{}, NameAction(id)}
      PROVE  means
  BY <1>5, MeansName
<1>6. ASSUME id \in OtherNames
      PROVE  means
  BY <1>6, MeansOther
<1> DEFINE plain == \/ op \in (\h50 .. \h5F) \cup {\h68, \h6A, \h90} \cup ((\h86 .. \h97) \ {\h8D})
                             \cup (\hA0 .. \hA3) \cup (\hB0 .. \hBF)
                             \cup {\hC3, \hC6, \hC7, \hE4, \hE5, \hE8, \hE9, \hEB, \hEC, \hED}
                    \/ op = \hFF /\ reg > 1
<1>7. plain => flags = Decode!NoFlags
  BY <1>1, NoFlags1
<1> HIDE DEF row, column, reg, id, flags, first, plain
<1> SUFFICES means
  BY DEF id, flags, first
<1> HIDE DEF means
<1>8. CASE row < 4 /\ op % 8 < 6
  <2> DEFINE k == 1 + 2 * row + (IF column >= 8 THEN 1 ELSE 0)
  <2>1. id = MemberAt(k)
    BY <1>8, Id1Computed DEF id, row, column
  <2>2. /\ k \in 1 .. 8 /\ (op >= \h38 <=> k = 8)
        /\ op \in (\h08 .. \h0D) \cup (\h20 .. \h25) \cup (\h30 .. \h35) <=> k - 1 \in {1, 4, 6}
    BY <1>1, <1>8
  <2>3. op % 8 <= 5
    BY <1>1, <1>8
  <2>4. flags = IF op \in (\h08 .. \h0D) \cup (\h20 .. \h25) \cup (\h30 .. \h35)
                  THEN Decode!Logic ELSE Decode!Modifies(Decode!Arithmetic, {})
    BY <1>1, <1>8, <2>3, Flags1Are DEF flags, row, reg
  <2>5. first = IF op >= \h38 THEN Decode!READ ELSE Decode!READWRITE
    BY <1>8, FirstActions1 DEF first, row
  <2> HIDE DEF k
  <2>6. flags = PlaceFlags(k)
    BY <2>2, <2>4 DEF PlaceFlags, Decode!Group1Flags
  <2>7. first = PlaceAction(k)
    BY <2>2, <2>5 DEF PlaceAction
  <2> QED
    BY <1>3, <2>1, <2>2, <2>6, <2>7
<1>9. CASE op \in \h80 .. \h83
  <2>1. id = MemberAt(1 + reg)
    BY <1>9, Id1Computed DEF id, reg
  <2>2. reg # 7 /\ 1 + reg \in 1 .. 256
    BY <1>1, <1>2, <1>9 DEF Apart1
  <2>3. flags = Decode!Group1Flags(reg)
    BY <1>1, <1>9, Flags1Are DEF flags, reg
  <2>4. first = Decode!READWRITE
    BY <1>9, FirstActions1 DEF first
  <2>5. flags = PlaceFlags(1 + reg) /\ first = PlaceAction(1 + reg)
    BY <1>1, <2>2, <2>3, <2>4, GroupPlaces
  <2> QED
    BY <1>3, <2>1, <2>2, <2>5
<1>10. CASE row = 5
  <2>1. column < 8 /\ op \in \h50 .. \h5F
    BY <1>1, <1>2, <1>10 DEF Apart1
  <2>2. id = "PUSH"
    BY <1>1, <1>10, <2>1 DEF Decode!Id1, id, row, column
  <2>3. first = Decode!READ
    BY <2>1, FirstActions1 DEF first
  <2>4. flags = Decode!NoFlags
    BY <1>7, <2>1 DEF plain
  <2>5. id = MemberAt(31) /\ flags = PlaceFlags(31) /\ first = PlaceAction(31)
    BY <2>2, <2>3, <2>4, NamedMembers DEF PlaceFlags, PlaceAction
  <2> QED
    BY <1>3, <2>5
<1>11. CASE row = 7
  <2>1. op \in \h70 .. \h7F
    BY <1>1, <1>11
  <2>2. id = MemberAt(32 + column)
    BY <2>1, Id1Computed DEF id, column
  <2>3. flags = Decode!conditional_flag(column)
    BY <1>1, <1>11, Flags1Are DEF flags, row, column, reg
  <2>4. first = Decode!READ
    BY <2>1, FirstActions1 DEF first
  <2>5. 32 + column \in 1 .. 256
    BY <1>1
  <2>6. flags = PlaceFlags(32 + column) /\ first = PlaceAction(32 + column)
    BY <1>1, <2>3, <2>4, GroupPlaces
  <2> QED
    BY <1>3, <2>2, <2>5, <2>6
<1>12. CASE op \in {\hFE, \hFF}
  <2>1. op = \hFF => reg # 7
    BY DEF Decode!Reserved1, reg
  <2>2. op = \hFE => reg \in {0, 1}
    BY <1>1 DEF Decode!Reserved1, reg
  <2>3. id = MemberAt(25 + reg) /\ 25 + reg \in 25 .. 31
    <3>1. CASE op = \hFF
      BY <1>1, <2>1, <3>1, Id1Computed DEF id, reg
    <3>2. CASE op = \hFE
      <4>1. id = IF reg = 0 THEN "INC" ELSE "DEC"
        BY <1>1, <3>2 DEF Decode!Id1, id, row, column, reg
      <4> QED
        BY <2>2, <3>2, <4>1, NamedMembers
    <3> QED
      BY <1>12, <3>1, <3>2
  <2>4. first = IF reg >= 2 THEN Decode!READ ELSE Decode!READWRITE
    BY <1>12, <2>2, FirstActions1 DEF first, reg
  <2>5. CASE reg <= 1
    <3>1. flags = Decode!Modifies(Decode!Arithmetic \ {"CF"}, {})
      <4>1. /\ i.op \in Byte /\ Decode!Reg(i.modrm) \in 0 .. 7
            /\ i.op \in {\hFE, \hFF} /\ Decode!Reg(i.modrm) <= 1
        BY <1>1, <1>12, <2>5 DEF reg
      <4> QED
        BY <4>1, Flags1Are DEF flags
    <3>2. 25 + reg \in {25, 26} /\ ~(reg >= 2)
      BY <1>1, <2>5
    <3>3. flags = PlaceFlags(25 + reg) /\ first = PlaceAction(25 + reg)
      BY <2>4, <3>1, <3>2 DEF PlaceFlags, PlaceAction
    <3> QED
      BY <1>3, <2>3, <3>3
  <2>6. CASE reg > 1
    <3>1. flags = Decode!NoFlags
      BY <1>1, <1>7, <1>12, <2>2, <2>6 DEF plain
    <3>2. 25 + reg \in 27 .. 31 /\ reg >= 2
      BY <1>1, <2>3, <2>6
    <3>3. 25 + reg \in KnownPlaces => 25 + reg \in {27, 29, 31}
      BY <3>2 DEF KnownPlaces
    <3>4. 25 + reg \in {27, 29, 31} => flags = PlaceFlags(25 + reg) /\ first = PlaceAction(25 + reg)
      BY <2>4, <3>1, <3>2 DEF PlaceFlags, PlaceAction
    <3> QED
      BY <1>3, <2>3, <3>3, <3>4
  <2> QED
    BY <1>1, <2>5, <2>6
<1>13. CASE op = \h90
  <2>1. id \in {"PAUSE", "NOP"} \/ (id = "XCHG" /\ i.p.rexB)
    <3>1. id = CASE Decode!REP \in i.p.seen -> "PAUSE"
                 [] Decode!REP \notin i.p.seen /\ i.p.rexB -> "XCHG"
                 [] OTHER -> "NOP"
      BY <1>1, <1>13 DEF Decode!Id1, id, row, column
    <3> QED
      BY <3>1
  <2>2. CASE id \in {"PAUSE", "NOP"}
    BY <1>6, <2>2 DEF OtherNames
  <2>3. CASE id = "XCHG" /\ i.p.rexB
    <3>1. first = {} /\ flags = Decode!NoFlags
      BY <1>7, <1>13, <2>3, FirstActions1 DEF first, plain
    <3> QED
      BY <1>5, <2>3, <3>1, PlainNames
  <2> QED
    BY <2>1, <2>2, <2>3
<1>14. CASE op \in {\hC0, \hC1} \cup (\hD0 .. \hD3)
  <2>1. id = MemberAt(9 + reg)
    BY <1>14, Id1Computed DEF id, reg
  <2>2. flags = Decode!ShiftFlags(reg)
    BY <1>1, <1>14, Flags1Are DEF flags, reg
  <2>3. first = Decode!READWRITE
    BY <1>14, FirstActions1 DEF first
  <2>4. 9 + reg \in 1 .. 256 /\ flags = PlaceFlags(9 + reg) /\ first = PlaceAction(9 + reg)
    BY <1>1, <2>2, <2>3, GroupPlaces
  <2> QED
    BY <1>3, <2>1, <2>4
<1>15. CASE op \in {\hF6, \hF7}
  <2>1. id = MemberAt(17 + reg)
    BY <1>15, Id1Computed DEF id, reg
  <2>2. flags = Decode!Group3Flags(reg)
    BY <1>1, <1>15, Flags1Are DEF flags, reg
  <2>3. first = Decode!READWRITE
    BY <1>15, FirstActions1 DEF first
  <2>4. 17 + reg \in 1 .. 256 /\ flags = PlaceFlags(17 + reg) /\ first = PlaceAction(17 + reg)
    BY <1>1, <2>2, <2>3, GroupPlaces
  <2> QED
    BY <1>3, <2>1, <2>4
<1>16. CASE op \in {\hC6, \hC7}
  <2>1. id = IF reg = 0 THEN "MOV" ELSE IF op = \hC6 THEN "XABORT" ELSE "XBEGIN"
    BY <1>1, <1>16 DEF Decode!Id1, id, row, column, reg
  <2>2. CASE reg = 0
    <3>1. id = "MOV" /\ first = Decode!WRITE /\ flags = Decode!NoFlags
      BY <1>7, <1>16, <2>1, <2>2, FirstActions1 DEF first, plain, reg
    <3> QED
      BY <1>5, <3>1, PlainNames
  <2>3. CASE reg # 0
    <3>1. id \in OtherNames
      BY <2>1, <2>3 DEF OtherNames
    <3> QED
      BY <1>6, <3>1
  <2> QED
    BY <2>2, <2>3
<1>17. CASE op \in (\hF0 .. \hF5) \cup (\hF8 .. \hFD)
  <2>1. id = MemberAt(131 + (op - \hF1))
    BY <1>17, Id1Computed DEF id
  <2>2. 131 + (op - \hF1) \in 130 .. 143
    BY <1>17
  <2>3. 131 + (op - \hF1) \in 1 .. 256 /\ 131 + (op - \hF1) \notin KnownPlaces
    BY <2>2 DEF KnownPlaces
  <2> QED
    BY <1>4, <2>1, <2>3
<1>18. CASE op \in {\hD7} \cup (\hE0 .. \hE3)
  <2>1. PICK k \in 147 .. 151 : id = MemberAt(k)
    <3>1. CASE op = \hD7
      BY <3>1, Id1Computed DEF id
    <3>2. CASE op \in \hE0 .. \hE3
      <4>1. id = MemberAt(148 + (op - \hE0)) /\ 148 + (op - \hE0) \in 147 .. 151
        BY <3>2, Id1Computed DEF id
      <4> QED
        BY <4>1
    <3> QED
      BY <1>18, <3>1, <3>2
  <2>2. k \in 1 .. 256 /\ k \notin KnownPlaces
    BY DEF KnownPlaces
  <2> QED
    BY <1>4, <2>1, <2>2
<1>19. CASE op \in \hD8 .. \hDF
  <2>1. id = Decode!FloatingPointId(op, m)
    BY <1>1, <1>19 DEF Decode!Id1, id, row, column
  <2>2. flags = Decode!FloatingPointFlags(op, m)
    BY <1>1, <1>19, Flags1Are DEF flags, reg
  <2>3. first = {}
    BY <1>19, FirstActions1 DEF first
  <2>4. Means(Decode!FloatingPointId(op, m), Decode!FloatingPointFlags(op, m), {})
    BY <1>2, <1>19, FloatingPointMeans DEF reg
  <2> QED
    BY <2>1, <2>2, <2>3, <2>4 DEF means
<1>20. CASE op \in {\h6D, \h6F, \h98, \h99, \h9C, \h9D, \hA5, \hA7, \hAB, \hAD, \hAF, \hCF}
  <2>1. id = Decode!SizedId(i)
    BY <1>1, <1>20 DEF Decode!Id1, id, row, column
  <2>2. id \in {"INSW", "INSD", "OUTSW", "OUTSD", "PUSHF", "PUSHFQ", "POPF", "POPFQ",
                "MOVSW", "MOVSD", "MOVSQ", "CMPSW", "CMPSD", "CMPSQ", "STOSW", "STOSD", "STOSQ",
                "LODSW", "LODSD", "LODSQ", "SCASW", "SCASD", "SCASQ", "CDQE", "CBW", "CWDE",
                "CQO", "CWD", "CDQ", "IRETQ", "IRET", "IRETD"}
    BY <1>20, <2>1 DEF Decode!SizedId, Decode!Sized
  <2>3. id \in OtherNames
    BY <2>2 DEF OtherNames
  <2> QED
    BY <1>6, <2>3
<1>21. CASE ~(\/ (row < 4 /\ op % 8 < 6) \/ row \in {5, 7} \/ op \in \h80 .. \h84
              \/ op \in {\hFF, \hFE, \h90, \hC0, \hC1, \hF6, \hF7, \hC6, \hC7, \hD7}
              \/ op \in (\hD0 .. \hD3) \cup (\hF0 .. \hF5) \cup (\hF8 .. \hFD)
                          \cup (\hE0 .. \hE3) \cup (\hD8 .. \hDF)
              \/ op \in {\h6D, \h6F, \h98, \h99, \h9C, \h9D, \hA5, \hA7, \hAB, \hAD, \hAF, \hCF})
  <2>1. id = Decode!Named1[op]
    BY SMTT(60), <1>1, <1>21 DEF Decode!Id1, id, row, column
  <2>2. op \notin {\h69, \h6B, \hC2}
    BY <1>2 DEF Apart1
  <2>3. \/ id \in OtherNames \cup {"LEA"}
        \/ op = \h8F /\ id = "POP"
        \/ op \in {\h85, \hA8, \hA9} /\ id = "TEST"
        \/ op \in {\h68, \h6A} /\ id = "PUSH"
        \/ op = \hE8 /\ id = "CALL"
        \/ op \in {\hE9, \hEB} /\ id = "JMP"
        \/ op = \hC3 /\ id = "RET"
        \/ op \in {\h86, \h87} \cup (\h91 .. \h97) /\ id = "XCHG"
        \/ op \in (\h88 .. \h8C) \cup {\h8E} \cup (\hA0 .. \hA3) \cup (\hB0 .. \hBF) /\ id = "MOV"
        \/ op \in {\hE4, \hE5, \hEC, \hED} /\ id = "IN"
    BY <2>1, <2>2, Named1Means
  <2>4. CASE id \in OtherNames \cup {"LEA"}
    BY <1>6, <2>4, MeansLea DEF means
  <2>5. CASE op \in {\h85, \hA8, \hA9} /\ id = "TEST"
    <3>1. flags = Decode!Logic /\ first = {}
      BY <1>1, <2>5, Flags1Are, FirstActions1 DEF flags, first, reg
    <3>2. PlaceFlags(17) = Decode!Logic
      BY GroupPlaces DEF Decode!Group3Flags
    <3> QED
      BY <1>3, <2>5, <3>1, <3>2, NamedMembers
  <2>6. CASE op \in {\h68, \h6A, \hE8, \hE9, \hEB} /\ id \in {"PUSH", "CALL", "JMP"}
    <3>1. flags = Decode!NoFlags
      BY <1>7, <2>6 DEF plain
    <3>2. first \in {{}, Decode!READ}
      BY <2>6, FirstActions1 DEF first
    <3>3. PICK k \in {27, 29, 31} : id = MemberAt(k)
      BY <2>6, NamedMembers
    <3>4. PlaceFlags(k) = Decode!NoFlags /\ PlaceAction(k) = Decode!READ
      BY DEF PlaceFlags, PlaceAction
    <3> QED
      BY <1>3, <3>1, <3>2, <3>3, <3>4
  <2>7. CASE op = \hC3 /\ id = "RET"
    <3>1. flags = Decode!NoFlags /\ first = Decode!WRITE
      BY <1>7, <2>7, FirstActions1 DEF first, plain
    <3>2. PlaceFlags(70) = Decode!NoFlags /\ PlaceAction(70) = Decode!WRITE
      BY DEF PlaceFlags, PlaceAction
    <3> QED
      BY <1>3, <2>7, <3>1, <3>2, NamedMembers
  <2>8. CASE op \in {\h86, \h87} \cup (\h91 .. \h97) /\ id = "XCHG"
    <3>1. flags = Decode!NoFlags /\ first = Decode!READWRITE
      BY <1>7, <2>8, FirstActions1 DEF first, plain
    <3> QED
      BY <1>5, <2>8, <3>1, PlainNames
  <2>9. CASE /\ op \in {\h8F, \hE4, \hE5, \hEC, \hED} \cup (\h88 .. \h8C) \cup {\h8E}
                         \cup (\hA0 .. \hA3) \cup (\hB0 .. \hBF)
             /\ id \in {"POP", "MOV", "IN"}
    <3>1. flags = Decode!NoFlags
      BY <1>7, <2>9 DEF plain
    <3>2. first = Decode!WRITE
      BY <2>9, FirstActions1 DEF first
    <3> QED
      BY <1>5, <2>9, <3>1, <3>2, PlainNames
  <2> QED
    BY <2>3, <2>4, <2>5, <2>6, <2>7, <2>8, <2>9
<1>22. op # \h84
  BY <1>2 DEF Apart1
<1> QED
  BY <1>8, <1>9, <1>10, <1>11, <1>12, <1>13, <1>14, <1>15, <1>16, <1>17, <1>18, <1>19, <1>20, <1>21, <1>22

(* The same behind 0F. *)
LEMMA OperandActions2 ==
  ASSUME NEW i, i.op \in Byte
  PROVE  LET first == FirstAction(Decode!Operands2(i))
         IN  /\ i.op \in \h80 .. \h8F => first = Decode!READ
             /\ i.op \in {\hA0, \hA8} => first = Decode!READ
             /\ i.op \in {\hA1, \hA9} => first = Decode!WRITE
             /\ i.op \in (\h20 .. \h23) \cup {\hAB, \hAC, \hAD, \hAF, \hC0, \hC1} \cup (\hB0 .. \hBF)
                  => Decode!Operands2(i) = Decode!Explicit2(i)
<1> DEFINE operands == Decode!Operands2(i)
           P1 == i.op = \h05
           P2 == i.op = \h07
           P3 == i.op = \h34
           P4 == i.op = \h35
           P5 == Decode!Row(i.op) = 8
           P6 == i.op = \h31
           P7 == i.op = \hA2
           P8 == i.op \in {\hA0, \hA8}
           P9 == i.op \in {\hA1, \hA9}
           P10 == i.op = \h30
           P11 == i.op \in {\h32, \h33}
           P12 == i.op = \h37
           P13 == i.op = \hAA
<1>1. Decode!Row(i.op) \in 0 .. 15 /\ i.op \in 16 * Decode!Row(i.op) .. 16 * Decode!Row(i.op) + 15
  <2> DEFINE row == Decode!Row(i.op)
  <2>1. row \in 0 .. 15 /\ Decode!Column(i.op) \in 0 .. 15 /\ i.op = 16 * row + Decode!Column(i.op)
    BY ByteParts
  <2> HIDE DEF row
  <2>2. row \in 0 .. 15 /\ i.op \in 16 * row .. 16 * row + 15
    BY <2>1
  <2> QED
    BY <2>2 DEF row
<1>2. ASSUME P5
      PROVE  FirstAction(operands) = Decode!READ
  <2>1. ~P1 /\ ~P2 /\ ~P3 /\ ~P4 /\ ~P6 /\ ~P7 /\ ~P8 /\ ~P9 /\ ~P10 /\ ~P11 /\ ~P12 /\ ~P13
    BY <1>1, <1>2
  <2>2. operands = <<Decode!Immediate(Decode!READ), Decode!IP(Decode!READWRITE)>>
    BY SMT, <1>2, <2>1 DEF Decode!Operands2
  <2> HIDE DEF operands
  <2> QED
    BY <2>2, FirstOfMore, OperandActions DEF Decode!IP
<1>3. ASSUME P8
      PROVE  FirstAction(operands) = Decode!READ
  <2>1. ~P1 /\ ~P2 /\ ~P3 /\ ~P4 /\ ~P5 /\ ~P6 /\ ~P7 /\ ~P9 /\ ~P10 /\ ~P11 /\ ~P12 /\ ~P13
    BY <1>1, <1>3
  <2>2. operands = <<Decode!Register(Decode!READ)>> \o Decode!Pushes
    BY SMT, <1>3, <2>1 DEF Decode!Operands2
  <2> HIDE DEF operands
  <2> QED
    BY <2>2, FirstOfMore, OperandActions
<1>4. ASSUME P9
      PROVE  FirstAction(operands) = Decode!WRITE
  <2>1. ~P1 /\ ~P2 /\ ~P3 /\ ~P4 /\ ~P5 /\ ~P6 /\ ~P7 /\ ~P8 /\ ~P10 /\ ~P11 /\ ~P12 /\ ~P13
    BY <1>1, <1>4
  <2>2. operands = <<Decode!Register(Decode!WRITE)>> \o Decode!Pops
    BY SMT, <1>4, <2>1 DEF Decode!Operands2
  <2> HIDE DEF operands
  <2> QED
    BY <2>2, FirstOfMore, OperandActions
<1>5. ASSUME i.op \in (\h20 .. \h23) \cup {\hAB, \hAC, \hAD, \hAF, \hC0, \hC1} \cup (\hB0 .. \hBF)
      PROVE  operands = Decode!Explicit2(i)
  <2>1. ~P1 /\ ~P2 /\ ~P3 /\ ~P4 /\ ~P5 /\ ~P6 /\ ~P7 /\ ~P8 /\ ~P9 /\ ~P10 /\ ~P11 /\ ~P12 /\ ~P13
    BY <1>1, <1>5
  <2> QED
    BY <2>1, Zenon DEF Decode!Operands2
<1> QED
  BY <1>1, <1>2, <1>3, <1>4, <1>5 DEF operands

(* The opcodes with the ids of one-byte ones, and the bit tests. *)
LEMMA ExplicitActions2 ==
  ASSUME NEW i, i.op \in Byte
  PROVE  LET first == FirstAction(Decode!Explicit2(i))
         IN  /\ i.op \in {\hAB, \hB3, \hBB, \hAC, \hAD, \hAF} => first = Decode!READWRITE
             /\ i.op \in {\hC0, \hC1} => first = Decode!READWRITE
             /\ i.op \in {\hB6, \hB7, \hBE, \hBF} => first = Decode!WRITE
             /\ i.op \in {\hB0, \hB1} => first = Decode!CONDWRITE
             /\ i.op \in \h20 .. \h23 => Decode!Explicit2(i) = Decode!SystemOperands(i)
<1> DEFINE operands == Decode!Explicit2(i)
           P1 == i.op \in {\h00, \h01, \h02, \h03, \h0D} \/ Decode!Row(i.op) = 9 \/ i.op \in \h20 .. \h23
           P2 == i.op \in {\hA3, \hAB, \hB3, \hBB}
           P3 == i.op \in {\hA4, \hAC}
           P4 == i.op \in {\hA5, \hAD}
           P5 == i.op \in {\hAF, \hB8}
           P6 == i.op = \hBA
           P7 == i.op \in (\hB4 .. \hB7) \cup (\hBC .. \hBF) \/ Decode!Row(i.op) = 4
           P8 == i.op \in {\hB0, \hB1}
           P9 == i.op \in {\hC0, \hC1}
           P10 == i.op = \hB2
           P11 == i.op = \hC3
           P12 == i.op = \hC7
           P13 == i.op \in \hC8 .. \hCF
           P14 == i.op = \hFF
           P15 == \/ i.op \in (\h10 .. \h17) \cup (\h28 .. \h2F) \cup {\hC2, \hC4, \hC5, \hC6}
                  \/ Decode!Row(i.op) \in {5, 6, 7, 13, 14, 15} /\ i.op \notin {\h77, \hFF}
<1>1. Decode!Row(i.op) \in 0 .. 15 /\ i.op \in 16 * Decode!Row(i.op) .. 16 * Decode!Row(i.op) + 15
  <2> DEFINE row == Decode!Row(i.op)
  <2>1. row \in 0 .. 15 /\ Decode!Column(i.op) \in 0 .. 15 /\ i.op = 16 * row + Decode!Column(i.op)
    BY ByteParts
  <2> HIDE DEF row
  <2>2. row \in 0 .. 15 /\ i.op \in 16 * row .. 16 * row + 15
    BY <2>1
  <2> QED
    BY <2>2 DEF row
<1>2. ASSUME P2
      PROVE  FirstAction(operands) = Decode!READWRITE
  <2>1. ~P1 /\ ~P3 /\ ~P4 /\ ~P5 /\ ~P6 /\ ~P7 /\ ~P8 /\ ~P9 /\ ~P10 /\ ~P11 /\ ~P12 /\ ~P13 /\ ~P14 /\ ~P15
    BY <1>1, <1>2
  <2>2. operands = Decode!EG(i, Decode!READWRITE, Decode!READ)
    BY SMT, <1>2, <2>1 DEF Decode!Explicit2
  <2> HIDE DEF operands
  <2> QED
    BY <2>2, FirstOfTwo
<1>3. ASSUME P3
      PROVE  FirstAction(operands) = Decode!READWRITE
  <2>1. ~P1 /\ ~P2 /\ ~P4 /\ ~P5 /\ ~P6 /\ ~P7 /\ ~P8 /\ ~P9 /\ ~P10 /\ ~P11 /\ ~P12 /\ ~P13 /\ ~P14 /\ ~P15
    BY <1>1, <1>3
  <2>2. operands # <<>>
    BY SMT, <1>3, <2>1 DEF Decode!Explicit2, Decode!EG
  <2>3. operands[1].action = Decode!READWRITE
    BY SMT, <1>3, <2>1 DEF Decode!Explicit2, Decode!EG, Decode!E, Decode!Register, Decode!Memory
  <2> HIDE DEF operands
  <2> QED
    BY <2>2, <2>3 DEF FirstAction
<1>4. ASSUME P4
      PROVE  FirstAction(operands) = Decode!READWRITE
  <2>1. ~P1 /\ ~P2 /\ ~P3 /\ ~P5 /\ ~P6 /\ ~P7 /\ ~P8 /\ ~P9 /\ ~P10 /\ ~P11 /\ ~P12 /\ ~P13 /\ ~P14 /\ ~P15
    BY <1>1, <1>4
  <2>2. operands # <<>>
    BY SMT, <1>4, <2>1 DEF Decode!Explicit2, Decode!EG
  <2>3. operands[1].action = Decode!READWRITE
    BY SMT, <1>4, <2>1 DEF Decode!Explicit2, Decode!EG, Decode!E, Decode!Register, Decode!Memory
  <2> HIDE DEF operands
  <2> QED
    BY <2>2, <2>3 DEF FirstAction
<1>5. ASSUME P5
      PROVE  FirstAction(operands) = Decode!READWRITE
  <2>1. ~P1 /\ ~P2 /\ ~P3 /\ ~P4 /\ ~P6 /\ ~P7 /\ ~P8 /\ ~P9 /\ ~P10 /\ ~P11 /\ ~P12 /\ ~P13 /\ ~P14 /\ ~P15
    BY <1>1, <1>5
  <2>2. operands = Decode!GE(i, Decode!READWRITE, Decode!READ)
    BY SMT, <1>5, <2>1 DEF Decode!Explicit2
  <2> HIDE DEF operands
  <2> QED
    BY <2>2, FirstOfTwo
<1>6. ASSUME P7
      PROVE  FirstAction(operands) = Decode!WRITE
  <2>1. ~P1 /\ ~P2 /\ ~P3 /\ ~P4 /\ ~P5 /\ ~P6 /\ ~P8 /\ ~P9 /\ ~P10 /\ ~P11 /\ ~P12 /\ ~P13 /\ ~P14 /\ ~P15
    BY <1>1, <1>6
  <2>2. operands = Decode!GE(i, Decode!WRITE, Decode!READ)
    BY SMT, <1>6, <2>1 DEF Decode!Explicit2
  <2> HIDE DEF operands
  <2> QED
    BY <2>2, FirstOfTwo
<1>7. ASSUME P8
      PROVE  FirstAction(operands) = Decode!CONDWRITE
  <2>1. ~P1 /\ ~P2 /\ ~P3 /\ ~P4 /\ ~P5 /\ ~P6 /\ ~P7 /\ ~P9 /\ ~P10 /\ ~P11 /\ ~P12 /\ ~P13 /\ ~P14 /\ ~P15
    BY <1>1, <1>7
  <2>2. operands = Decode!EG(i, Decode!CONDWRITE, Decode!READ)
    BY SMT, <1>7, <2>1 DEF Decode!Explicit2
  <2> HIDE DEF operands
  <2> QED
    BY <2>2, FirstOfTwo
<1>8. ASSUME P9
      PROVE  FirstAction(operands) = Decode!READWRITE
  <2>1. ~P1 /\ ~P2 /\ ~P3 /\ ~P4 /\ ~P5 /\ ~P6 /\ ~P7 /\ ~P8 /\ ~P10 /\ ~P11 /\ ~P12 /\ ~P13 /\ ~P14 /\ ~P15
    BY <1>1, <1>8
  <2>2. operands = Decode!EG(i, Decode!READWRITE, Decode!READWRITE)
    BY SMT, <1>8, <2>1 DEF Decode!Explicit2
  <2> HIDE DEF operands
  <2> QED
    BY <2>2, FirstOfTwo
<1>9. ASSUME P1
      PROVE  operands = Decode!SystemOperands(i)
  <2>1. ~P2 /\ ~P3 /\ ~P4 /\ ~P5 /\ ~P6 /\ ~P7 /\ ~P8 /\ ~P9 /\ ~P10 /\ ~P11 /\ ~P12 /\ ~P13 /\ ~P14 /\ ~P15
    BY <1>1, <1>9
  <2> QED
    BY SMT, <1>9, <2>1 DEF Decode!Explicit2
<1> QED
  BY <1>1, <1>2, <1>3, <1>4, <1>5, <1>6, <1>7, <1>8, <1>9 DEF operands

(* What a two-byte opcode does to its first operand. *)
LEMMA FirstActions2 ==
  ASSUME NEW i, i.op \in Byte
  PROVE  LET first == FirstAction(Decode!Operands2(i))
         IN  /\ i.op \in (\h80 .. \h8F) \cup {\hA0, \hA8} => first = Decode!READ
             /\ i.op \in {\hA1, \hA9, \hB6, \hB7, \hBE, \hBF} \cup (\h20 .. \h23) => first = Decode!WRITE
             /\ i.op \in {\hAB, \hB3, \hBB, \hAC, \hAD, \hAF, \hC0, \hC1} => first = Decode!READWRITE
             /\ i.op \in {\hB0, \hB1} => first = Decode!CONDWRITE
<1> DEFINE first == FirstAction(Decode!Operands2(i))
<1>1. ASSUME i.op \in \h20 .. \h23
      PROVE  first = Decode!WRITE
  <2>1. Decode!Operands2(i) = Decode!SystemOperands(i)
    BY <1>1, OperandActions2, ExplicitActions2
  <2>2. Decode!Row(i.op) = 2
    <3>1. /\ Decode!Row(i.op) \in 0 .. 15 /\ Decode!Column(i.op) \in 0 .. 15
          /\ i.op = 16 * Decode!Row(i.op) + Decode!Column(i.op)
      BY ByteParts
    <3> QED
      BY <1>1, <3>1
  <2>3. i.op \notin {\h00, \h01, \h02, \h03, \h0D}
    BY <1>1
  <2>4. Decode!SystemOperands(i) = <<Decode!Register(Decode!WRITE), Decode!Register(Decode!READ)>>
    BY SMT, <1>1, <2>2, <2>3 DEF Decode!SystemOperands
  <2> QED
    BY <2>1, <2>4, FirstOfMore, OperandActions
<1>2. ASSUME i.op \in (\h20 .. \h23) \cup {\hAB, \hAC, \hAD, \hAF, \hC0, \hC1} \cup (\hB0 .. \hBF)
      PROVE  first = FirstAction(Decode!Explicit2(i))
  BY <1>2, OperandActions2
<1>3. ASSUME i.op \in (\h80 .. \h8F) \cup {\hA0, \hA8}
      PROVE  first = Decode!READ
  BY <1>3, OperandActions2
<1>4. ASSUME i.op \in {\hA1, \hA9}
      PROVE  first = Decode!WRITE
  BY <1>4, OperandActions2
<1>5. ASSUME i.op \in {\hB6, \hB7, \hBE, \hBF}
      PROVE  first = Decode!WRITE
  BY <1>2, <1>5, ExplicitActions2
<1>6. ASSUME i.op \in {\hAB, \hB3, \hBB, \hAC, \hAD, \hAF, \hC0, \hC1}
      PROVE  first = Decode!READWRITE
  BY <1>2, <1>6, ExplicitActions2
<1>7. ASSUME i.op \in {\hB0, \hB1}
      PROVE  first = Decode!CONDWRITE
  BY <1>2, <1>7, ExplicitActions2
<1> HIDE DEF first
<1> QED
  BY <1>1, <1>3, <1>4, <1>5, <1>6, <1>7 DEF first

(* What the table of the flags says of the opcodes behind 0F. *)
LEMMA Flags2Are ==
  ASSUME NEW i, i.op \in Byte
  PROVE  LET flags == Decode!Flags2(i)
         IN  /\ Decode!Row(i.op) \in {4, 8, 9} => flags = Decode!conditional_flag(Decode!Column(i.op))
             /\ i.op = \hAF => flags = Decode!Multiplies
             /\ i.op \in {\hB0, \hB1, \hC0, \hC1} => flags = Decode!Modifies(Decode!Arithmetic, {})
             /\ i.op \in {\hA3, \hAB, \hB3, \hBA, \hBB} => flags = BitTest
             /\ i.op \in {\hA4, \hA5, \hAC, \hAD, \hBC} => flags = Decode!Modifies({"CF", "PF", "ZF", "SF"}, {"AF", "OF"})
             /\ i.op \in (\h20 .. \h23) \cup {\hA0, \hA1, \hA8, \hA9, \hB6, \hB7, \hBE, \hBF}
                  => flags = Decode!NoFlags
<1> DEFINE flags == Decode!Flags2(i)
           P1 == Decode!Row(i.op) \in {4, 8, 9}
           P2 == i.op \in {\h05, \h07}
           P3 == i.op = \h34
           P4 == i.op = \hAA
           P5 == i.op = \hAF
           P6 == i.op \in {\hB0, \hB1, \hC0, \hC1}
           P7 == i.op = \h00 /\ Decode!Reg(i.modrm) \in {4, 5}
           P8 == i.op = \h01 /\ i.modrm \in \hC1 .. \hC3
           P9 == i.op \in {\h78, \h79}
           P10 == i.op \in {\h02, \h03}
           P11 == i.op \in {\hA3, \hAB, \hB3, \hBA, \hBB}
           P12 == i.op \in {\hA4, \hA5, \hAC, \hAD, \hBC}
           P13 == i.op = \hBD
<1>1. Decode!Row(i.op) \in 0 .. 15 /\ i.op \in 16 * Decode!Row(i.op) .. 16 * Decode!Row(i.op) + 15
  <2> DEFINE row == Decode!Row(i.op)
  <2>1. row \in 0 .. 15 /\ Decode!Column(i.op) \in 0 .. 15 /\ i.op = 16 * row + Decode!Column(i.op)
    BY ByteParts
  <2> HIDE DEF row
  <2>2. row \in 0 .. 15 /\ i.op \in 16 * row .. 16 * row + 15
    BY <2>1
  <2> QED
    BY <2>2 DEF row
<1>2. ASSUME P1
      PROVE  flags = Decode!conditional_flag(Decode!Column(i.op))
  <2>1. ~P2 /\ ~P3 /\ ~P4 /\ ~P5 /\ ~P6 /\ ~P7 /\ ~P8 /\ ~P9 /\ ~P10 /\ ~P11 /\ ~P12 /\ ~P13
    BY <1>1, <1>2
  <2> QED
    BY SMT, <1>2, <2>1 DEF Decode!Flags2
<1>3. ASSUME P5
      PROVE  flags = Decode!Multiplies
  <2>1. ~P1 /\ ~P2 /\ ~P3 /\ ~P4 /\ ~P6 /\ ~P7 /\ ~P8 /\ ~P9 /\ ~P10 /\ ~P11 /\ ~P12 /\ ~P13
    BY <1>1, <1>3
  <2> QED
    BY SMT, <1>3, <2>1 DEF Decode!Flags2
<1>4. ASSUME P6
      PROVE  flags = Decode!Modifies(Decode!Arithmetic, {})
  <2>1. ~P1 /\ ~P2 /\ ~P3 /\ ~P4 /\ ~P5 /\ ~P7 /\ ~P8 /\ ~P9 /\ ~P10 /\ ~P11 /\ ~P12 /\ ~P13
    BY <1>1, <1>4
  <2> QED
    BY SMT, <1>4, <2>1 DEF Decode!Flags2
<1>5. ASSUME P11
      PROVE  flags = BitTest
  <2>1. ~P1 /\ ~P2 /\ ~P3 /\ ~P4 /\ ~P5 /\ ~P6 /\ ~P7 /\ ~P8 /\ ~P9 /\ ~P10 /\ ~P12 /\ ~P13
    BY <1>1, <1>5
  <2> QED
    BY SMT, <1>5, <2>1 DEF Decode!Flags2, BitTest
<1>6. ASSUME P12
      PROVE  flags = Decode!Modifies({"CF", "PF", "ZF", "SF"}, {"AF", "OF"})
  <2>1. ~P1 /\ ~P2 /\ ~P3 /\ ~P4 /\ ~P5 /\ ~P6 /\ ~P7 /\ ~P8 /\ ~P9 /\ ~P10 /\ ~P11 /\ ~P13
    BY <1>1, <1>6
  <2> QED
    BY SMT, <1>6, <2>1 DEF Decode!Flags2
<1>7. ASSUME i.op \in (\h20 .. \h23) \cup {\hA0, \hA1, \hA8, \hA9, \hB6, \hB7, \hBE, \hBF}
      PROVE  flags = Decode!NoFlags
  <2>1. ~P1 /\ ~P2 /\ ~P3 /\ ~P4 /\ ~P5 /\ ~P6 /\ ~P7 /\ ~P8 /\ ~P9 /\ ~P10 /\ ~P11 /\ ~P12 /\ ~P13
    BY <1>1, <1>7
  <2> QED
    BY ZenonT(60), <2>1 DEF Decode!Flags2
<1> HIDE DEF flags
<1> QED
  BY <1>2, <1>3, <1>4, <1>5, <1>6, <1>7 DEF flags

(* The opcodes behind 0F with an id given by name. *)
LEMMA Named2Means ==
  ASSUME NEW op \in Byte
  PROVE  LET id == Decode!Named2[op]
         IN  \/ id \in OtherNames
             \/ op \in {\hA0, \hA8} /\ id = "PUSH"
             \/ op \in {\hA1, \hA9} /\ id = "POP"
             \/ op \in \h20 .. \h23 /\ id = "MOV"
             \/ op = \hAF /\ id = "IMUL"
             \/ op \in {\hB0, \hB1} /\ id = "CMPXCHG"
             \/ op \in {\hC0, \hC1} /\ id = "XADD"
             \/ op \in {\hAC, \hAD} /\ id = "SHRD"
             \/ op \in {\hB6, \hB7} /\ id = "MOVZX"
             \/ op \in {\hBE, \hBF} /\ id = "MOVSX"
             \/ op = \hAB /\ id = "BTS"
             \/ op = \hBB /\ id = "BTC"
<1> DEFINE id == Decode!Named2[op]
<1> op \in Decode!Byte
  BY DEF Byte, Decode!Byte
<1>1. id \in OtherNames \cup {"PUSH", "POP", "MOV", "IMUL", "CMPXCHG", "XADD", "SHRD", "MOVZX",
                              "MOVSX", "BTS", "BTC"}
  BY Named2Is DEF OtherNames
<1>2. /\ id = "PUSH" => op \in {\hA0, \hA8}
      /\ id = "POP" => op \in {\hA1, \hA9}
      /\ id = "MOV" => op \in \h20 .. \h23
      /\ id = "IMUL" => op = \hAF
  BY DEF Decode!Named2, Decode!INVALID, Decode!SIMD
<1>3. /\ id = "CMPXCHG" => op \in {\hB0, \hB1}
      /\ id = "XADD" => op \in {\hC0, \hC1}
      /\ id = "SHRD" => op \in {\hAC, \hAD}
      /\ id = "MOVZX" => op \in {\hB6, \hB7}
  BY DEF Decode!Named2, Decode!INVALID, Decode!SIMD
<1>4. id = "MOVSX" => op \in {\hBE, \hBF}
  BY DEF Decode!Named2, Decode!INVALID, Decode!SIMD
<1>5. id = "BTS" => op = \hAB
  BY DEF Decode!Named2, Decode!INVALID, Decode!SIMD
<1>6. id = "BTC" => op = \hBB
  BY DEF Decode!Named2, Decode!INVALID, Decode!SIMD
<1> QED
  BY <1>1, <1>2, <1>3, <1>4, <1>5, <1>6

(* What the opcodes behind 0F say is what is said of their ids, but for the *)
(* bit tests with an immediate.                                             *)
LEMMA Means2 ==
  ASSUME NEW i, NEW op \in Byte, NEW m \in Byte, i.op = op, i.modrm = m, op # \hBA
  PROVE  Means(Decode!Id2(i), Decode!Flags2(i), FirstAction(Decode!Operands2(i)))
<1> DEFINE row == Decode!Row(op)
           column == Decode!Column(op)
           reg == Decode!Reg(m)
           id == Decode!Id2(i)
           flags == Decode!Flags2(i)
           first == FirstAction(Decode!Operands2(i))
           means == Means(id, flags, first)
<1>1. /\ row \in 0 .. 15 /\ column \in 0 .. 15 /\ op = 16 * row + column /\ reg \in 0 .. 7
      /\ op \in 0 .. 255
  BY ByteParts DEF Byte
<1>2. ASSUME NEW k \in 1 .. 256, id = MemberAt(k),
             k \in KnownPlaces => flags = PlaceFlags(k) /\ first \in {{}, PlaceAction(k)}
      PROVE  means
  BY <1>2, MeansPlace
<1>3. ASSUME NEW k \in (144 .. 246) \cup (248 .. 249) \cup (253 .. 256), id = MemberAt(k)
      PROVE  means
  <2>1. k \in 1 .. 256 /\ k \notin KnownPlaces
    BY DEF KnownPlaces
  <2> QED
    BY <1>3, <2>1, MeansPlace
<1>4. ASSUME id \in KnownNames, flags = NameFlags(id), first \in {{}, NameAction(id)}
      PROVE  means
  BY <1>4, MeansName
<1>5. ASSUME id \in OtherNames
      PROVE  means
  BY <1>5, MeansOther
<1>6. ASSUME op \in (\h20 .. \h23) \cup {\hA0, \hA1, \hA8, \hA9, \hB6, \hB7, \hBE, \hBF}
      PROVE  flags = Decode!NoFlags
  BY <1>6, Flags2Are
<1> HIDE DEF row, column, reg, id, flags, first
<1> SUFFICES means
  BY DEF id, flags, first
<1> HIDE DEF means
<1>7. CASE row = 8
  <2>1. op \in \h80 .. \h8F /\ 32 + column \in 1 .. 256
    BY <1>1, <1>7
  <2>2. id = MemberAt(32 + column)
    BY <2>1, Id2Computed DEF column, id
  <2>3. flags = Decode!conditional_flag(column)
    BY <1>7, Flags2Are DEF flags, row, column
  <2>4. first = Decode!READ
    BY <2>1, FirstActions2 DEF first
  <2>5. flags = PlaceFlags(32 + column) /\ first = PlaceAction(32 + column)
    BY <1>1, <2>3, <2>4, GroupPlaces
  <2> QED
    BY <1>2, <2>1, <2>2, <2>5
<1>8. CASE op \in \hA2 .. \hA5
  <2>1. 253 + (op - \hA2) \in 253 .. 256 /\ id = MemberAt(253 + (op - \hA2))
    BY <1>8, Id2Computed DEF id
  <2> QED
    BY <1>3, <2>1
<1>9. CASE row = 4
  <2>1. op \in \h40 .. \h4F /\ 214 + column \in 214 .. 229
    BY <1>1, <1>9
  <2>2. id = MemberAt(214 + column)
    BY <2>1, Id2Computed DEF column, id
  <2> QED
    BY <1>3, <2>1, <2>2
<1>10. CASE op = \h00
  <2>1. 152 + reg \in 152 .. 159 /\ id = MemberAt(152 + reg)
    BY <1>1, <1>10, Id2Computed DEF reg, id
  <2> QED
    BY <1>3, <2>1
<1>11. CASE op = \h01
  <2>1. id = Decode!SystemId(m)
    BY <1>1, <1>11 DEF Decode!Id2, id, row, column
  <2>2. CASE \E k \in 158 .. 193 : id = MemberAt(k)
    <3>1. PICK k \in 158 .. 193 : id = MemberAt(k)
      BY <2>2
    <3> QED
      BY <1>3, <3>1
  <2>3. CASE id \in {"SMSW", "INVALID", "LMSW", "SWAPGS", "RDTSCP"}
    BY <1>5, <2>3 DEF OtherNames
  <2> QED
    BY <2>1, <2>2, <2>3, SystemIdIs
<1>12. CASE op \in (\h02 .. \h0B) \ {\h05}
  <2>1. 194 + (op - 2) \in 194 .. 203 /\ id = MemberAt(194 + (op - 2))
    BY <1>12, Id2Computed DEF id
  <2> QED
    BY <1>3, <2>1
<1>13. CASE op \in {\h18, \h19} \cup (\h1C .. \h1F)
  <2>1. id = Decode!HintId(op, m)
    BY <1>1, <1>13 DEF Decode!Id2, id, row, column
  <2>2. id \in {"ENDBR64", "ENDBR32", "PREFETCHNTA", "PREFETCHT0", "PREFETCHT1", "PREFETCHT2", "NOP"}
    BY <1>1, <1>13, <2>1 DEF Decode!HintId, reg
  <2> QED
    BY <1>5, <2>2 DEF OtherNames
<1>14. CASE row = 3
  <2>1. op \in \h30 .. \h3F /\ 206 + column \in 206 .. 221
    BY <1>1, <1>14
  <2>2. id = MemberAt(206 + column)
    BY <2>1, Id2Computed DEF column, id
  <2> QED
    BY <1>3, <2>1, <2>2
<1>15. CASE op \in {\h78, \h79}
  <2>1. id \in {"SIMD", "VMREAD", "VMWRITE"}
    BY <1>1, <1>15 DEF Decode!Id2, id, row, column, Decode!SIMD
  <2> QED
    BY <1>5, <2>1 DEF OtherNames
<1>16. CASE op \in \hB2 .. \hB5
  <2>1. 246 + (op - \hB2) \in 246 .. 249 /\ id = MemberAt(246 + (op - \hB2))
    BY <1>16, Id2Computed DEF id
  <2>2. CASE op # \hB3
    <3>1. 246 + (op - \hB2) # 247
      BY <1>16, <2>2
    <3> QED
      BY <1>3, <2>1, <3>1
  <2>3. CASE op = \hB3
    <3>1. id = MemberAt(247)
      BY <2>1, <2>3
    <3>2. flags = BitTest /\ first = Decode!READWRITE
      BY <2>3, Flags2Are, FirstActions2 DEF flags, first
    <3>3. PlaceFlags(247) = BitTest /\ PlaceAction(247) = Decode!READWRITE
      BY DEF PlaceFlags, PlaceAction
    <3> QED
      BY <1>2, <3>1, <3>2, <3>3
  <2> QED
    BY <2>2, <2>3
<1>17. CASE op \in {\hBC, \hBD}
  <2>1. id \in {"BSF", "TZCNT", "BSR", "LZCNT"}
    BY <1>1, <1>17 DEF Decode!Id2, id, row, column
  <2> QED
    BY <1>5, <2>1 DEF OtherNames
<1>18. CASE op = \hC7
  <2>1. id = Decode!Group9Id(i)
    BY <1>1, <1>18 DEF Decode!Id2, id, row, column
  <2>2. id \in {"CMPXCHG16B", "CMPXCHG8B", "VMPTRST", "RDPID", "RDSEED", "RDRAND", "VMCLEAR",
                "VMXON", "VMPTRLD"}
    BY <1>1, <1>18, <2>1 DEF Decode!Group9Id, Decode!OPSIZE, Decode!REP
  <2> QED
    BY <1>5, <2>2 DEF OtherNames
<1>19. CASE ~(\/ row \in {3, 4, 8} \/ op \in (\hA2 .. \hA5) \cup ((\h00 .. \h0B) \ {\h05})
              \/ op \in {\h18, \h19} \cup (\h1C .. \h1F)
              \/ op \in {\h78, \h79, \hBA, \hBC, \hBD, \hC7} \cup (\hB2 .. \hB5))
  <2>1. id = Decode!Named2[op]
    BY SMTT(60), <1>1, <1>19 DEF Decode!Id2, id, row, column
  <2>2. \/ id \in OtherNames
        \/ op \in {\hA0, \hA8} /\ id = "PUSH"
        \/ op \in {\hA1, \hA9} /\ id = "POP"
        \/ op \in \h20 .. \h23 /\ id = "MOV"
        \/ op = \hAF /\ id = "IMUL"
        \/ op \in {\hB0, \hB1} /\ id = "CMPXCHG"
        \/ op \in {\hC0, \hC1} /\ id = "XADD"
        \/ op \in {\hAC, \hAD} /\ id = "SHRD"
        \/ op \in {\hB6, \hB7} /\ id = "MOVZX"
        \/ op \in {\hBE, \hBF} /\ id = "MOVSX"
        \/ op = \hAB /\ id = "BTS"
        \/ op = \hBB /\ id = "BTC"
    BY <2>1, Named2Means
  <2>3. CASE op \in {\hA0, \hA8} /\ id = "PUSH"
    <3>1. flags = Decode!NoFlags /\ first = Decode!READ
      BY <1>6, <2>3, FirstActions2 DEF first
    <3>2. PlaceFlags(31) = Decode!NoFlags /\ PlaceAction(31) = Decode!READ
      BY DEF PlaceFlags, PlaceAction
    <3> QED
      BY <1>2, <2>3, <3>1, <3>2, NamedMembers
  <2>4. CASE /\ op \in {\hA1, \hA9, \hB6, \hB7, \hBE, \hBF} \cup (\h20 .. \h23)
             /\ id \in {"POP", "MOV", "MOVZX", "MOVSX"}
    <3>1. flags = Decode!NoFlags /\ first = Decode!WRITE
      BY <1>6, <2>4, FirstActions2 DEF first
    <3> QED
      BY <1>4, <2>4, <3>1, PlainNames
  <2>5. CASE op = \hAF /\ id = "IMUL"
    <3>1. flags = Decode!Multiplies /\ first = Decode!READWRITE
      BY <2>5, Flags2Are, FirstActions2 DEF flags, first
    <3>2. PlaceFlags(22) = Decode!Multiplies /\ PlaceAction(22) = Decode!READWRITE
      BY DEF PlaceFlags, PlaceAction, Decode!Group3Flags
    <3> QED
      BY <1>2, <2>5, <3>1, <3>2, NamedMembers
  <2>6. CASE op \in {\hB0, \hB1} /\ id = "CMPXCHG"
    <3>1. flags = Decode!Modifies(Decode!Arithmetic, {}) /\ first = Decode!CONDWRITE
      BY <2>6, Flags2Are, FirstActions2 DEF flags, first
    <3>2. /\ "CMPXCHG" \in KnownNames /\ NameAction("CMPXCHG") = Decode!CONDWRITE
          /\ NameFlags("CMPXCHG") = Decode!Modifies(Decode!Arithmetic, {})
      BY DEF KnownNames, NameFlags, NameAction
    <3> QED
      BY <1>4, <2>6, <3>1, <3>2
  <2>7. CASE op \in {\hC0, \hC1} /\ id = "XADD"
    <3>1. flags = Decode!Modifies(Decode!Arithmetic, {}) /\ first = Decode!READWRITE
      BY <2>7, Flags2Are, FirstActions2 DEF flags, first
    <3>2. /\ "XADD" \in KnownNames /\ NameAction("XADD") = Decode!READWRITE
          /\ NameFlags("XADD") = Decode!Modifies(Decode!Arithmetic, {})
      BY DEF KnownNames, NameFlags, NameAction
    <3> QED
      BY <1>4, <2>7, <3>1, <3>2
  <2>8. CASE op \in {\hAC, \hAD} /\ id = "SHRD"
    <3>1. /\ flags = Decode!Modifies({"CF", "PF", "ZF", "SF"}, {"AF", "OF"})
          /\ first = Decode!READWRITE
      BY <2>8, Flags2Are, FirstActions2 DEF flags, first
    <3>2. /\ "SHRD" \in KnownNames /\ NameAction("SHRD") = Decode!READWRITE
          /\ NameFlags("SHRD") = Decode!Modifies({"CF", "PF", "ZF", "SF"}, {"AF", "OF"})
      BY DEF KnownNames, NameFlags, NameAction
    <3> QED
      BY <1>4, <2>8, <3>1, <3>2
  <2>9. CASE op \in {\hAB, \hBB} /\ id \in {"BTS", "BTC"}
    <3>1. flags = BitTest /\ first = Decode!READWRITE
      BY <2>9, Flags2Are, FirstActions2 DEF flags, first
    <3>2. PICK k \in {251, 252} : id = MemberAt(k)
      BY <2>9, NamedMembers
    <3>3. PlaceFlags(k) = BitTest /\ PlaceAction(k) = Decode!READWRITE
      BY DEF PlaceFlags, PlaceAction
    <3> QED
      BY <1>2, <3>1, <3>2, <3>3
  <2> QED
    BY <1>5, <2>2, <2>3, <2>4, <2>5, <2>6, <2>7, <2>8, <2>9
<1> QED
  BY <1>7, <1>8, <1>9, <1>10, <1>11, <1>12, <1>13, <1>14, <1>15, <1>16, <1>17, <1>18, <1>19

(* Something is said of the member at a known place. *)
LEMMA KnownPlace ==
  ASSUME NEW k \in KnownPlaces
  PROVE  Known(MemberAt(k))
BY DEF Known

(* The canonical encodings with a one-byte opcode, family by family, ... *)
Canonical1(op, m) ==
  \/ \E k \in 0 .. 7 : op = 8 * k + 1 /\ m = \hC0
  \/ \E k \in 0 .. 7 : op = \hD1 /\ m = \hC0 + 8 * k
  \/ \E k \in 2 .. 7 : op = \hF7 /\ m = \hC0 + 8 * k
  \/ \E k \in 0 .. 2 : op = \hFF /\ m = \hC0 + 8 * k
  \/ op \in \h70 .. \h7F /\ m = \h00
  \/ \E k \in 0 .. 7 : op \in {\hD8, \hDA} /\ m = 8 * k
  \/ op = \hD9 /\ m \in {\h00, \h10, \h18, \hC8}
  \/ \E k \in 0 .. 3 : op = \hDB /\ m = 8 * k
  \/ op \in {\h50, \h85, \h87, \h89, \h8F, \hC3, \hE9, \hEC} /\ m = \hC0

(* The canonical encodings with a one-byte opcode are known and not apart. *)
LEMMA CanonicalKnown1 ==
  ASSUME NEW i, NEW op, NEW m, i.op = op, i.modrm = m, Canonical1(op, m)
  PROVE  /\ op \in Byte /\ m \in Byte /\ ~Decode!Reserved1(op, m) /\ ~Apart1(op, Decode!Reg(m))
         /\ Known(Decode!Id1(i))
<1> DEFINE row == Decode!Row(op)
           column == Decode!Column(op)
           mod == Decode!Mod(m)
           reg == Decode!Reg(m)
           rm == Decode!Rm(m)
           id == Decode!Id1(i)
           open == ~Decode!Reserved1(op, m) /\ ~Apart1(op, reg)
           Goal == open /\ Known(id)
<1>1. op \in Byte /\ m \in Byte
  <2>1. op \in 0 .. 255 /\ m \in 0 .. 255
    BY DEF Canonical1
  <2> QED
    BY <2>1 DEF Byte
<1>2. /\ row \in 0 .. 15 /\ column \in 0 .. 15 /\ op = 16 * row + column
      /\ op % 8 = (IF column >= 8 THEN column - 8 ELSE column)
      /\ mod \in 0 .. 3 /\ reg \in 0 .. 7 /\ rm \in 0 .. 7 /\ m = 64 * mod + 8 * reg + rm
  BY <1>1, ByteParts
<1> HIDE DEF row, column, mod, reg, rm, id
<1> SUFFICES Goal
  BY <1>1 DEF reg, id
<1>3. ASSUME NEW k \in KnownPlaces, id = MemberAt(k), open
      PROVE  Goal
  BY <1>3, KnownPlace
<1>4. CASE \E k \in 0 .. 7 : op = 8 * k + 1 /\ m = \hC0
  <2>1. PICK k \in 0 .. 7 : op = 8 * k + 1 /\ m = \hC0
    BY <1>4
  <2>2. row < 4 /\ op % 8 < 6 /\ 1 + 2 * row + (IF column >= 8 THEN 1 ELSE 0) = 1 + k
    BY <1>2, <2>1
  <2>3. id = MemberAt(1 + k) /\ 1 + k \in KnownPlaces
    BY <1>1, <2>2, Id1Computed DEF id, row, column, KnownPlaces
  <2>4. open
    BY <2>1 DEF Decode!Reserved1, Apart1
  <2> QED
    BY <1>3, <2>3, <2>4
<1>5. CASE \E k \in 0 .. 7 : op = \hD1 /\ m = \hC0 + 8 * k
  <2>1. id = MemberAt(9 + reg)
    BY <1>1, <1>5, Id1Computed DEF id, reg
  <2>2. 9 + reg \in KnownPlaces
    BY <1>2 DEF KnownPlaces
  <2>3. open
    BY <1>5 DEF Decode!Reserved1, Apart1
  <2> QED
    BY <1>3, <2>1, <2>2, <2>3
<1>6. CASE \E k \in 2 .. 7 : op = \hF7 /\ m = \hC0 + 8 * k
  <2>1. id = MemberAt(17 + reg)
    BY <1>1, <1>6, Id1Computed DEF id, reg
  <2>2. reg \in 2 .. 7
    BY <1>2, <1>6
  <2>3. 17 + reg \in KnownPlaces
    BY <2>2 DEF KnownPlaces
  <2>4. open
    BY <1>6 DEF Decode!Reserved1, Apart1
  <2> QED
    BY <1>3, <2>1, <2>3, <2>4
<1>7. CASE \E k \in 0 .. 2 : op = \hFF /\ m = \hC0 + 8 * k
  <2>1. reg \in 0 .. 2
    BY <1>2, <1>7
  <2>2. id = MemberAt(25 + reg)
    BY <1>1, <1>7, <2>1, Id1Computed DEF id, reg
  <2>3. 25 + reg \in KnownPlaces
    BY <2>1 DEF KnownPlaces
  <2>4. open
    BY <1>7, <2>1 DEF Decode!Reserved1, Apart1, reg
  <2> QED
    BY <1>3, <2>2, <2>3, <2>4
<1>8. CASE op \in \h70 .. \h7F /\ m = \h00
  <2>1. id = MemberAt(32 + column)
    BY <1>1, <1>8, Id1Computed DEF id, column
  <2>2. 32 + column \in KnownPlaces
    BY <1>2 DEF KnownPlaces
  <2>3. open
    BY <1>8 DEF Decode!Reserved1, Apart1
  <2> QED
    BY <1>3, <2>1, <2>2, <2>3
<1>9. op \in \hD8 .. \hDF => id = Decode!FloatingPointId(op, m)
  BY <1>2 DEF Decode!Id1, id, row, column
<1>10. CASE \E k \in 0 .. 7 : op \in {\hD8, \hDA} /\ m = 8 * k
  <2>1. mod # 3 /\ m < \hC0
    BY <1>2, <1>10
  <2>2. open
    BY <1>10, <2>1 DEF Decode!Reserved1, Apart1, mod
  <2>3. id = MemberAt(48 + reg) \/ id = MemberAt(96 + reg)
    BY <1>1, <1>9, <1>10, <2>1, <2>2, FloatingPointIs DEF reg, mod
  <2>4. 48 + reg \in KnownPlaces /\ 96 + reg \in KnownPlaces
    BY <1>2 DEF KnownPlaces
  <2> QED
    BY <1>3, <2>2, <2>3, <2>4
<1>11. CASE op = \hD9 /\ m \in {\h00, \h10, \h18}
  <2>1. mod # 3 /\ reg \in {0, 2, 3}
    BY <1>2, <1>11
  <2>2. open
    BY <1>11, <2>1 DEF Decode!Reserved1, Apart1, mod, reg
  <2>3. id = MemberAt(56 + reg)
    BY <1>1, <1>9, <1>11, <2>1, <2>2, FloatingPointIs DEF reg, mod
  <2>4. 56 + reg \in KnownPlaces
    BY <2>1 DEF KnownPlaces
  <2> QED
    BY <1>3, <2>2, <2>3, <2>4
<1>12. CASE op = \hD9 /\ m = \hC8
  <2>1. mod = 3
    BY <1>2, <1>12
  <2>2. open
    BY <1>12, <2>1 DEF Decode!Reserved1, Apart1, mod
  <2>3. id = "FXCH"
    BY <1>1, <1>9, <1>12, <2>1, <2>2, FloatingPointIs DEF mod
  <2> QED
    BY <2>2, <2>3 DEF Known, KnownNames
<1>13. CASE \E k \in 0 .. 3 : op = \hDB /\ m = 8 * k
  <2>1. mod # 3 /\ m < \hC0 /\ reg \in 0 .. 3
    BY <1>2, <1>13
  <2>2. open
    BY <1>13, <2>1 DEF Decode!Reserved1, Apart1, mod, reg
  <2>3. id = MemberAt(108 + reg)
    BY <1>1, <1>9, <1>13, <2>1, <2>2, FloatingPointIs DEF reg, mod
  <2>4. 108 + reg \in KnownPlaces
    BY <2>1 DEF KnownPlaces
  <2> QED
    BY <1>3, <2>2, <2>3, <2>4
<1>14. CASE op \in {\h50, \h85, \h87, \h89, \h8F, \hC3, \hE9, \hEC} /\ m = \hC0
  <2>1. reg = 0 /\ mod = 3
    BY <1>2, <1>14
  <2>2. open
    BY <1>14, <2>1 DEF Decode!Reserved1, Apart1, mod, reg
  <2>3. id \in {"PUSH", "TEST", "XCHG", "MOV", "POP", "RET", "JMP", "IN"}
    <3>1. CASE op = \h50
      BY <1>2, <3>1 DEF Decode!Id1, id, row, column
    <3>2. CASE op # \h50
      <4>1. id = Decode!Named1[op]
        BY <1>2, <1>14, <3>2 DEF Decode!Id1, id, row, column
      <4>2. op \in Decode!Byte
        BY <1>14 DEF Decode!Byte
      <4> QED
        BY <1>14, <3>2, <4>1, <4>2 DEF Decode!Named1
    <3> QED
      BY <3>1, <3>2
  <2>4. \/ id \in KnownNames
        \/ id = MemberAt(31) \/ id = MemberAt(17) \/ id = MemberAt(70) \/ id = MemberAt(29)
    BY <2>3, NamedMembers DEF KnownNames
  <2>5. {17, 29, 31, 70} \subseteq KnownPlaces
    BY DEF KnownPlaces
  <2>6. Known(id)
    BY <2>4, <2>5 DEF Known
  <2> QED
    BY <2>2, <2>6
<1> QED
  BY <1>4, <1>5, <1>6, <1>7, <1>8, <1>10, <1>11, <1>12, <1>13, <1>14 DEF Canonical1

(* ... and with one behind 0F. *)
LEMMA CanonicalKnown2 ==
  ASSUME NEW i, NEW op \in {\hA8, \hAB, \hAC, \hB0, \hB3, \hB6, \hBB, \hBE, \hC0}, NEW m \in Byte,
         i.op = op, i.modrm = m
  PROVE  Known(Decode!Id2(i))
<1> DEFINE row == Decode!Row(op)
           column == Decode!Column(op)
           id == Decode!Id2(i)
<1>1. op \in Byte /\ op \in Decode!Byte
  BY DEF Byte, Decode!Byte
<1>2. row \in 0 .. 15 /\ column \in 0 .. 15 /\ op = 16 * row + column
  BY <1>1, ByteParts
<1> HIDE DEF row, column, id
<1> SUFFICES Known(id)
  BY DEF id
<1>3. CASE op = \hB3
  <2>1. id = MemberAt(246 + (op - \hB2)) /\ 246 + (op - \hB2) = 247
    BY <1>1, <1>3, Id2Computed DEF id
  <2>2. 247 \in KnownPlaces
    BY DEF KnownPlaces
  <2> QED
    BY <2>1, <2>2, KnownPlace
<1>4. CASE op # \hB3
  <2>1. id = Decode!Named2[op]
    BY SMTT(60), <1>2, <1>4 DEF Decode!Id2, id, row, column
  <2>2. row \in {10, 11, 12}
    BY <1>2
  <2>3. id \in {"PUSH", "BTS", "SHRD", "CMPXCHG", "MOVZX", "BTC", "MOVSX", "XADD"}
    BY <1>1, <1>4, <2>1, <2>2 DEF Decode!Named2, row
  <2>4. id \in KnownNames \/ id = MemberAt(31) \/ id = MemberAt(251) \/ id = MemberAt(252)
    BY <2>3, NamedMembers DEF KnownNames
  <2>5. {31, 251, 252} \subseteq KnownPlaces
    BY DEF KnownPlaces
  <2> QED
    BY <2>4, <2>5 DEF Known
<1> QED
  BY <1>3, <1>4

(* So what is said of a canonical encoding is what is said of its id. *)
LEMMA CanonicalMeans ==
  ASSUME NEW c \in Canonical
  PROVE  Known(c.id) /\ Means(c.id, c.flags, c.access)
<1> DEFINE p == Decode!Prefixes(Followed(<<>>), 0)
           insn(e) == [map |-> e[1], op |-> e[2], operand |-> [modrm |-> e[3]], length |-> 0]
<1>1. PICK e \in CanonicalEncodings : c = Says(Decode!Described(insn(e), p))
  BY DEF Canonical
<1> HIDE DEF p
<1> DEFINE op == e[2]
           m == e[3]
           i == [map |-> e[1], op |-> op, modrm |-> m, p |-> p]
<1>2. /\ c.id = Decode!Id(i) /\ c.flags = Decode!CpuFlagsOf(i)
      /\ c.access = FirstAction(Decode!OperandsOf(i))
  <2>1. LET d == Decode!Described(insn(e), p)
        IN  /\ d.id = Decode!Id(i) /\ d.flags = Decode!CpuFlagsOf(i)
            /\ d.operands = Decode!OperandsOf(i)
    BY DEF Decode!Described
  <2> QED
    BY <1>1, <2>1 DEF Says, FirstAction
<1>3. \/ e[1] = "DEFAULT" /\ Canonical1(op, m)
      \/ /\ e[1] = "0F" /\ m = \hC0
         /\ op \in {\hA8, \hAB, \hAC, \hB0, \hB3, \hB6, \hBB, \hBE, \hC0}
  BY DEF CanonicalEncodings, Canonical1
<1>4. i.map = e[1] /\ i.op = op /\ i.modrm = m
  OBVIOUS
<1> HIDE DEF i
<1>5. CASE e[1] = "DEFAULT" /\ Canonical1(op, m)
  <2>1. /\ c.id = Decode!Id1(i) /\ c.flags = Decode!Flags1(i)
        /\ c.access = FirstAction(Decode!Operands1(i))
    BY <1>2, <1>4, <1>5 DEF Decode!Id, Decode!CpuFlagsOf, Decode!OperandsOf
  <2> HIDE DEF op, m
  <2>2. /\ op \in Byte /\ m \in Byte /\ ~Decode!Reserved1(op, m) /\ ~Apart1(op, Decode!Reg(m))
        /\ Known(Decode!Id1(i))
    BY <1>4, <1>5, CanonicalKnown1
  <2> QED
    BY <1>4, <2>1, <2>2, Means1
<1>6. CASE /\ e[1] = "0F" /\ m = \hC0
           /\ op \in {\hA8, \hAB, \hAC, \hB0, \hB3, \hB6, \hBB, \hBE, \hC0}
  <2>1. /\ c.id = Decode!Id2(i) /\ c.flags = Decode!Flags2(i)
        /\ c.access = FirstAction(Decode!Operands2(i))
    BY <1>2, <1>4, <1>6 DEF Decode!Id, Decode!CpuFlagsOf, Decode!OperandsOf
  <2>2. op \in Byte /\ m \in Byte /\ op # \hBA
    BY <1>6 DEF Byte
  <2> HIDE DEF op, m
  <2>3. Known(Decode!Id2(i))
    BY <1>4, <1>6, <2>2, CanonicalKnown2
  <2> QED
    BY <1>4, <2>1, <2>2, <2>3, Means2
<1> QED
  BY <1>3, <1>5, <1>6

(* The bit test group is two bytes of the code. *)
LEMMA StartsBitTest ==
  ASSUME Laid
  PROVE  Starts(<<\h0F, \hBA>>) <=> Memory[n] = \h0F /\ Memory[n + 1] = \hBA
<1>1. \A a, b : Starts(<<a, b>>) <=> Memory[n] = a /\ Memory[n + 1] = b
  BY StartsIs
<1> QED
  BY <1>1

(* What the decoder said of the code is what is said of its id. *)
LEMMA DecodedMeans ==
  ASSUME Answered, Complete, decoded.valid, ~Apart
  PROVE  Means(decoded.id, decoded.flags, Says(decoded).access)
<1> DEFINE insn == [map |-> DFound.map, op |-> DFound.op, modrm |-> DFound.operand.modrm, p |-> Dp]
           op == DFound.op
           m == DFound.operand.modrm
           Goal == Means(decoded.id, decoded.flags, Says(decoded).access)
<1>1. Laid /\ size \in Nat /\ n \in Int /\ Left \in 0 .. 15
  BY SMTT(60), LaidDown, LaidFacts, LeftIs DEF Answered
<1>2. DFound.valid
  BY <1>1, DecodedIs DEF Answered
<1>3. /\ decoded.id = Decode!Id(insn) /\ decoded.flags = Decode!CpuFlagsOf(insn)
      /\ Says(decoded).access = FirstAction(Decode!OperandsOf(insn))
  <2>1. decoded = Decode!Described(DFound, Dp)
    BY <1>1, DecodedOperands DEF Answered
  <2>2. /\ decoded.id = Decode!Id(insn) /\ decoded.flags = Decode!CpuFlagsOf(insn)
        /\ decoded.operands = Decode!OperandsOf(insn)
    BY <2>1 DEF Decode!Described
  <2> QED
    BY <2>2 DEF Says, FirstAction
<1>4. Memory[n] \in Byte /\ Memory[n + 1] \in Byte
  <2>1. Memory[n + 0] \in Byte /\ Memory[n + 1] \in Byte
    BY <1>1, LaidFacts
  <2> QED
    BY <1>1, <2>1
<1>5. insn.op = op /\ insn.map = DFound.map /\ insn.modrm = m /\ insn.p = Dp
  OBVIOUS
<1> HIDE DEF insn
<1> SUFFICES Goal
  OBVIOUS
<1> HIDE DEF Goal
<1>6. CASE /\ DFound.map = "DEFAULT" /\ op = Memory[n] /\ m \in Byte /\ ~Decode!Reserved1(op, m)
           /\ Memory[n] \in Format!Modrm1 => m = Memory[n + 1]
  <2>1. /\ decoded.id = Decode!Id1(insn) /\ decoded.flags = Decode!Flags1(insn)
        /\ Says(decoded).access = FirstAction(Decode!Operands1(insn))
    BY <1>3, <1>5, <1>6 DEF Decode!Id, Decode!CpuFlagsOf, Decode!OperandsOf
  <2>2. op \in (\h80 .. \h83) \cup {\hDD, \hDE, \hDF} => m = Memory[n + 1]
    BY <1>6 DEF Format!Modrm1
  <2>3. Decode!Reg(Memory[n + 1]) = Reg(Memory[n + 1])
    BY DEF Decode!Reg, Reg
  <2>4. /\ Memory[n] \notin (\h58 .. \h5F) \cup {\h84, \h69, \h6B, \hC2}
        /\ ~(Memory[n] \in \h80 .. \h83 /\ Reg(Memory[n + 1]) = 7)
        /\ ~(Memory[n] \in {\hDD, \hDF} /\ Reg(Memory[n + 1]) = 1)
        /\ ~(Memory[n] = \hDE /\ Reg(Memory[n + 1]) = 2)
    BY DEF Apart
  <2>5. ~Apart1(op, Decode!Reg(m))
    BY <1>6, <2>2, <2>3, <2>4 DEF Apart1
  <2>6. op \in Byte /\ m \in Byte /\ insn.op = op /\ insn.modrm = m /\ ~Decode!Reserved1(op, m)
    BY <1>4, <1>5, <1>6
  <2> HIDE DEF op, m
  <2>7. Means(Decode!Id1(insn), Decode!Flags1(insn), FirstAction(Decode!Operands1(insn)))
    BY <2>5, <2>6, Means1
  <2> QED
    BY <2>1, <2>7 DEF Goal
<1>7. CASE DFound.map = "0F" /\ Memory[n] = \h0F /\ op = Memory[n + 1] /\ m \in Byte
  <2>1. /\ decoded.id = Decode!Id2(insn) /\ decoded.flags = Decode!Flags2(insn)
        /\ Says(decoded).access = FirstAction(Decode!Operands2(insn))
    BY <1>3, <1>5, <1>7 DEF Decode!Id, Decode!CpuFlagsOf, Decode!OperandsOf
  <2>2. ~Starts(<<\h0F, \hBA>>)
    BY DEF Apart
  <2>3. op # \hBA
    <3>1. Starts(<<\h0F, \hBA>>) <=> Memory[n] = \h0F /\ Memory[n + 1] = \hBA
      BY <1>1, StartsBitTest
    <3> QED
      BY <1>7, <2>2, <3>1
  <2> HIDE DEF op, m
  <2>4. Means(Decode!Id2(insn), Decode!Flags2(insn), FirstAction(Decode!Operands2(insn)))
    BY <1>4, <1>5, <1>7, <2>3, Means2
  <2> QED
    BY <2>1, <2>4 DEF Goal
<1>8. CASE DFound.map \in {"0F38", "0F3A", "OTHER"}
  <2>1. decoded.id \in {"SIMD", "INVALID"}
    BY <1>3, <1>5, <1>8 DEF Decode!Id, Decode!SIMD, Decode!INVALID
  <2> QED
    BY <2>1, MeansOther DEF OtherNames, Goal
<1> QED
  BY <1>1, <1>2, <1>6, <1>7, <1>8, DecodedKind

(* So the encodings agree whenever the decoder has answered. *)
LEMMA AnswersMean == Answered => EncodingsAgree
<1> SUFFICES ASSUME Answered, Complete, decoded.valid, ~Apart, NEW c \in Canonical, c.id = decoded.id
             PROVE  /\ c.flags = decoded.flags
                    /\ {} \in {c.access, Says(decoded).access} \/ c.access = Says(decoded).access
  BY DEF EncodingsAgree
<1>1. Means(c.id, decoded.flags, Says(decoded).access)
  BY DecodedMeans
<1>2. Known(c.id) /\ Means(c.id, c.flags, c.access)
  BY CanonicalMeans
<1> QED
  BY <1>1, <1>2, SameMeaning

(* The encodings of an instruction agree: whichever of its tables the       *)
(* decoder has found the opcode in, the id it computes from the order of    *)
(* the members, the flags and what is done to the first operand belong      *)
(* together, but for the mistakes and exceptions listed under Apart.        *)
THEOREM EncodingsMeanTheSame == Spec => []EncodingsAgree
BY AnsweredAlways, AnswersMean, PTL
=============================================================================
