-------------------------- MODULE InstructionFormat --------------------------
(***************************************************************************)
(* How long the instructions of 64-bit mode are, by the format and the     *)
(* opcode maps of the processor manual: the reference the disassemblers    *)
(* are held against.  The tables are those of the manual, by the kind of   *)
(* operand (Ib a byte, Iz a word or doubleword, Iv also a quadword, J a    *)
(* branch distance, O an address), not those of the code.                  *)
(***************************************************************************)
EXTENDS X86Encoding

(* Columns of the first four rows of the one-byte map, the arithmetic ones. *)
Arithmetic(columns) == {16 * row + column : row \in 0 .. 3, column \in columns}

Modrm1 == Arithmetic((0 .. 3) \cup (8 .. 11)) \cup (\h80 .. \h8F)
  \cup {\h63, \h69, \h6B, \hC0, \hC1, \hC6, \hC7} \cup (\hD0 .. \hD3)
  \cup (\hD8 .. \hDF) \cup {\hF6, \hF7, \hFE, \hFF}
Ib1 == Arithmetic({4, 12}) \cup {\h6A, \h6B} \cup (\h70 .. \h7F)
  \cup {\h80, \h83, \hA8} \cup (\hB0 .. \hB7) \cup {\hC0, \hC1, \hC6, \hCD}
  \cup (\hE0 .. \hE7) \cup {\hEB}
Iz1 == Arithmetic({5, 13}) \cup {\h68, \h69, \h81, \hA9, \hC7}
Jz1 == {\hE8, \hE9}
Iv1 == \hB8 .. \hBF
Ov1 == \hA0 .. \hA3

Bare2 == (\h05 .. \h09) \cup {\h0B, \h0E} \cup (\h30 .. \h37) \cup {\h77}
  \cup (\h80 .. \h8F) \cup (\hA0 .. \hA2) \cup (\hA8 .. \hAA) \cup (\hC8 .. \hCF)
Ib2 == (\h70 .. \h73) \cup {\hA4, \hAC, \hBA, \hC2, \hC4, \hC5, \hC6}
MovControl2 == \h20 .. \h23     (* Their mod field is taken for 3.          *)

(* What lies in front of the opcode.  A REX prefix counts only right there. *)
Front(code) ==
  CHOOSE n \in 0 .. MaximumLength :
    /\ \A i \in 0 .. (n - 1) : IsPrefix(code[i])
    /\ n = MaximumLength \/ ~IsPrefix(code[n])

OperandSize(code, at) ==
  LET modrm == code[at]
      sib == Mod(modrm) # 3 /\ Rm(modrm) = 4
      base == IF sib THEN code[at + 1] % 8 ELSE Rm(modrm)
      disp == CASE Mod(modrm) = 0 -> IF base = 5 THEN 4 ELSE 0
                [] Mod(modrm) = 1 -> 1
                [] Mod(modrm) = 2 -> 4
                [] Mod(modrm) = 3 -> 0
  IN  1 + (IF sib THEN 1 ELSE 0) + disp

(* Each of these: the bytes up to the immediate, and those of the immediate.*)
Parts(fixed, immediate) == [fixed |-> fixed, immediate |-> immediate]

Parts1(code, n, seen, w) ==
  LET op == code[n]
      z == IF OPSIZE \in seen /\ ~w THEN 2 ELSE 4
      test == Reg(code[n + 1]) \in {0, 1}
  IN  Parts(1 + (IF op \in Modrm1 THEN OperandSize(code, n + 1) ELSE 0),
        CASE op \in Ib1 \/ (op = \hF6 /\ test) -> 1
          [] op \in Iz1 \/ (op = \hF7 /\ test) -> z
          [] op \in Jz1 -> 4
          [] op \in Iv1 -> IF w THEN 8 ELSE z
          [] op \in Ov1 -> IF ADDRSIZE \in seen THEN 4 ELSE 8
          [] op \in {\hC2, \hCA} -> 2
          [] op = \hC8 -> 3
          [] OTHER -> 0)

Parts2(code, n, seen) ==
  LET op == code[n + 1]
  IN  Parts(2 + CASE op \in Bare2 -> 0
                  [] op \in MovControl2 -> 1
                  [] OTHER -> OperandSize(code, n + 2),
            CASE op \in Ib2 -> 1
              [] op \in \h80 .. \h8F -> 4
              [] op = \h78 /\ seen \cap {OPSIZE, REPNE} # {} -> 2
              [] OTHER -> 0)

(* C5 stands for map 1, C4 names its map.                                   *)
PartsVex(code, n) ==
  LET header == IF code[n] = \hC5 THEN 2 ELSE 3
      map == IF code[n] = \hC5 THEN 1 ELSE code[n + 1] % 32
      op == code[n + header]
      bare == map = 1 /\ op = \h77
  IN  Parts(header + 1 + IF bare THEN 0 ELSE OperandSize(code, n + header + 1),
            IF map = 3 \/ (map = 1 /\ op \in Ib2) THEN 1 ELSE 0)

PartsAt(code, n, seen, w) ==
  IF code[n] \in {\hC4, \hC5} THEN PartsVex(code, n)
  ELSE IF code[n] # \h0F THEN Parts1(code, n, seen, w)
  ELSE CASE code[n + 1] = \h38 -> Parts(3 + OperandSize(code, n + 3), 0)
         [] code[n + 1] = \h3A -> Parts(3 + OperandSize(code, n + 3), 1)
         [] code[n + 1] = \h0F -> Parts(2 + OperandSize(code, n + 2), 1)
         [] OTHER -> Parts2(code, n, seen)

EncodedParts(code) ==
  LET n == Front(code)
      seen == {code[i] : i \in 0 .. (n - 1)}
      parts == PartsAt(code, n, seen, n > 0 /\ RexW(code[n - 1]))
  IN  [parts EXCEPT !.fixed = @ + n]
EncodedLength(code) == EncodedParts(code).fixed + EncodedParts(code).immediate
=============================================================================
