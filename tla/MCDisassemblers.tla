--------------------------- MODULE MCDisassemblers ---------------------------
(***************************************************************************)
(* Instances of Disassemblers for TLC: every opcode of the maps, operands  *)
(* with and without a SIB byte and a displacement, every reg field, and    *)
(* registers from each of the groups the tables tell apart.                *)
(***************************************************************************)
EXTENDS Disassemblers

Escapes == {\h0F, \hC4, \hC5}
MCOpcodes ==
  {<<op>> : op \in {b \in Byte \ Escapes : ~IsPrefix(b)}}
    \cup {<<\h0F, op>> : op \in Byte \ {\h38, \h3A}}
    \cup {<<\h0F, \h38, op>> : op \in {\h00, \h10, \h1E, \h36, \h80, \hC8, \hF0, \hF5,
                                       \hF6, \hF9, \hFF}}
    \cup {<<\h0F, \h3A, op>> : op \in {\h08, \h0F, \hCC, \hFF}}
    \cup {<<\hC5, \hF8, op>> : op \in {\h28, \h58, \h70, \h77, \hC6}}
    \cup {<<\hC4, map, \h78, op>> : map \in {\hE1, \hE2, \hE3},
                                    op \in {\h0C, \h17, \h28, \h58, \h77}}
    \cup {<<\hC5, \h78>>, <<\hC4, \h02>>}

Pairs(modrms, sibs) == {<<m, s>> : m \in modrms, s \in sibs}
MCOperands(left) ==
  IF left > 0
    THEN Pairs({\h00, \h04, \h05, \h0D, \h15, \h1C, \h25, \h2D, \h35, \h3D, \h44, \h85},
               {\h00, \h05})
         \cup Pairs({\hC0, \hC8, \hCE, \hD1, \hD8, \hE2, \hE9, \hEE, \hF0, \hF8, \hFD}, {\h00})
    ELSE Pairs({\h0C, \h85, \hC8, \hFD}, {\h05})
MCPrefixBytes == {OPSIZE, REP, REPNE, LOCK, ADDRSIZE, \h48, \h41}

(* A page; an instruction too long; a buffer that cuts the operands off, or *)
(* ends within the prefixes.                                                *)
MCContexts == {[padding |-> 0, size |-> 4096, prefixes |-> 2]}
  \cup [padding : {11, 12, 14, 15}, size : {4096}, prefixes : {0}]
  \cup [padding : {0, 5}, size : 1 .. 4, prefixes : {0}]
=============================================================================
