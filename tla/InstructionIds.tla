---------------------------- MODULE InstructionIds ----------------------------
(***************************************************************************)
(* The instruction id nmd_x86_decode gives to what it has decoded, in      *)
(* 64-bit mode.  Most ids are computed: a member of NMD_X86_INSTRUCTION    *)
(* plus the column of the opcode or the reg field of ModR/M, and so the id *)
(* relies on the order of the members.  Those of the instructions on       *)
(* vectors and on bounds are not told apart.                               *)
(*                                                                         *)
(* An instruction i: [op, modrm, p], p its prefixes (see Decoder).         *)
(***************************************************************************)
EXTENDS X86Encoding, Sequences

INVALID == "INVALID"                       (* NMD_X86_INSTRUCTION_INVALID *)
SIMD == "SIMD"

(* The members, in their order; those that only fill a gap, too.            *)
OpcodeGroups ==
  <<"ADD", "OR", "ADC", "SBB", "AND", "SUB", "XOR", "CMP",
    "ROL", "ROR", "RCL", "RCR", "SHL", "SHR", "AAA", "SAR",
    "TEST", "BLSFILL", "NOT", "NEG", "MUL", "IMUL", "DIV", "IDIV",
    "INC", "DEC", "CALL", "LCALL", "JMP", "LJMP", "PUSH">>
Jumps == <<"JO", "JNO", "JB", "JNB", "JZ", "JNZ", "JBE", "JA",
           "JS", "JNS", "JP", "JNP", "JL", "JGE", "JLE", "JG">>
FloatingPoint ==
  <<"FADD", "FMUL", "FCOM", "FCOMP", "FSUB", "FSUBR", "FDIV", "FDIVR",
    "FLD", "ADOX", "FST", "FSTP", "FLDENV", "FLDCW", "FNSTENV", "FNSTCW",
    "FCHS", "FABS", "AAS", "ADCX", "FTST", "FXAM", "RET", "ENTER",
    "FLD1", "FLDL2T", "FLDL2E", "FLDPI", "FLDLG2", "FLDLN2", "FLDZ", "FNOP",
    "F2XM1", "FYL2X", "FPTAN", "FPATAN", "FXTRACT", "FPREM1", "FDECSTP", "FINCSTP",
    "FPREM", "FYL2XP1", "FSQRT", "FSINCOS", "FRNDINT", "FSCALE", "FSIN", "FCOS",
    "FIADD", "FIMUL", "FICOM", "FICOMP", "FISUB", "FISUBR", "FIDIV", "FIDIVR",
    "FCMOVB", "FCMOVE", "FCMOVBE", "FCMOVU",
    "FILD", "FISTTP", "FIST", "FISTP", "FBLD", "AESKEYGENASSIST", "FBSTP", "ANDN",
    "FCMOVNB", "FCMOVNE", "FCMOVNBE", "FCMOVNU", "FNCLEX", "FUCOMI", "FCOMI",
    "FADDP", "FMULP", "MOVAPD", "BNDCN", "FSUBRP", "FSUBP", "FDIVRP", "FDIVP">>
Rows13To15 ==
  <<"INT1", "BSR", "ADDSUBPD", "HLT", "CMC", "ADDSUBPS", "BLENDVPD",
    "CLC", "STC", "CLI", "STI", "CLD", "STD",
    "AAM", "AAD", "SALC", "XLAT", "LOOPNE", "LOOPE", "LOOP", "JRCXZ">>
SystemGroups ==
  <<"SLDT", "STR", "LLDT", "LTR", "VERR", "VERW",
    "SGDT", "SIDT", "LGDT", "LIDT", "SMSW", "CLWB", "LMSW", "INVLPG",
    "VMCALL", "VMLAUNCH", "VMRESUME", "VMXOFF",
    "MONITOR", "MWAIT", "CLAC", "STAC", "CBW", "CMPSB", "CMPSQ", "ENCLS",
    "XGETBV", "XSETBV", "ARPL", "BEXTR", "VMFUNC", "XEND", "XTEST", "ENCLU",
    "VMRUN", "VMMCALL", "VMLOAD", "VMSAVE", "STGI", "CLGI", "SKINIT", "INVLPGA",
    "LAR", "LSL", "BLCFILL", "SYSCALL", "CLTS", "SYSRET", "INVD", "WBINVD",
    "BLCI", "UD2", "PREFETCHW", "FEMMS",
    "WRMSR", "RDTSC", "RDMSR", "RDPMC", "SYSENTER", "SYSEXIT", "BLCIC", "GETSEC">>
Conditional ==
  <<"CMOVO", "CMOVNO", "CMOVB", "CMOVAE", "CMOVE", "CMOVNE", "CMOVBE", "CMOVA",
    "CMOVS", "CMOVNS", "CMOVP", "CMOVNP", "CMOVL", "CMOVGE", "CMOVLE", "CMOVG",
    "SETO", "SETNO", "SETB", "SETAE", "SETE", "SETNE", "SETBE", "SETA",
    "SETS", "SETNS", "SETP", "SETNP", "SETL", "SETGE", "SETLE", "SETG",
    "LSS", "BTR", "LFS", "LGS", "BT", "BTC", "BTS">>
AroundCpuid == <<"CPUID", "BLCMSK", "PMULDQ", "PCMPEQQ">>
Members == OpcodeGroups \o Jumps \o FloatingPoint \o Rows13To15 \o SystemGroups
             \o Conditional \o AroundCpuid
Place == [name \in {Members[k] : k \in DOMAIN Members} |->
            CHOOSE k \in DOMAIN Members : Members[k] = name]

(* NMD_X86_INSTRUCTION_<name> + k                                           *)
Plus(name, k) == Members[Place[name] + k]
Sized(i, w, d, q) ==
  IF OPSIZE \in i.p.seen THEN w ELSE IF i.p.rex_w_prefix THEN q ELSE d

-----------------------------------------------------------------------------
(* The escape opcodes.  The offset for operands that are registers takes    *)
(* its low bit from the opcode, where it is always set, instead of the      *)
(* ModR/M byte.                                                             *)
OfRegisters(modrm) == 2 * (Row(modrm) - 12) + 1
FloatingPointId(op, m) ==
  LET reg == Reg(m)
      registers == Mod(m) = 3
  IN  CASE op = \hD8 -> Plus("FADD", IF registers THEN OfRegisters(m) ELSE reg)
        [] op = \hD9 /\ ~registers -> Plus("FLD", reg)
        [] op = \hD9 /\ m \in \hC0 .. \hC7 -> "FLD"
        [] op = \hD9 /\ m \in \hC8 .. \hCF -> "FXCH"
        [] op = \hD9 /\ m = \hD0 -> "FNOP"
        [] op = \hD9 /\ m \in \hD8 .. \hDF -> "FSTPNCE"
        [] op = \hD9 /\ m >= \hE0 -> Plus("FCHS", m - \hE0)
        [] op \in {\hDA, \hDE} /\ ~registers -> Plus("FIADD", reg)
        [] op = \hDA /\ registers ->
             IF m = \hE9 THEN "FUCOMPP" ELSE Plus("FCMOVB", OfRegisters(m))
        [] op \in {\hDB, \hDF} /\ ~registers ->
             CASE op = \hDB /\ reg = 5 -> "FLD"
               [] op = \hDB /\ reg = 7 -> "FSTP"
               [] op = \hDF /\ reg = 5 -> "FILD"
               [] op = \hDF /\ reg = 7 -> "FISTP"
               [] OTHER -> Plus("FILD", reg)
        [] op = \hDB /\ registers ->
             IF m = \hE2 THEN "FNCLEX" ELSE Plus("FCMOVNB", OfRegisters(m))
        [] op = \hDC ->
             Plus("FADD", IF registers
                            THEN 2 * (Row(m) - 12)
                                 + (IF Column(m) >= 8 /\ Row(m) <= 13 THEN 1 ELSE 0)
                            ELSE reg)
        [] op = \hDD ->
             IF registers
               THEN <<"FFREE", "FXCH", "FST", "FSTP", "FUCOM", "FUCOMP">>[reg + 1]
               ELSE <<"FLD", "FISTTP", "FST", "FSTP", "FRSTOR", INVALID, "FNSAVE",
                      "FNSTSW">>[reg + 1]
        [] op = \hDE /\ registers ->
             CASE m = \hD9 -> "FCOMPP"
               [] m \in \hD0 .. \hD7 -> "FCOMP"
               [] OTHER -> Plus("FADDP", OfRegisters(m))
        [] op = \hDF /\ registers ->
             CASE reg = 0 -> "FFREEP"
               [] reg = 1 -> "FXCH"
               [] reg \in {2, 3} -> "FSTP"
               [] m = \hE0 -> "FNSTSW"
               [] reg = 6 -> "FCOMIP"
               [] OTHER -> "FUCOMIP"

(* One-byte opcodes.                                                        *)
Named1 ==
  [op \in Byte |->
     CASE op \in {\h8F} -> "POP"        [] op \in {\h85, \hA8, \hA9} -> "TEST"
       [] op \in {\h69, \h6B} -> "IMUL" [] op = \h63 -> "MOVSXD"
       [] op \in {\h68, \h6A} -> "PUSH" [] op \in {\hE8} -> "CALL"
       [] op \in {\hE9, \hEB} -> "JMP"  [] op \in {\hC2, \hC3} -> "RET"
       [] op \in {\h86, \h87} \cup (\h91 .. \h97) -> "XCHG"
       [] op \in (\h88 .. \h8C) \cup {\h8E} \cup (\hA0 .. \hA3) \cup (\hB0 .. \hBF) -> "MOV"
       [] op = \h8D -> "LEA"   [] op = \hCC -> "INT3"  [] op = \hCD -> "INT"
       [] op = \h6C -> "INSB"  [] op = \h6E -> "OUTSB" [] op = \hC8 -> "ENTER"
       [] op = \hC9 -> "LEAVE" [] op = \h9B -> "FWAIT" [] op = \h9E -> "SAHF"
       [] op = \h9F -> "LAHF"  [] op = \hA4 -> "MOVSB" [] op = \hA6 -> "CMPSB"
       [] op = \hAA -> "STOSB" [] op = \hAC -> "LODSB" [] op = \hAE -> "SCASB"
       [] op \in {\hCA, \hCB} -> "RETF"
       [] op \in {\hE4, \hE5, \hEC, \hED} -> "IN"
       [] op \in {\hE6, \hE7, \hEE, \hEF} -> "OUT"
       [] OTHER -> INVALID]
SizedId(i) ==
  CASE i.op = \h6D -> Sized(i, "INSW", "INSD", "INSD")
    [] i.op = \h6F -> Sized(i, "OUTSW", "OUTSD", "OUTSD")
    [] i.op = \h9C -> Sized(i, "PUSHF", "PUSHFQ", "PUSHFQ")
    [] i.op = \h9D -> Sized(i, "POPF", "POPFQ", "POPFQ")
    [] i.op = \hA5 -> Sized(i, "MOVSW", "MOVSD", "MOVSQ")
    [] i.op = \hA7 -> Sized(i, "CMPSW", "CMPSD", "CMPSQ")
    [] i.op = \hAB -> Sized(i, "STOSW", "STOSD", "STOSQ")
    [] i.op = \hAD -> Sized(i, "LODSW", "LODSD", "LODSQ")
    [] i.op = \hAF -> Sized(i, "SCASW", "SCASD", "SCASQ")
    [] i.op = \h98 -> IF i.p.rexW THEN "CDQE" ELSE Sized(i, "CBW", "CWDE", "CWDE")
    [] i.op = \h99 -> IF i.p.rexW THEN "CQO" ELSE Sized(i, "CWD", "CDQ", "CDQ")
    [] i.op = \hCF -> IF i.p.rex_w_prefix THEN "IRETQ" ELSE Sized(i, "IRET", "IRETD", "IRETD")

(* The bug EncodingsAgree guards against: the eight rows of the first four  *)
(* lines of the map are not two to a line.                                  *)
Id1RowsApart(i) ==
  IF Row(i.op) < 4 /\ i.op % 8 < 6
    THEN Plus("ADD", Row(i.op) + (IF Column(i.op) >= 8 THEN 4 ELSE 0))
    ELSE Named1[i.op]
Id1(i) ==
  LET op == i.op
      reg == Reg(i.modrm)
  IN  CASE Row(op) < 4 /\ op % 8 < 6 ->
             Plus("ADD", 2 * Row(op) + (IF Column(op) >= 8 THEN 1 ELSE 0))
        [] op \in \h80 .. \h84 -> Plus("ADD", reg)
        [] Row(op) = 5 -> IF Column(op) < 8 THEN "PUSH" ELSE "POP"
        [] Row(op) = 7 -> Plus("JO", Column(op))
        [] op = \hFF -> Plus("INC", reg)
        [] op = \hFE -> IF reg = 0 THEN "INC" ELSE "DEC"
        [] op = \h90 -> CASE REP \in i.p.seen -> "PAUSE"
                          [] REP \notin i.p.seen /\ i.p.rexB -> "XCHG"
                          [] OTHER -> "NOP"
        [] op \in {\hC0, \hC1} \cup (\hD0 .. \hD3) -> Plus("ROL", reg)
        [] op \in {\hF6, \hF7} -> Plus("TEST", reg)
        [] op \in {\hC6, \hC7} ->
             IF reg = 0 THEN "MOV" ELSE IF op = \hC6 THEN "XABORT" ELSE "XBEGIN"
        [] Row(op) = 15 /\ op % 8 < 6 -> Plus("INT1", op - \hF1)
        [] op = \hD7 -> Plus("AAM", op - \hD4)
        [] op \in \hE0 .. \hE3 -> Plus("LOOPNE", op - \hE0)
        [] op \in \hD8 .. \hDF -> FloatingPointId(op, i.modrm)
        [] op \in {\h6D, \h6F, \h98, \h99, \h9C, \h9D, \hA5, \hA7, \hAB, \hAD, \hAF, \hCF} ->
             SizedId(i)
        [] OTHER -> Named1[op]

-----------------------------------------------------------------------------
(* Opcodes behind 0F.  Bit tests and double shifts, A3 to A5, are taken for *)
(* neighbours of CPUID, and the SETcc and group 15 get no id at all.        *)
SystemId(m) ==
  IF Mod(m) # 3 THEN Plus("SGDT", Reg(m))
  ELSE CASE Reg(m) < 4 -> Plus(<<"VMCALL", "MONITOR", "XGETBV", "VMRUN">>[Reg(m) + 1], Rm(m))
         [] Reg(m) = 4 -> "SMSW"
         [] Reg(m) = 5 -> INVALID
         [] Reg(m) = 6 -> "LMSW"
         [] Reg(m) = 7 -> IF Rm(m) = 0 THEN "SWAPGS" ELSE "RDTSCP"
Group9Id(i) ==
  LET register == Mod(i.modrm) = 3
  IN  CASE Reg(i.modrm) = 1 -> IF i.p.rex_w_prefix THEN "CMPXCHG16B" ELSE "CMPXCHG8B"
        [] Reg(i.modrm) = 7 ->
             IF ~register THEN "VMPTRST" ELSE IF i.p.simd = REP THEN "RDPID" ELSE "RDSEED"
        [] OTHER ->
             CASE register -> "RDRAND"
               [] ~register /\ i.p.simd = OPSIZE -> "VMCLEAR"
               [] ~register /\ i.p.simd = REP -> "VMXON"
               [] OTHER -> "VMPTRLD"
HintId(op, m) ==
  CASE op = \h1E /\ m = \hFA -> "ENDBR64"
    [] op = \h1E /\ m = \hFB -> "ENDBR32"
    [] op = \h18 /\ Reg(m) < 4 ->
         <<"PREFETCHNTA", "PREFETCHT0", "PREFETCHT1", "PREFETCHT2">>[Reg(m) + 1]
    [] OTHER -> "NOP"
Named2 ==
  [op \in Byte |->
     CASE op \in {\hA0, \hA8} -> "PUSH"       [] op \in {\hA1, \hA9} -> "POP"
       [] op \in \h20 .. \h23 -> "MOV"        [] op = \hAF -> "IMUL"
       [] op \in {\hB0, \hB1} -> "CMPXCHG"    [] op \in {\hC0, \hC1} -> "XADD"
       [] op \in {\hAC, \hAD} -> "SHRD"       [] op \in {\hB6, \hB7} -> "MOVZX"
       [] op \in {\hBE, \hBF} -> "MOVSX"      [] op \in \hC8 .. \hCF -> "BSWAP"
       [] op = \h05 -> "SYSCALL" [] op = \h77 -> "EMMS"   [] op = \h0E -> "FEMMS"
       [] op = \hAA -> "RSM"     [] op = \hAB -> "BTS"    [] op = \hB8 -> "POPCNT"
       [] op = \hB9 -> "UD1"     [] op = \hBB -> "BTC"    [] op = \hFF -> "UD0"
       [] op = \hC2 \/ op \in (\hC3 .. \hC6) \cup (\hD0 .. \hFE) -> SIMD
       [] op \in (\h10 .. \h17) \cup {\h1A, \h1B} \cup (\h28 .. \h2F) -> SIMD
       [] Row(op) \in {5, 6} \/ op \in (\h70 .. \h76) \cup {\h7C, \h7D, \h7E, \h7F} -> SIMD
       [] OTHER -> INVALID]
Id2(i) ==
  LET op == i.op
      reg == Reg(i.modrm)
  IN  CASE Row(op) = 8 -> Plus("JO", Column(op))
        [] op \in \hA2 .. \hA5 -> Plus("CPUID", op - \hA2)
        [] Row(op) = 4 -> Plus("CMOVO", Column(op))
        [] op = \h00 -> Plus("SLDT", reg)
        [] op = \h01 -> SystemId(i.modrm)
        [] op \in (\h02 .. \h0B) \ {\h05} -> Plus("LAR", op - 2)
        [] op \in {\h18, \h19} \cup (\h1C .. \h1F) -> HintId(op, i.modrm)
        [] Row(op) = 3 -> Plus("WRMSR", Column(op))
        [] op \in {\h78, \h79} ->
             CASE i.p.simd \in {OPSIZE, REPNE} -> SIMD
               [] OTHER -> IF op = \h78 THEN "VMREAD" ELSE "VMWRITE"
        [] op \in \hB2 .. \hB5 -> Plus("LSS", op - \hB2)
        [] op = \hBA -> <<"BT", "BTS", "BTR", "BTC">>[reg - 3]
        [] op = \hBC -> IF i.p.simd = REP THEN "BSF" ELSE "TZCNT"
        [] op = \hBD -> IF i.p.simd = REP THEN "BSR" ELSE "LZCNT"
        [] op = \hC7 -> Group9Id(i)
        [] OTHER -> Named2[op]

(* NMD_X86_DECODER_FLAGS_INSTRUCTION_ID; behind 0F 38 and 0F 3A: MOVBE,     *)
(* CRC32, the VMX invalidations and ADX, all with one encoding, and vectors. *)
Id(i) ==
  CASE i.map = "DEFAULT" -> Id1(i)
    [] i.map = "0F" -> Id2(i)
    [] i.map \in {"0F38", "0F3A"} -> SIMD
    [] i.map = "OTHER" -> INVALID
=============================================================================
