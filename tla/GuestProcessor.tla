--------------------------- MODULE GuestProcessor ---------------------------
(***************************************************************************)
(* What a processor promises the system that runs on it: an instruction    *)
(* happens at once, does what the manual says and touches nothing else.    *)
(* VmExits is shown to implement it: leaving to the driver on some         *)
(* instructions and coming back do not show.                               *)
(*                                                                         *)
(* What does show is written down here too:                                *)
(*  - when the driver takes the processor (Taken), CR0 and CR4 get the     *)
(*    bits VMX operation demands, CR4.VMXE among them, which nothing hides *)
(*    from a MOV from CR4 and VMXOFF leaves set; IA32_FEATURE_CONTROL is   *)
(*    locked; from then on a MOV to CR0 or CR4 that does not keep to those *)
(*    bits faults;                                                         *)
(*  - CPUID reports neither VMX nor a hypervisor;                          *)
(*  - MOV to CR3 drops bits 52 to 62, on which the processor would fault;  *)
(*  - the instructions the driver does not emulate may be passed over;     *)
(*  - the vector registers may be lost to code of the driver, which its    *)
(*    stub does not save, and so may the debug registers (DR7, DEBUGCTL),  *)
(*    where the VMCS does not keep them;                                   *)
(*  - VMXOFF, with which the driver takes a processor back, leaves it with *)
(*    the control registers and segment bases it had when it was taken,    *)
(*    and with the flags, selectors, limits of the descriptor tables and   *)
(*    debug registers of the host.                                         *)
(* After a fault the system is not followed any further.                   *)
(*                                                                         *)
(* A value has two words of 32 bits.  A word is the set of its bits that   *)
(* are one, of those the model keeps.                                      *)
(***************************************************************************)
EXTENDS Integers

CONSTANTS
  Bits,          (* The bits of a word: 0 .. 31 in the processor.          *)
  Msrs,          (* The indices of its model-specific registers.           *)
  BaseMsrs,      (* Those a VMCS has a field for, like MSR_GS_BASE.        *)
  FeatureControlMsr,  (* The index of IA32_FEATURE_CONTROL.                *)
  CrFixed,       (* For CR0 and CR4, word by word, the bits that must be   *)
                 (* one in VMX operation and those that may be.            *)
  CpuidResult,   (* The words of CPUID, by leaf and subleaf.               *)
  Features,      (* The optional instructions it has, like RDTSCP.         *)
  Instructions,  (* What the system may run.                               *)
  InitialState   (* The state in which the driver finds the processor.     *)

Word == SUBSET Bits
Value == [high : Word, low : Word]
Extended(word) == [high |-> {}, low |-> word]

RAX == 0
RCX == 1
RDX == 2
RBX == 3
RSP == 4
Registers == 0 .. 15
ControlRegisters == {0, 3, 4}

(* Registers the model keeps no value of, but whether it is the system's.   *)
Groups == {"rflags", "tables", "selectors", "debug", "vector"}

States == [gp : [Registers -> Value], cr : [ControlRegisters -> Value],
           msr : [Msrs -> Value], rip : Nat, faulted : BOOLEAN,
           lost : SUBSET Groups]

(* Bit 63 of what is moved to CR3 asks that nothing be invalidated and is   *)
(* not stored; bits 52 to 62 are reserved.                                  *)
Cr3Stored(v) == [v EXCEPT !.high = @ \ (20 .. 31)]
Stored(cr, v) == IF cr = 3 THEN Cr3Stored(v) ELSE v

(* What VMX operation allows in CR0 and CR4. *)
Allowed(cr, v) ==
  cr \in {0, 4} =>
    \A w \in {"high", "low"} : /\ CrFixed[cr][w].allowed_0 \subseteq v[w]
                               /\ v[w] \subseteq CrFixed[cr][w].allowed_1

(* The state after the driver has taken the processor. *)
VMXE == 13
LOCK == 0
VMXON_OUTSIDE_SMX == 2

Forced(cr, v) ==
  [w \in {"high", "low"} |->
     (v[w] \cup CrFixed[cr][w].allowed_0) \cap CrFixed[cr][w].allowed_1]

With(v, bits) == [v EXCEPT !.low = @ \cup bits]

Locked(v) == IF LOCK \in v.low THEN v ELSE With(v, {LOCK, VMXON_OUTSIDE_SMX})

TakenCr(cr) ==
  [cr EXCEPT ![0] = Forced(0, @), ![4] = With(Forced(4, @), {VMXE})]

TakenMsr(msr) == [msr EXCEPT ![FeatureControlMsr] = Locked(@)]

Taken(s) == [s EXCEPT !.cr = TakenCr(@), !.msr = TakenMsr(@)]

(* features.vmx and features.hypervisor of ecx. *)
FeatureInfo == {0}
Hidden(leaf, ecx) == IF leaf = FeatureInfo THEN ecx \ {5, 31} ELSE ecx

(* Between R8 and R15 and CR3, and from CR3 to RSP: emulated as no effect,  *)
(* or not, where the processor does not leave on them.                      *)
Unsupported(insn) ==
  \/ insn.op \in {"mov_to_cr", "mov_from_cr"} /\ insn.cr = 3 /\ insn.reg > 7
  \/ insn.op = "mov_from_cr" /\ insn.cr = 3 /\ insn.reg = RSP

(* The instructions that raise an exception instead. *)
Faults(s, insn) ==
  \/ insn.op = "feature" /\ insn.feature \notin Features
  \/ insn.op = "mov_to_cr" /\ ~Allowed(insn.cr, s.gp[insn.reg])
  \/ /\ insn.op = "wrmsr" /\ s.gp[RCX].low = FeatureControlMsr
     /\ LOCK \in s.msr[FeatureControlMsr].low

Completed(s, insn) ==
  LET next == [s EXCEPT !.rip = @ + insn.len]
      gp == s.gp
  IN  CASE insn.op = "load" -> [next EXCEPT !.gp[insn.reg] = insn.value]
        [] insn.op \in {"access", "feature", "vmx_instruction"} -> next
        [] insn.op = "cpuid" ->
             LET r == CpuidResult[<<gp[RAX].low, gp[RCX].low>>]
             IN  [next EXCEPT !.gp[RAX] = Extended(r.eax),
                              !.gp[RBX] = Extended(r.ebx),
                              !.gp[RCX] = Extended(Hidden(gp[RAX].low, r.ecx)),
                              !.gp[RDX] = Extended(r.edx)]
        [] insn.op = "rdmsr" ->
             [next EXCEPT !.gp[RAX] = Extended(s.msr[gp[RCX].low].low),
                          !.gp[RDX] = Extended(s.msr[gp[RCX].low].high)]
        [] insn.op = "wrmsr" ->
             [next EXCEPT !.msr[gp[RCX].low] =
                            [high |-> gp[RDX].low, low |-> gp[RAX].low]]
        [] insn.op = "mov_to_cr" ->
             [next EXCEPT !.cr[insn.cr] = Stored(insn.cr, gp[insn.reg])]
        [] insn.op = "mov_from_cr" ->
             [next EXCEPT !.gp[insn.reg] = s.cr[insn.cr]]
        [] insn.op = "vmxoff" ->
             [next EXCEPT !.cr = Taken(InitialState).cr,
                          !.msr = [m \in Msrs |-> IF m \in BaseMsrs
                                     THEN InitialState.msr[m] ELSE @[m]],
                          !.lost = @ \cup (Groups \ {"vector"})]

Effect(s, insn) ==
  IF Faults(s, insn) THEN [s EXCEPT !.faulted = TRUE] ELSE Completed(s, insn)

VARIABLE state

Init == state = InitialState

(* The system reads and writes only MSRs there are. *)
Proper(s, insn) ==
  insn.op \in {"rdmsr", "wrmsr"} => s.gp[RCX].low \in Msrs

(* At any time the driver may have run. *)
Losing(s) ==
  \E groups \in SUBSET {"debug", "vector"} :
    state' = [s EXCEPT !.lost = @ \cup groups]

Take == state = InitialState /\ state' = Taken(state)

Execute(insn) == Proper(state, insn) /\ Losing(Effect(state, insn))

PassOver(insn) ==
  Unsupported(insn) /\ Losing([state EXCEPT !.rip = @ + insn.len])

Forget == Losing(state)

Next ==
  \/ Take \/ Forget
  \/ \E insn \in Instructions : Execute(insn) \/ PassOver(insn)

Spec == Init /\ [][Next]_state
=============================================================================
