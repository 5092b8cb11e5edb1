------------------------------ MODULE VmExits ------------------------------
(***************************************************************************)
(* One processor from vmm_setup_stub through VMX operation to VMXOFF: the  *)
(* assembly stubs that save and restore the registers, vmexit_handler and  *)
(* the handler of each exit.  The processors do not share any of this, so  *)
(* one stands for all; the two exits of the hooking engine, which does     *)
(* share state, are modelled in HookEngine and here only as far as they    *)
(* go through vmexit_handler.                                              *)
(*                                                                         *)
(* RSP is in the register file only while the guest runs; between an exit  *)
(* and the next entry it is a field of the VMCS, as are RIP and the        *)
(* control registers.                                                      *)
(*                                                                         *)
(* At a breakpoint the processor goes on, if a debugger is there to let    *)
(* it, or stops.                                                           *)
(***************************************************************************)
EXTENDS Sequences, VmcsSetup

CONSTANTS
  Bits, Msrs, BaseMsrs, FeatureControlMsr, CrFixed, CpuidResult, Features,
  Instructions, InitialState,
                   (* See GuestProcessor.                                  *)
  Capabilities,    (* The processors the driver may find.                  *)
  SegmentState,    (* The segment registers and the descriptors.           *)
  BitmapRange,     (* The indices of MSRs the bitmaps cover.               *)
  None,
  MaxInstructions  (* Bound: how many instructions the guest runs.         *)

VARIABLES
  capabilities,  (* The MSRs that report what the processor can do.        *)
  at,            (* Where the processor is.                                *)
  gp,            (* Its registers,                                         *)
  cr, msr,       (* control registers and model-specific registers,        *)
  rip,           (* and instruction pointer, while the guest runs.         *)
  faulted,       (* An instruction has raised an exception.                *)
  lost,          (* What no longer holds the guest's values.               *)
  insn,          (* The instruction at rip, or None.                       *)
  executed,      (* How many the guest has started.                        *)
  stack,         (* What a stub has pushed; the VmexitGuestContext.        *)
  vmcs,          (* The fields that are set once.                          *)
  guest,         (* The fields of the guest that exits save.               *)
  exit,          (* exit_reason and exit_qualification.                    *)
  increment_rip, execute_vmxoff,  (* The locals of vmexit_handler.         *)
  stepping,      (* The monitor trap flag; the hooked page is accessible.  *)
  before         (* History: the state of the guest when it was left.      *)

P == INSTANCE GuestProcessor WITH
       state <- IF at \in {"guest", "off"}
                  THEN [gp |-> gp, cr |-> cr, msr |-> msr, rip |-> rip,
                        faulted |-> faulted, lost |-> lost]
                  ELSE before

(* What the driver finds, and the system runs. *)
ASSUME WordAssumption ==
  Bits \subseteq 0 .. 31 /\ {0, 2, 5, 13, 31} \subseteq Bits
ASSUME StateAssumption == InitialState \in P!States
ASSUME MsrAssumption ==
  /\ BaseMsrs \subseteq Msrs /\ BaseMsrs \subseteq BitmapRange
  /\ FeatureControlMsr \in (Msrs \cap BitmapRange) \ BaseMsrs

(* A bit that must be one may be, and VMX operation is possible. *)
ASSUME CrAssumption ==
  /\ \A r \in {0, 4}, word \in {"high", "low"} :
       /\ CrFixed[r][word].allowed_0 \in P!Word
       /\ CrFixed[r][word].allowed_0 \subseteq CrFixed[r][word].allowed_1
  /\ vmx_enable \in CrFixed[4]["low"].allowed_1
ASSUME CpuidAssumption ==
  \A leaf, subleaf \in P!Word :
    CpuidResult[<<leaf, subleaf>>] \in
      [eax : P!Word, ebx : P!Word, ecx : P!Word, edx : P!Word]
ASSUME InstructionAssumption ==
  \A i \in Instructions :
    /\ i.op \in {"load", "access", "feature", "cpuid", "rdmsr", "wrmsr",
                 "mov_to_cr", "mov_from_cr", "vmx_instruction", "vmxoff"}
    /\ i.len \in Nat \ {0}
    /\ i.op = "load" => i.reg \in P!Registers /\ i.value \in P!Value
    /\ i.op \in {"mov_to_cr", "mov_from_cr"} =>
         i.reg \in P!Registers /\ i.cr \in P!ControlRegisters
ASSUME NoneAssumption == None \notin Instructions
ASSUME FeatureAssumption == Features \subseteq {"rdtscp", "invpcid", "xsaves"}

(* What a processor may be asked, by the control word and the bit: what the *)
(* driver has no use for being without.                                     *)
ASSUME CapabilityAssumption ==
  \A c \in Capabilities :
    /\ \A word \in Words :
         RulingMsr(c, word).allowed_0 \subseteq RulingMsr(c, word).allowed_1
    /\ {"active_secondary_controls", "use_msr_bitmaps"}
         \subseteq RulingMsr(c, "primary").allowed_1
    /\ "host_address_space_size" \in RulingMsr(c, "exit").allowed_1
    /\ "ia32e_mode_guest" \in RulingMsr(c, "entry").allowed_1
    /\ {FeatureControl(f) : f \in Features}
         \subseteq RulingMsr(c, "secondary").allowed_1
ASSUME SegmentAssumption ==
  /\ \A g \in {"cs", "tr"} :
       /\ SegmentState.selector[g].table = 0
       /\ SegmentState.selector[g].index \in 1 .. 31
  /\ SegmentState.selector["ldtr"].table = 0
  /\ SegmentState.selector["ss"].rpl = SegmentState.selector["cs"].rpl

processor == <<gp, cr, msr, rip, faulted, lost>>
program == <<insn, executed>>
handler == <<increment_rip, execute_vmxoff>>
vars == <<capabilities, at, processor, program, stack, vmcs, guest, exit,
          handler, stepping, before>>

State == [gp |-> gp, cr |-> cr, msr |-> msr, rip |-> rip,
          faulted |-> faulted, lost |-> lost]

(* What a register holds when C code has run. *)
Clobbered == [r \in P!Registers |-> P!Extended({})]

Init ==
  /\ capabilities \in Capabilities
  /\ at = "setup"
  /\ gp = InitialState.gp /\ cr = InitialState.cr /\ msr = InitialState.msr
  /\ rip = InitialState.rip
  /\ faulted = InitialState.faulted /\ lost = InitialState.lost
  /\ insn = None /\ executed = 0
  /\ stack = <<>> /\ vmcs = None /\ guest = None
  /\ exit = None /\ increment_rip = FALSE /\ execute_vmxoff = FALSE
  /\ stepping = FALSE
  /\ before = InitialState

-----------------------------------------------------------------------------
(* The stubs. *)

(* The registers in the order of SAVE_GP, of RESTORE_GP, and of the members *)
(* of VmexitGuestContext.                                                   *)
SaveOrder == <<15, 14, 13, 12, 11, 10, 9, 8, 7, 6, 5, 3, 2, 1, 0>>
RestoreOrder == <<0, 1, 2, 3, 5, 6, 7, 8, 9, 10, 11, 12, 13, 14, 15>>
ContextOrder == <<0, 1, 2, 3, 5, 6, 7, 8, 9, 10, 11, 12, 13, 14, 15>>

(* The stack after the pushes, from its top. *)
Pushed(regs) ==
  [k \in 1 .. Len(SaveOrder) |-> regs[SaveOrder[Len(SaveOrder) + 1 - k]]]

(* The registers after the pops. *)
Popped(words, rsp) ==
  [r \in P!Registers |->
     IF r = P!RSP THEN rsp
     ELSE words[CHOOSE k \in DOMAIN RestoreOrder : RestoreOrder[k] = r]]

(* Where a member of the context is. *)
Member(r) == CHOOSE k \in DOMAIN ContextOrder : ContextOrder[k] = r

(* vmm_setup_stub saves the registers and calls processor_initialize_vmx,   *)
(* which adjusts the control registers, enables and enters VMX operation,   *)
(* and fills the VMCS with the registers as they are then.  VMXON faults if *)
(* IA32_FEATURE_CONTROL was locked without it, for which nothing looks.     *)
SetupStub ==
  LET adjusted == EnableVmx(AdjustControlRegisters(cr, CrFixed))
      enabled == [msr EXCEPT ![FeatureControlMsr] = EnableFeature(@)]
  IN  /\ at = "setup"
      /\ stack' = Pushed(gp)
      /\ gp' = [Clobbered EXCEPT ![P!RSP] = gp[P!RSP]]
      /\ cr' = adjusted
      /\ msr' = enabled
      /\ IF VmxonAccepted(CrFixed, adjusted, enabled[FeatureControlMsr])
           THEN /\ vmcs' = SetupVmcsFields(capabilities, SegmentState,
                             [State EXCEPT !.cr = adjusted, !.msr = enabled],
                             gp[P!RSP])
                /\ at' = "launch"
           ELSE at' = "vmxon_fault" /\ UNCHANGED vmcs
      /\ UNCHANGED <<capabilities, rip, faulted, lost, program, guest, exit,
                     handler, stepping, before>>

VmLaunch ==
  /\ at = "launch"
  /\ IF EntryAccepted(capabilities, CrFixed, vmcs)
       THEN at' = "entrypoint" ELSE at' = "launch_failed"
  /\ UNCHANGED <<capabilities, processor, program, stack, vmcs, guest, exit,
                 handler, stepping, before>>

(* vmm_entrypoint: the guest goes on where vmm_setup_stub was called. *)
Entrypoint ==
  /\ at = "entrypoint"
  /\ gp' = Popped(stack, vmcs.guest.rsp)
  /\ stack' = <<>>
  /\ at' = "guest"
  /\ UNCHANGED <<capabilities, cr, msr, rip, faulted, lost, program, vmcs,
                 guest, exit, handler, stepping, before>>

-----------------------------------------------------------------------------
(* The guest. *)

Secondary == IF Active(vmcs) THEN vmcs.controls["secondary"] ELSE {}

(* What makes an instruction leave to the driver.  "vmx_instruction" stands *)
(* for all that leave always and that vmexit_handler does not know, INVD    *)
(* and XSETBV among them.                                                   *)
ExitOf(i) ==
  LET reason(r) == [reason |-> r, cr |-> None, access |-> None, reg |-> None]
      crAccess(access) == [reason |-> "cr_access", cr |-> i.cr,
                           access |-> access, reg |-> i.reg]
      primary == vmcs.controls["primary"]
      msrExits == "use_msr_bitmaps" \notin primary
                    \/ gp[P!RCX].low \notin BitmapRange
  IN  CASE i.op = "cpuid" -> reason("cpuid")
        [] i.op = "vmxoff" -> reason("vmxoff")
        [] i.op = "vmx_instruction" -> reason("unknown")
        [] i.op = "mov_to_cr" /\ i.cr = 3 /\ "cr3_load_exiting" \in primary ->
             crAccess("MOV_TO_CR")
        [] i.op = "mov_from_cr" /\ i.cr = 3
             /\ "cr3_store_exiting" \in primary -> crAccess("MOV_FROM_CR")
        [] i.op = "rdmsr" /\ msrExits -> reason("msr_read")
        [] i.op = "wrmsr" /\ msrExits -> reason("msr_write")
        [] i.op = "access" /\ "enable_ept" \in Secondary /\ ~stepping ->
             reason("ept_violation")
        [] OTHER -> None

(* The optional instructions that do not raise #UD in the guest. *)
Enabled == {f \in Features : FeatureControl(f) \in Secondary}

Fetch ==
  /\ at = "guest" /\ insn = None /\ ~faulted /\ executed < MaxInstructions
  /\ \E i \in Instructions :
       /\ P!Proper(State, i)
       /\ insn' = i
  /\ executed' = executed + 1
  /\ UNCHANGED <<capabilities, at, processor, stack, vmcs, guest, exit,
                 handler, stepping, before>>

(* What the processor does on every exit: it saves the guest's registers    *)
(* that have fields, and loads the host's.                                  *)
Leave(s, reason) ==
  /\ at' = "exit"
  /\ exit' = reason
  /\ before' = s
  /\ guest' = [rsp |-> s.gp[P!RSP], rip |-> s.rip, cr |-> s.cr,
               base |-> [m \in BaseMsrs |-> s.msr[m]]]
  /\ gp' = s.gp
  /\ rip' = s.rip
  /\ cr' = vmcs.host.cr
  /\ msr' = [m \in Msrs |-> IF m \in BaseMsrs THEN vmcs.host.msr[m]
                            ELSE s.msr[m]]
  /\ faulted' = s.faulted
  /\ lost' = s.lost \cup (IF DebugKept(vmcs) THEN {} ELSE {"debug"})
  /\ UNCHANGED <<capabilities, executed, stack, vmcs, handler, stepping>>

(* The instruction runs; the monitor trap flag exits behind it. *)
Execute ==
  /\ at = "guest" /\ insn # None
  /\ ExitOf(insn) = None
  /\ LET s == IF insn.op = "feature"
                THEN IF insn.feature \in Enabled
                       THEN [State EXCEPT !.rip = @ + insn.len]
                       ELSE [State EXCEPT !.faulted = TRUE]
                ELSE P!Effect(State, insn)
     IN  IF stepping
           THEN Leave(s, [reason |-> "monitor_trap_flag", cr |-> None,
                          access |-> None, reg |-> None])
           ELSE /\ gp' = s.gp /\ cr' = s.cr /\ msr' = s.msr /\ rip' = s.rip
                /\ faulted' = s.faulted /\ lost' = s.lost
                /\ UNCHANGED <<capabilities, at, executed, stack, vmcs,
                               guest, exit, handler, stepping, before>>
  /\ insn' = None

VmExit ==
  /\ at = "guest" /\ insn # None
  /\ ExitOf(insn) # None
  /\ Leave(State, ExitOf(insn))
  /\ UNCHANGED insn

-----------------------------------------------------------------------------
(* The driver. *)

(* vmexit_stub up to the call of vmexit_handler, whose code may use vector  *)
(* registers.                                                               *)
SaveGp ==
  /\ at = "exit"
  /\ stack' = Pushed(gp)
  /\ gp' = Clobbered
  /\ increment_rip' = TRUE
  /\ execute_vmxoff' = FALSE
  /\ lost' \in {lost, lost \cup {"vector"}}
  /\ at' = "handler"
  /\ UNCHANGED <<capabilities, cr, msr, rip, faulted, program, vmcs, guest,
                 exit, stepping, before>>

Handling(reason) == at = "handler" /\ exit.reason = reason
Handled == at' = "handled"
HandledOrStopped == at' \in {"handled", "stopped"}
unhandled == <<capabilities, gp, cr, rip, faulted, lost, program, vmcs, exit,
               before>>

(* The members of the context that cpuid and rdmsr write. *)
CpuidHandler ==
  /\ Handling("cpuid")
  /\ LET leaf == stack[Member(P!RAX)].low
         r == CpuidResult[<<leaf, stack[Member(P!RCX)].low>>]
         ecx == IF leaf = {0} THEN r.ecx \ {5, 31} ELSE r.ecx
     IN  stack' = [stack EXCEPT ![Member(P!RAX)] = P!Extended(r.eax),
                                ![Member(P!RBX)] = P!Extended(r.ebx),
                                ![Member(P!RCX)] = P!Extended(ecx),
                                ![Member(P!RDX)] = P!Extended(r.edx)]
  /\ increment_rip' = TRUE
  /\ Handled
  /\ UNCHANGED <<unhandled, msr, guest, execute_vmxoff, stepping>>

(* An operand the first switch does not know: the handler returns. *)
CrAccessUnknownRegister ==
  /\ Handling("cr_access") /\ exit.reg \notin 0 .. 7
  /\ HandledOrStopped
  /\ UNCHANGED <<unhandled, msr, stack, guest, handler, stepping>>

CrAccessTo ==
  /\ Handling("cr_access") /\ exit.reg \in 0 .. 7 /\ exit.access = "MOV_TO_CR"
  /\ LET v == IF exit.reg = P!RSP THEN guest.rsp ELSE stack[Member(exit.reg)]
     IN  guest' = [guest EXCEPT !.cr[exit.cr] =
                     IF exit.cr = 3 THEN [v EXCEPT !.high = @ \cap 0 .. 19]
                                    ELSE v]
  /\ increment_rip' = TRUE
  /\ Handled
  /\ UNCHANGED <<unhandled, msr, stack, execute_vmxoff, stepping>>

(* RSP is read into a local, which is only written back if the control      *)
(* register is CR4, whatever the operand.                                   *)
CrAccessFrom ==
  /\ Handling("cr_access") /\ exit.reg \in 0 .. 7 /\ exit.access = "MOV_FROM_CR"
  /\ stack' = IF exit.reg = P!RSP THEN stack
              ELSE [stack EXCEPT ![Member(exit.reg)] = guest.cr[exit.cr]]
  /\ guest' = IF exit.cr # 4 THEN guest
              ELSE [guest EXCEPT !.rsp =
                      IF exit.reg = P!RSP THEN guest.cr[4] ELSE P!Extended({})]
  /\ increment_rip' = TRUE
  /\ Handled
  /\ UNCHANGED <<unhandled, msr, execute_vmxoff, stepping>>

(* The hooking engine makes the page accessible and sets the monitor trap   *)
(* flag; both of its handlers begin with a breakpoint.                      *)
EptViolationHandler ==
  /\ Handling("ept_violation")
  /\ stepping' = TRUE
  /\ increment_rip' = FALSE
  /\ HandledOrStopped
  /\ UNCHANGED <<unhandled, msr, stack, guest, execute_vmxoff>>

MtfHandler ==
  /\ Handling("monitor_trap_flag")
  /\ stepping' = FALSE
  /\ increment_rip' = FALSE
  /\ HandledOrStopped
  /\ UNCHANGED <<unhandled, msr, stack, guest, execute_vmxoff>>

ReadMsrHandler ==
  /\ Handling("msr_read")
  /\ LET v == msr[stack[Member(P!RCX)].low]
     IN  stack' = [stack EXCEPT ![Member(P!RAX)] = P!Extended(v.low),
                                ![Member(P!RDX)] = P!Extended(v.high)]
  /\ increment_rip' = TRUE
  /\ Handled
  /\ UNCHANGED <<unhandled, msr, guest, execute_vmxoff, stepping>>

WriteMsrHandler ==
  /\ Handling("msr_write")
  /\ msr' = [msr EXCEPT ![stack[Member(P!RCX)].low] =
               [high |-> stack[Member(P!RDX)].low,
                low |-> stack[Member(P!RAX)].low]]
  /\ increment_rip' = TRUE
  /\ Handled
  /\ UNCHANGED <<unhandled, stack, guest, execute_vmxoff, stepping>>

VmxOff ==
  /\ Handling("vmxoff")
  /\ increment_rip' = TRUE
  /\ execute_vmxoff' = TRUE
  /\ Handled
  /\ UNCHANGED <<unhandled, msr, stack, guest, stepping>>

UnknownReason ==
  /\ Handling("unknown")
  /\ HandledOrStopped
  /\ UNCHANGED <<unhandled, msr, stack, guest, handler, stepping>>

(* The end of vmexit_handler. *)
IncrementRip ==
  /\ at = "handled"
  /\ guest' = IF increment_rip
                THEN [guest EXCEPT !.rip = @ + insn.len] ELSE guest
  /\ at' = IF execute_vmxoff THEN "vmxoff_handler" ELSE "resume"
  /\ UNCHANGED <<capabilities, processor, program, stack, vmcs, exit, handler,
                 stepping, before>>

(* The rest of vmexit_stub: the registers come from the stack, what has     *)
(* fields from the VMCS.  An instruction that was not passed over is        *)
(* fetched again. *)
VmResume ==
  /\ at = "resume"
  /\ gp' = Popped(stack, guest.rsp)
  /\ rip' = guest.rip
  /\ cr' = guest.cr
  /\ msr' = [m \in Msrs |-> IF m \in BaseMsrs THEN guest.base[m] ELSE msr[m]]
  /\ insn' = IF guest.rip = before.rip THEN insn ELSE None
  /\ stack' = <<>>
  /\ at' = "guest"
  /\ UNCHANGED <<capabilities, faulted, lost, executed, vmcs, guest, exit,
                 handler, stepping, before>>

(* vmxoff_handler: RSP and RIP go through g_guest_rsp and g_guest_rip; the  *)
(* rest stays as the exit has set it for the host.                          *)
VmxoffHandler ==
  /\ at = "vmxoff_handler"
  /\ gp' = Popped(stack, guest.rsp)
  /\ rip' = guest.rip
  /\ insn' = None
  /\ stack' = <<>>
  /\ lost' = lost \cup {"rflags", "tables", "selectors", "debug"}
  /\ at' = "off"
  /\ UNCHANGED <<capabilities, cr, msr, faulted, executed, vmcs, guest, exit,
                 handler, stepping, before>>

Next ==
  \/ SetupStub \/ VmLaunch \/ Entrypoint
  \/ Fetch \/ Execute \/ VmExit
  \/ SaveGp
  \/ CpuidHandler \/ CrAccessUnknownRegister \/ CrAccessTo \/ CrAccessFrom
  \/ EptViolationHandler \/ MtfHandler \/ ReadMsrHandler \/ WriteMsrHandler
  \/ VmxOff \/ UnknownReason
  \/ IncrementRip \/ VmResume \/ VmxoffHandler

Spec == Init /\ [][Next]_vars

-----------------------------------------------------------------------------
(* Properties. *)

(* Every variable has its type. *)
TypeOK ==
  /\ at \in {"setup", "vmxon_fault", "launch", "launch_failed", "entrypoint",
             "guest", "exit", "handler", "stopped", "handled", "resume",
             "vmxoff_handler", "off"}
  /\ State \in P!States /\ before \in P!States
  /\ at \in {"launch", "entrypoint", "handler", "handled", "resume",
             "vmxoff_handler"}
       => stack \in Seq(P!Value) /\ Len(stack) = 15
  /\ guest # None =>
       /\ guest.rsp \in P!Value /\ guest.rip \in Nat
       /\ guest.cr \in [P!ControlRegisters -> P!Value]
  /\ increment_rip \in BOOLEAN /\ execute_vmxoff \in BOOLEAN
  /\ stepping \in BOOLEAN

(* The processor accepts VMXON, unless its firmware has locked it out, and  *)
(* the VMCS setup_vmcs_fields has written: the control words and control    *)
(* registers are adjusted to what its MSRs demand, the selectors of the     *)
(* host to what a host may have.                                            *)
LockedOut ==
  LET word == InitialState.msr[FeatureControlMsr].low
  IN  lock \in word /\ vmxon_outside_smx \notin word

LaunchAccepted == at # "launch_failed" /\ (at = "vmxon_fault" => LockedOut)

(* The guest cannot tell, but for what GuestProcessor names: from where     *)
(* vmm_setup_stub is called on, each instruction has the effect             *)
(* GuestProcessor gives it, once and completely, whether the processor runs *)
(* it or the driver does.                                                   *)
ExitsTransparent == P!Spec
=============================================================================
