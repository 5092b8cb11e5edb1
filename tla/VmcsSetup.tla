----------------------------- MODULE VmcsSetup -----------------------------
(***************************************************************************)
(* What processor_initialize_vmx makes of the registers of a processor and *)
(* what setup_vmcs_fields puts into its VMCS, as values, and what the      *)
(* processor demands of them at VMXON and VMLAUNCH.                        *)
(*                                                                         *)
(* A control word is the set of the names of its bits, a word of a control *)
(* register or of an MSR the set of their numbers.                         *)
(***************************************************************************)
EXTENDS Integers

(* An MSR of allowed settings: the bits that must be one, and that may be.  *)
Setting(allowed_0, allowed_1) ==
  [allowed_0 |-> allowed_0, allowed_1 |-> allowed_1]

(* The MSRs that rule each control word; the true ones if there are any.    *)
RulingMsr(capabilities, word) ==
  IF word # "secondary" /\ capabilities.true_controls
    THEN capabilities.true_ctls[word] ELSE capabilities.ctls[word]

(* Mutant: what must be one is not added. *)
AdjustAllowed1(control, msr) == control \cap msr.allowed_1

AdjustControls(control, msr) ==
  (control \cup msr.allowed_0) \cap msr.allowed_1

Words == {"pin", "primary", "exit", "entry", "secondary"}

(* Mutant: without the bitmaps every access to an MSR leaves to the driver. *)
WantedNoBitmaps(word) ==
  CASE word = "pin" -> {}
    [] word = "primary" -> {"cr3_load_exiting", "active_secondary_controls"}
    [] word = "exit" -> {"host_address_space_size"}
    [] word = "entry" -> {"ia32e_mode_guest"}
    [] word = "secondary" -> {"enable_ept", "enable_rdtscp", "enable_invpcid",
                              "enable_xsave_xrstor"}

Wanted(word) ==
  CASE word = "pin" -> {}
    [] word = "primary" -> {"cr3_load_exiting", "active_secondary_controls",
                            "use_msr_bitmaps"}
    [] word = "exit" -> {"host_address_space_size"}
    [] word = "entry" -> {"ia32e_mode_guest"}
    [] word = "secondary" -> {"enable_ept", "enable_rdtscp", "enable_invpcid",
                              "enable_xsave_xrstor"}

(* The bit that lets the guest run an optional instruction. *)
FeatureControl(feature) ==
  CASE feature = "rdtscp" -> "enable_rdtscp"
    [] feature = "invpcid" -> "enable_invpcid"
    [] feature = "xsaves" -> "enable_xsave_xrstor"

Controls(capabilities) ==
  [word \in Words |-> AdjustControls(Wanted(word), RulingMsr(capabilities, word))]

(* Segments.  A selector has an index, a table (0 the GDT) and an RPL.      *)
Segments == {"cs", "ss", "ds", "es", "fs", "gs", "ldtr", "tr"}

(* read_segment_access_rights, with what LAR says of the descriptor.        *)
AccessRights(selector, lar) ==
  IF selector.table = 0 /\ selector.index = 0
    THEN [unusable |-> TRUE] ELSE [unusable |-> FALSE, rights |-> lar]

(* get_segment_base *)
SegmentBase(gdt, selector) == IF selector.index = 0 THEN 0 ELSE gdt[selector.index]

(* SELECTOR_MASK keeps bits 3 to 7. *)
HostSelector(selector) ==
  [index |-> selector.index % 32, table |-> 0, rpl |-> 0]

(* The registers. *)

(* IA32_VMX_CR0_FIXED0 and _FIXED1, and those of CR4, are settings of each  *)
(* of the two words of the register.                                        *)
AdjustControlRegister(value, fixed) ==
  [word \in {"high", "low"} |-> AdjustControls(value[word], fixed[word])]

AdjustControlRegisters(cr, fixed) ==
  [cr EXCEPT ![0] = AdjustControlRegister(@, fixed[0]),
             ![4] = AdjustControlRegister(@, fixed[4])]

vmx_enable == 13
lock == 0
vmxon_outside_smx == 2

(* enable_vmx_operation sets CR4.VMXE, and IA32_FEATURE_CONTROL unless it   *)
(* is locked, whatever it is locked to.                                     *)
EnableVmx(cr) == [cr EXCEPT ![4].low = @ \cup {vmx_enable}]

EnableFeature(feature_control) ==
  IF lock \in feature_control.low THEN feature_control
    ELSE [feature_control EXCEPT !.low = @ \cup {lock, vmxon_outside_smx}]

(* The fields, from the state of the processor. *)
SetupVmcsFields(capabilities, segments, s, guest_rsp) ==
  [controls |-> Controls(capabilities),
   guest |-> [selector |-> [g \in Segments |-> segments.selector[g]],
              rights |-> [g \in Segments |->
                 AccessRights(segments.selector[g], segments.lar[g])],
              base |-> [g \in {"ldtr", "tr"} |->
                 SegmentBase(segments.gdt, segments.selector[g])],
              rsp |-> guest_rsp, rip |-> "vmm_entrypoint", cr |-> s.cr],
   host |-> [selector |-> [g \in Segments \ {"ldtr"} |->
                             HostSelector(segments.selector[g])],
             tr_base |-> SegmentBase(segments.gdt, segments.selector["tr"]),
             rip |-> "vmexit_stub", cr |-> s.cr, msr |-> s.msr],
   link_pointer |-> "none",
   eptp |-> [memory_type |-> "WB", page_walk_length |-> 3],
   vpid |-> 0]

(* The checks of the processor at VMLAUNCH. *)
Active(vmcs) == "active_secondary_controls" \in vmcs.controls["primary"]

ControlsAccepted(capabilities, vmcs) ==
  /\ \A word \in Words \ IF Active(vmcs) THEN {} ELSE {"secondary"} :
       /\ RulingMsr(capabilities, word).allowed_0 \subseteq vmcs.controls[word]
       /\ vmcs.controls[word] \subseteq RulingMsr(capabilities, word).allowed_1
  /\ Active(vmcs) /\ "enable_ept" \in vmcs.controls["secondary"]
       => vmcs.eptp = [memory_type |-> "WB", page_walk_length |-> 3]

CrAccepted(fixed, cr) ==
  /\ \A r \in {0, 4}, word \in {"high", "low"} :
       /\ fixed[r][word].allowed_0 \subseteq cr[r][word]
       /\ cr[r][word] \subseteq fixed[r][word].allowed_1
  /\ vmx_enable \in cr[4].low

(* The checks of VMXON. *)
VmxonAccepted(fixed, cr, feature_control) ==
  /\ CrAccepted(fixed, cr)
  /\ {lock, vmxon_outside_smx} \subseteq feature_control.low

HostAccepted(fixed, vmcs) ==
  /\ CrAccepted(fixed, vmcs.host.cr)
  /\ "host_address_space_size" \in vmcs.controls["exit"]
  /\ \A g \in DOMAIN vmcs.host.selector :
       vmcs.host.selector[g].table = 0 /\ vmcs.host.selector[g].rpl = 0
  /\ vmcs.host.selector["cs"].index # 0 /\ vmcs.host.selector["tr"].index # 0

GuestAccepted(fixed, vmcs) ==
  /\ CrAccepted(fixed, vmcs.guest.cr)
  /\ "ia32e_mode_guest" \in vmcs.controls["entry"]
  /\ vmcs.link_pointer = "none"
  /\ ~vmcs.guest.rights["tr"].unusable /\ vmcs.guest.selector["tr"].table = 0
  /\ ~vmcs.guest.rights["cs"].unusable
  /\ vmcs.guest.rights["ldtr"].unusable \/ vmcs.guest.selector["ldtr"].table = 0
  /\ vmcs.guest.selector["ss"].rpl = vmcs.guest.selector["cs"].rpl

EntryAccepted(capabilities, fixed, vmcs) ==
  /\ ControlsAccepted(capabilities, vmcs)
  /\ HostAccepted(fixed, vmcs) /\ GuestAccepted(fixed, vmcs)

(* Whether DR7 and DEBUGCTL, which an exit gives the host its own of, come  *)
(* back at the next entry.                                                  *)
DebugKept(vmcs) ==
  /\ "save_debug_controls" \in vmcs.controls["exit"]
  /\ "load_debug_controls" \in vmcs.controls["entry"]
=============================================================================
