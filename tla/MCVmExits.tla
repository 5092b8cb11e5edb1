----------------------------- MODULE MCVmExits -----------------------------
(***************************************************************************)
(* Instances of VmExits for TLC: words of the five bits anything looks at, *)
(* a processor with and one without true control settings, and a bit of    *)
(* each register that VMX operation demands and that the driver finds      *)
(* clear.                                                                  *)
(***************************************************************************)
EXTENDS VmExits

MCBits == {0, 2, 5, 13, 31}
Zero == [high |-> {}, low |-> {}]

(* A different value for each register. *)
Number(r) ==
  {b \in {0, 2, 5, 13} :
     (r \div (CASE b = 0 -> 1 [] b = 2 -> 2 [] b = 5 -> 4 [] b = 13 -> 8)) % 2 = 1}

MCInitialState ==
  [gp |-> [r \in 0 .. 15 |-> [high |-> Number(r) \cup {31}, low |-> Number(r)]],
   cr |-> [c \in {0, 3, 4} |->
             CASE c = 0 -> [Zero EXCEPT !.low = {0, 31}]
               [] c = 3 -> [high |-> {2}, low |-> {5, 13}]
               [] c = 4 -> [Zero EXCEPT !.low = {5}]],
   msr |-> [m \in Msrs |-> IF m = FeatureControlMsr THEN Zero
                            ELSE [high |-> {5}, low |-> m]],
   rip |-> 0, faulted |-> FALSE, lost |-> {}]

Nothing == Setting({}, {})
MCCrFixed ==
  [c \in {0, 4} |->
     [high |-> Nothing,
      low |-> IF c = 0 THEN Setting({0, 5, 31}, MCBits)
                       ELSE Setting({13}, {0, 2, 5, 13})]]

MCMsrs == {{}, {0}, {2}, {31}}
MCBaseMsrs == {{0}}
MCFeatureControlMsr == {2}
MCBitmapRange == {{}, {0}, {2}}

MCCpuidResult ==
  [ls \in (SUBSET MCBits) \X (SUBSET MCBits) |->
     [eax |-> {2}, ebx |-> ls[2], ecx |-> IF ls[1] = {0} THEN MCBits ELSE ls[1],
      edx |-> {0, 5}]]

(* The segment registers of 64-bit Windows. *)
Selector(index, rpl) == [index |-> index, table |-> 0, rpl |-> rpl]
MCSegmentState ==
  [selector |-> [g \in Segments |->
     CASE g = "cs" -> Selector(2, 0) [] g = "ss" -> Selector(3, 0)
       [] g \in {"ds", "es", "gs"} -> Selector(5, 3) [] g = "fs" -> Selector(10, 3)
       [] g = "ldtr" -> Selector(0, 0) [] g = "tr" -> Selector(8, 0)],
   lar |-> [g \in Segments |-> g],
   gdt |-> [k \in 0 .. 15 |-> k]]

(* The bits that must be one: without the true settings more of them, among *)
(* them the exits on moves to and from CR3 and that the debug registers are *)
(* kept.                                                                    *)
May == [pin |-> {"default1", "nmi_exiting"},
        primary |-> {"default1", "cr3_load_exiting", "cr3_store_exiting",
                     "use_msr_bitmaps", "active_secondary_controls",
                     "hlt_exiting", "monitor_trap_flag"},
        exit |-> {"default1", "host_address_space_size",
                  "save_debug_controls"},
        entry |-> {"default1", "ia32e_mode_guest", "load_debug_controls"},
        secondary |-> {"enable_ept", "enable_vpid", "enable_rdtscp",
                       "enable_invpcid", "enable_xsave_xrstor"}]
Must(word) == IF word = "secondary" THEN {} ELSE {"default1"}
Settings(must(_)) == [w \in Words |-> Setting(must(w), May[w])]
MustOld(word) == Must(word) \cup
  CASE word = "primary" -> {"cr3_load_exiting", "cr3_store_exiting"}
    [] word = "exit" -> {"save_debug_controls"}
    [] word = "entry" -> {"load_debug_controls"}
    [] OTHER -> {}
MCCapabilities ==
  {[true_controls |-> t, true_ctls |-> Settings(Must), ctls |-> Settings(MustOld)]
     : t \in BOOLEAN}

Ops(ops, len) == {[op |-> o, len |-> len] : o \in ops}
Moves == [op : {"mov_to_cr", "mov_from_cr"}, cr : {0, 3, 4}, reg : 0 .. 8,
          len : {3}]
MCInstructions ==
  Ops({"cpuid", "rdmsr", "wrmsr"}, 2) \cup Ops({"vmxoff", "vmx_instruction"}, 3)
    \cup Ops({"access"}, 4) \cup {m \in Moves : m.cr = 3 \/ m.reg \in {1, 4}}
    \cup [op : {"feature"}, feature : {"rdtscp", "invpcid", "xsaves"}, len : {3}]
    \cup [op : {"load"}, reg : {0, 1}, len : {7},
          value : {[high |-> {31}, low |-> {0}], [Zero EXCEPT !.low = {2}],
                   [Zero EXCEPT !.low = {0, 5, 31}], [Zero EXCEPT !.low = {13}],
                   [Zero EXCEPT !.low = {31}]}]
=============================================================================
