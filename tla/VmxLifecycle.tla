---------------------------- MODULE VmxLifecycle ----------------------------
(***************************************************************************)
(* The driver from DriverEntry to DriverUnload: what it allocates, how all *)
(* processors enter VMX operation at once (initialize_vmx), how they leave *)
(* it (terminate_vmx), and what is deleted when.                           *)
(*                                                                         *)
(* DriverEntry and DriverUnload run in one thread, the loader.  Both hand  *)
(* a worker to KeIpiGenericCall, which runs it on every processor at the   *)
(* same time and lets nothing else run meanwhile.  In between, processors  *)
(* are guests that exit to the host and resume, and threads run the hook   *)
(* callbacks, which use what the loader made.                              *)
(*                                                                         *)
(* An object is live or not: the pool of the objects there is one of, and  *)
(* for each VCpu what was allocated for it (owned) and which of its        *)
(* pointers are not null (fields), two things a failure can set apart.     *)
(*                                                                         *)
(* A processor finds its VCpu by its number in its processor group, while  *)
(* the table has one VCpu for every processor of all groups: with several  *)
(* groups, processors share a VCpu, and what becomes of them is undefined. *)
(* The model lets such a processor be lost in a broadcast, or stay in the  *)
(* host for ever; what else it may overwrite is not modelled.              *)
(***************************************************************************)
EXTENDS Integers, FiniteSets

CONSTANTS
  ProcessorCount,  (* vmm_context->processor_count, that of all groups.    *)
  Group,           (* The processor group of each processor.               *)
  Threads,         (* The threads that call hooked functions.              *)
  Fallible,        (* The allocations that may fail.                       *)
  NoRsp            (* g_guest_rsp before its first use.                    *)

Cpus == 0 .. (ProcessorCount - 1)

VcpuKinds == {"vmxon", "vmcs", "stack", "ept"}
ContextKinds == {"vmm_context", "vcpu_table", "msr_bitmap"}
HookKinds == {"registry", "engine"}
DriverKinds == {"log_buffer", "device", "link"}

(* What the hooks allocate and nothing ever frees: EptHook has no           *)
(* destructor, and its tables belong to the page tables.                    *)
LeakedHookKinds == {"execute_pages", "ptes", "jump_stubs", "split_tables"}

(* The names of the monitored drivers, of which the unload knows nothing.   *)
NameKinds == {"names"}

PoolKinds ==
  ContextKinds \cup HookKinds \cup LeakedHookKinds \cup DriverKinds
    \cup NameKinds

ASSUME CountAssumption == ProcessorCount \in Nat \ {0}
ASSUME GroupAssumption == DOMAIN Group = Cpus

(* The log buffer and all that belongs to the hooks are taken to be there:  *)
(* nothing tests them, and the first use of a missing one stops the system. *)
ASSUME FallibleAssumption ==
  Fallible \subseteq VcpuKinds \cup ContextKinds \cup {"device", "link"}
ASSUME RspAssumption == NoRsp \notin Cpus

VARIABLES
  pc,           (* Where the loader is.                                    *)
  next,         (* i in alloc_vmm_context                                  *)
  context,      (* globals.vmm_context is not null.                        *)
  pool,         (* The live objects there is one of.                       *)
  owned,        (* What is live of each VCpu.                              *)
  fields,       (* The pointers of each VCpu that are not null.            *)
  broadcast,    (* The worker KeIpiGenericCall is running.                 *)
  at,           (* Where each processor is in that worker.                 *)
  mode,         (* native, or in VMX root operation, or in the guest.      *)
  using,        (* The VCpu each processor runs on.                        *)
  g_guest_rsp,  (* The processor whose stack pointer the variable holds.   *)
  hook,         (* Where each thread is in a hook callback.                *)
  caught        (* The threads that were in one when the processors were   *)
                (* taken back: a record of what happened.                  *)

loader == <<pc, next, context>>
memory == <<pool, owned, fields>>
processors == <<broadcast, at, mode, using, g_guest_rsp>>
calls == <<hook, caught>>
vars == <<loader, memory, processors, calls>>

Init ==
  /\ pc = "unloaded"
  /\ next = 0
  /\ context = FALSE
  /\ pool = {}
  /\ owned = [c \in Cpus |-> {}]
  /\ fields = [c \in Cpus |-> {}]
  /\ broadcast = "none"
  /\ at = [c \in Cpus |-> "free"]
  /\ mode = [c \in Cpus |-> "native"]
  /\ using = [c \in Cpus |-> 0]
  /\ g_guest_rsp = NoRsp
  /\ hook = [t \in Threads |-> "idle"]
  /\ caught = {}

-----------------------------------------------------------------------------
(* DriverEntry *)

(* The loader makes one object and goes on. *)
Make(from, to, kinds) ==
  /\ pc = from
  /\ pc' = to
  /\ pool' = pool \cup kinds
  /\ UNCHANGED <<next, context, owned, fields, processors, calls>>

(* An allocation fails, and what was made before it is deleted again. *)
Fail(from, to, kind, deleted) ==
  /\ kind \in Fallible
  /\ pc = from
  /\ pc' = to
  /\ pool' = pool \ deleted
  /\ UNCHANGED <<next, context, owned, fields, processors, calls>>

CreateLogBuffer == Make("unloaded", "create_device", {"log_buffer"})

CreateDevice ==
  \/ Make("create_device", "create_link", {"device"})
  \/ Fail("create_device", "failed", "device", {})

CreateSymbolicLink ==
  \/ Make("create_link", "check_cpu", {"link"})
  \/ Fail("create_link", "failed", "link", {"device"})

(* The processor is no Intel one, or has no VMX: the driver stays without.  *)
CheckCpu ==
  \E to \in {"alloc_context", "loaded"} : Make("check_cpu", to, {})

-----------------------------------------------------------------------------
(* alloc_vmm_context *)

(* The context and each VMCS are written to before anyone tests them.       *)
AllocContext ==
  \/ Make("alloc_context", "alloc_table", {"vmm_context"})
  \/ Fail("alloc_context", "null_write", "vmm_context", {})

AllocVcpuTable ==
  \/ Make("alloc_table", "alloc_bitmap", {"vcpu_table"})
  \/ Fail("alloc_table", "loaded", "vcpu_table", {"vmm_context"})

AllocMsrBitmap ==
  \/ Make("alloc_bitmap", "alloc_vcpu", {"msr_bitmap"})
  \/ Fail("alloc_bitmap", "loaded", "msr_bitmap",
          {"vcpu_table", "vmm_context"})

(* Mutant: the bitmap is assigned after the test. *)
FieldsBitmapLast(got) ==
  (got \ {"ept"}) \cup (IF got = VcpuKinds THEN {"msr_bitmap"} ELSE {})

(* The pointers the body of the loop sets before it tests them. *)
FieldsSet(got) == (got \ {"ept"}) \cup {"msr_bitmap"}

MoreVcpus == next < ProcessorCount

AllocVmcsFails == MoreVcpus /\ Fail("alloc_vcpu", "null_write", "vmcs", {})

(* setup_ept allocates all of its tables, or fails with some allocated or   *)
(* none.                                                                    *)
EptLeft(got) == IF "ept" \in got THEN {{"ept"}} ELSE SUBSET {"ept"}

(* The body of the loop. *)
AllocVcpu ==
  /\ pc = "alloc_vcpu"
  /\ MoreVcpus
  /\ \E got \in SUBSET VcpuKinds :
       /\ "vmcs" \in got
       /\ VcpuKinds \ got \subseteq Fallible
       /\ \E part \in EptLeft(got) :
            owned' = [owned EXCEPT ![next] = got \cup part]
       /\ fields' = [fields EXCEPT ![next] = FieldsSet(got)]
       /\ IF got = VcpuKinds
            THEN next' = next + 1 /\ UNCHANGED pc
            ELSE pc' = "undo_alloc" /\ UNCHANGED next
  /\ UNCHANGED <<context, pool, processors, calls>>

(* The context is returned, and globals.vmm_context set. *)
AllocDone ==
  /\ pc = "alloc_vcpu"
  /\ ~MoreVcpus
  /\ pc' = "create_hooks"
  /\ context' = TRUE
  /\ UNCHANGED <<next, memory, processors, calls>>

(* Only pointers that are set are followed, but for the bitmap of VCpu 0,   *)
(* which MmFreeContiguousMemory is given in any case.                       *)
FreesLiveObjects ==
  /\ "msr_bitmap" \in fields[0]
  /\ ContextKinds \subseteq pool
  /\ \A c \in Cpus : fields[c] \cap VcpuKinds \subseteq owned[c]

(* cleanup_vmm_context: all but the page tables (cleanup_ept is a comment). *)
CleanupVmmContext(from, to) ==
  /\ pc = from
  /\ pc' = IF FreesLiveObjects THEN to ELSE "bad_free"
  /\ pool' = pool \ ContextKinds
  /\ owned' = [c \in Cpus |-> owned[c] \ fields[c]]
  /\ UNCHANGED <<next, context, fields, processors, calls>>

UndoAlloc == CleanupVmmContext("undo_alloc", "loaded")

-----------------------------------------------------------------------------
(* The rest of initialize_vmx, and terminate_vmx *)

(* The registry, the engine and the hooks it makes. *)
CreateHooks ==
  Make("create_hooks", "broadcast_on", HookKinds \cup LeakedHookKinds)

(* Every processor enters the worker; one that is in the host takes the     *)
(* interrupt when it is back in the guest.                                  *)
KeIpiGenericCall(from, to, worker) ==
  /\ pc = from
  /\ pc' = to
  /\ broadcast = "none"
  /\ \A c \in Cpus : mode[c] # "root"
  /\ broadcast' = worker
  /\ at' = [c \in Cpus |-> "called"]
  /\ UNCHANGED <<next, context, memory, mode, using, g_guest_rsp, hook>>

BroadcastSetup ==
  /\ KeIpiGenericCall("broadcast_on", "setting_up", "vmm_setup_stub")
  /\ UNCHANGED caught

(* Nothing waits for the threads that are in a callback. *)
BroadcastTerminate ==
  /\ KeIpiGenericCall("broadcast_off", "terminating", "terminate_cpu")
  /\ caught' = {t \in Threads : hook[t] # "idle"}

(* The worker has returned on all processors. *)
BroadcastEnds ==
  /\ broadcast # "none"
  /\ \A c \in Cpus : at[c] = "done"
  /\ pc' = IF broadcast = "vmm_setup_stub" THEN "loaded" ELSE "delete_buffer"
  /\ broadcast' = "none"
  /\ at' = [c \in Cpus |-> "free"]
  /\ UNCHANGED <<next, context, memory, mode, using, g_guest_rsp, calls>>

(* Mutant: the objects are deleted without taking the processors back. *)
DriverUnloadHosted ==
  /\ pc = "loaded"
  /\ pc' = IF context THEN "delete_buffer" ELSE "gone"
  /\ UNCHANGED <<next, context, memory, processors, calls>>

(* DriverUnload and the test at the head of terminate_vmx, whose early      *)
(* return deletes nothing.                                                  *)
DriverUnload ==
  /\ pc = "loaded"
  /\ pc' = IF context THEN "broadcast_off" ELSE "gone"
  /\ UNCHANGED <<next, context, memory, processors, calls>>

Delete(from, to, kind) ==
  /\ pc = from
  /\ pc' = to
  /\ pool' = pool \ {kind}
  /\ UNCHANGED <<next, context, owned, fields, processors, calls>>

DeleteLogBuffer == Delete("delete_buffer", "delete_engine", "log_buffer")
DeleteEngine == Delete("delete_engine", "delete_registry", "engine")
DeleteRegistry == Delete("delete_registry", "cleanup", "registry")
Cleanup == CleanupVmmContext("cleanup", "gone")

(* The requests of the GUI, which come while the driver is loaded: a name   *)
(* is added, or the last one is removed.                                    *)
AddDriver == Make("loaded", "loaded", NameKinds)
RemoveDriver == Delete("loaded", "loaded", "names")

-----------------------------------------------------------------------------
(* vmm_setup_stub on one processor *)

Goto(c, worker, from, to) ==
  /\ broadcast = worker
  /\ at[c] = from
  /\ at' = [at EXCEPT ![c] = to]

(* KeGetCurrentProcessorNumber counts within the group of the processor.    *)
KeGetCurrentProcessorNumber(c) ==
  Cardinality({d \in Cpus : d < c /\ Group[d] = Group[c]})

CurrentVcpu(c) == KeGetCurrentProcessorNumber(c)

(* The control registers are adjusted, and vmxon executed. *)
VmxOn(c) ==
  /\ Goto(c, "vmm_setup_stub", "called", "vmxon")
  /\ mode' = [mode EXCEPT ![c] = "root"]
  /\ using' = [using EXCEPT ![c] = CurrentVcpu(c)]
  /\ UNCHANGED <<loader, memory, broadcast, g_guest_rsp, calls>>

(* The VMCS is filled in: the stack of the VCpu for the host, the stack of  *)
(* the worker for the guest.                                                *)
SetupVmcsFields(c) ==
  /\ Goto(c, "vmm_setup_stub", "vmxon", "launch")
  /\ UNCHANGED <<loader, memory, broadcast, mode, using, g_guest_rsp, calls>>

(* The guest begins at vmm_entrypoint, which returns from the worker. *)
VmLaunch(c) ==
  /\ Goto(c, "vmm_setup_stub", "launch", "done")
  /\ mode' = [mode EXCEPT ![c] = "guest"]
  /\ UNCHANGED <<loader, memory, broadcast, using, g_guest_rsp, calls>>

(* Mutant: a failure returns to the caller. *)
SetupReturns(c) ==
  /\ \E from \in {"called", "vmxon", "launch"} :
       Goto(c, "vmm_setup_stub", from, "done")
  /\ UNCHANGED <<loader, memory, broadcast, mode, using, g_guest_rsp, calls>>

(* Each of the three may fail.  processor_initialize_vmx then returns into  *)
(* vmm_setup_stub, whose ret pops no return address: it has not undone      *)
(* SAVE_GP and the space reserved below it.                                 *)
SetupFails(c) ==
  /\ \E from \in {"called", "vmxon", "launch"} :
       Goto(c, "vmm_setup_stub", from, "lost")
  /\ UNCHANGED <<loader, memory, broadcast, mode, using, g_guest_rsp, calls>>

-----------------------------------------------------------------------------
(* terminate_cpu on one processor *)

(* Mutant: the handler advances the guest and resumes it. *)
VmxOffResumed(c) ==
  /\ mode[c] = "guest"
  /\ Goto(c, "terminate_cpu", "called", "done")
  /\ UNCHANGED <<loader, memory, broadcast, mode, using, g_guest_rsp, calls>>

(* Mutant: the handler resumes the guest at the same instruction. *)
VmxOffRetried(c) ==
  /\ mode[c] = "guest"
  /\ Goto(c, "terminate_cpu", "called", "called")
  /\ UNCHANGED <<loader, memory, broadcast, mode, using, g_guest_rsp, calls>>

(* vmxoff exits; the handler advances the guest and answers true. *)
VmxOffExit(c) ==
  /\ mode[c] = "guest"
  /\ Goto(c, "terminate_cpu", "called", "save_rsp")
  /\ mode' = [mode EXCEPT ![c] = "root"]
  /\ UNCHANGED <<loader, memory, broadcast, using, g_guest_rsp, calls>>

(* The instruction pointer beside it is the same on all processors. *)
PrepareVmxoffGlobals(c) ==
  /\ Goto(c, "terminate_cpu", "save_rsp", "vmxoff")
  /\ g_guest_rsp' = c
  /\ UNCHANGED <<loader, memory, broadcast, mode, using, calls>>

(* vmxoff_handler leaves VMX operation and continues on the stack it finds  *)
(* in g_guest_rsp; on that of another processor it is lost.                 *)
LeaveVmx(c) ==
  /\ Goto(c, "terminate_cpu", "vmxoff",
          IF g_guest_rsp = c THEN "done" ELSE "lost")
  /\ mode' = [mode EXCEPT ![c] = "native"]
  /\ UNCHANGED <<loader, memory, broadcast, using, g_guest_rsp, calls>>

-----------------------------------------------------------------------------
(* Another processor in VMX operation has the same VMCS region, page tables *)
(* and host stack as this one: what the worker does on it is undefined.     *)
Hosted(c) == mode[c] # "native"

Collides(c) ==
  /\ broadcast # "none"
  /\ Hosted(c)
  /\ at[c] \notin {"done", "lost"}
  /\ \E d \in Cpus \ {c} : Hosted(d) /\ using[d] = using[c]
  /\ at' = [at EXCEPT ![c] = "lost"]
  /\ UNCHANGED <<loader, memory, broadcast, mode, using, g_guest_rsp, calls>>

-----------------------------------------------------------------------------
(* Between the broadcasts *)

(* Any other exit, and the return from its handler. *)
VmExit(c) ==
  /\ broadcast = "none"
  /\ mode[c] = "guest"
  /\ mode' = [mode EXCEPT ![c] = "root"]
  /\ UNCHANGED <<loader, memory, broadcast, at, using, g_guest_rsp, calls>>

VmResume(c) ==
  /\ broadcast = "none"
  /\ mode[c] = "root"
  /\ mode' = [mode EXCEPT ![c] = "guest"]
  /\ UNCHANGED <<loader, memory, broadcast, at, using, g_guest_rsp, calls>>

HookGoto(t, from, to) ==
  /\ broadcast = "none"
  /\ hook[t] = from
  /\ hook' = [hook EXCEPT ![t] = to]
  /\ UNCHANGED <<loader, memory, processors, caught>>

(* The patch is seen only through the page tables of a guest. *)
HookCalled(t) ==
  /\ \E c \in Cpus : mode[c] = "guest"
  /\ HookGoto(t, "idle", "callback")

(* lookup_jump_stub, then the original function. *)
LookupJumpStub(t) ==
  HookGoto(t, "callback", IF "registry" \in pool THEN "original" ELSE "lost")

(* The original function is entered through its jump stub.                  *)
OriginalReturns(t) ==
  HookGoto(t, "original",
           IF "jump_stubs" \in pool THEN "returned" ELSE "lost")

(* The call is logged, or its caller is not monitored. *)
LogCall(t) ==
  HookGoto(t, "returned", IF "log_buffer" \in pool THEN "idle" ELSE "lost")

NotLogged(t) == HookGoto(t, "returned", "idle")

-----------------------------------------------------------------------------
Loader ==
  \/ CreateLogBuffer \/ CreateDevice \/ CreateSymbolicLink \/ CheckCpu
  \/ AllocContext \/ AllocVcpuTable \/ AllocMsrBitmap
  \/ AllocVmcsFails \/ AllocVcpu \/ AllocDone \/ UndoAlloc
  \/ CreateHooks \/ BroadcastSetup \/ BroadcastTerminate \/ BroadcastEnds
  \/ DeleteLogBuffer \/ DeleteEngine \/ DeleteRegistry \/ Cleanup

WorkerStep(c) ==
  \/ VmxOn(c) \/ SetupVmcsFields(c) \/ VmLaunch(c) \/ SetupFails(c)
  \/ VmxOffExit(c) \/ PrepareVmxoffGlobals(c) \/ LeaveVmx(c)

Worker(c) == WorkerStep(c) \/ Collides(c)

Callback(t) ==
  \/ HookCalled(t) \/ LookupJumpStub(t) \/ OriginalReturns(t)
  \/ LogCall(t) \/ NotLogged(t)

Next ==
  \/ Loader
  \/ AddDriver \/ RemoveDriver \/ DriverUnload
  \/ \E c \in Cpus : Worker(c) \/ VmExit(c) \/ VmResume(c)
  \/ \E t \in Threads : Callback(t)

Spec == Init /\ [][Next]_vars

(* Processors execute the worker they were given, with interrupts off, and  *)
(* KeIpiGenericCall returns when all have.  That processors which share a   *)
(* VCpu collide is possible, never certain.                                 *)
Fairness ==
  /\ \A c \in Cpus : WF_vars(WorkerStep(c))
  /\ WF_vars(BroadcastEnds)

FairSpec == Spec /\ Fairness

-----------------------------------------------------------------------------
(* Properties. *)

LoaderPlaces == {"unloaded", "create_device", "create_link", "check_cpu",
  "alloc_context", "alloc_table", "alloc_bitmap", "alloc_vcpu", "undo_alloc",
  "create_hooks", "broadcast_on", "setting_up", "loaded", "broadcast_off",
  "terminating", "delete_buffer", "delete_engine", "delete_registry",
  "cleanup", "gone", "failed", "null_write", "bad_free"}
WorkerPlaces == {"free", "called", "vmxon", "launch", "save_rsp", "vmxoff",
                 "done", "lost"}
HookPlaces == {"idle", "callback", "original", "returned", "lost"}

(* Every variable has its type; the loop never passes processor_count.      *)
TypeOK ==
  /\ pc \in LoaderPlaces
  /\ next \in 0 .. ProcessorCount
  /\ context \in BOOLEAN
  /\ pool \in SUBSET PoolKinds
  /\ owned \in [Cpus -> SUBSET VcpuKinds]
  /\ fields \in [Cpus -> SUBSET ((VcpuKinds \ {"ept"}) \cup {"msr_bitmap"})]
  /\ broadcast \in {"none", "vmm_setup_stub", "terminate_cpu"}
  /\ at \in [Cpus -> WorkerPlaces]
  /\ mode \in [Cpus -> {"native", "root", "guest"}]
  /\ using \in [Cpus -> Cpus]
  /\ g_guest_rsp \in Cpus \cup {NoRsp}
  /\ hook \in [Threads -> HookPlaces]
  /\ caught \in SUBSET Threads

(* While a processor is in VMX operation, everything its VMCS and the exit  *)
(* handler refer to is live, the page tables and pages of the hooks         *)
(* included: terminate_vmx deletes nothing before the last processor has    *)
(* left.                                                                    *)
HostAlive ==
  \A c \in Cpus :
    Hosted(c) =>
      /\ owned[using[c]] = VcpuKinds
      /\ ContextKinds \cup HookKinds \cup LeakedHookKinds \subseteq pool

(* Whenever threads can run, either every processor is hosted, so that no   *)
(* processor by-passes the hooks, or none is; and all are exactly while the *)
(* driver is loaded with a context.                                         *)
AllTogether ==
  broadcast = "none" =>
    \A c \in Cpus :
      Hosted(c) <=> context /\ pc \in {"loaded", "broadcast_off"}

(* What is live of the VCpus, and of the rest but the names. *)
LiveIs(kinds, kept) ==
  /\ pool \ NameKinds = kinds
  /\ \A c \in Cpus : owned[c] \in kept

(* Whichever allocation fails and however far set-up came, nothing is freed *)
(* twice or through a pointer never set, and the leaks are exactly these.   *)
(* A DriverEntry that fails leaves its log buffer; a driver loaded without  *)
(* a context keeps it for good, and with it the page tables of a VCpu whose *)
(* allocation was undone; one that has left VMX operation leaves the page   *)
(* tables and what the hooks allocated, and never deletes its device.       *)
FreedOrLeaked ==
  /\ pc # "bad_free"
  /\ pc = "failed" => LiveIs({"log_buffer"}, {{}})
  /\ pc \in {"loaded", "gone"} /\ ~context =>
       LiveIs(DriverKinds, {{}, {"ept"}})
  /\ pc = "gone" /\ context =>
       LiveIs({"device", "link"} \cup LeakedHookKinds, {{"ept"}})

(* A thread that uses what the unload deleted was in a callback when the    *)
(* processors were taken back, which nothing waits for: no thread enters a  *)
(* callback later, not even while one processor has left and others have    *)
(* not, and every other callback finds what it needs.                       *)
OnlyCaughtLost == \A t \in Threads : hook[t] = "lost" => t \in caught

(* Both broadcasts end, unless a processor is lost in one: in a set-up that *)
(* fails, on a VCpu it shares, or on the stack of another processor.        *)
BroadcastsEnd ==
  broadcast # "none"
    ~> broadcast = "none" \/ \E c \in Cpus : at[c] = "lost"

=============================================================================
