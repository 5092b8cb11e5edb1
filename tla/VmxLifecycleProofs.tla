------------------------- MODULE VmxLifecycleProofs -------------------------
(***************************************************************************)
(* What is proved of VmxLifecycle for any number of processors and of      *)
(* threads, any processor groups and any allocations that may fail.        *)
(***************************************************************************)
EXTENDS VmxLifecycle, FiniteSetTheorems, TLAPS

(* The places of the loader before anything of a VCpu is allocated, and     *)
(* those from the allocation of the whole context to its deletion.          *)
EarlyPlaces == {"unloaded", "create_device", "create_link", "check_cpu",
  "alloc_context", "alloc_table", "alloc_bitmap"}
HostingPlaces == {"broadcast_on", "setting_up", "broadcast_off", "terminating"}
DeletingPlaces == {"delete_buffer", "delete_engine", "delete_registry",
  "cleanup"}
StoppedPlaces == {"failed", "null_write", "bad_free"}

WithContext ==
  \/ pc \in HostingPlaces \cup DeletingPlaces \cup {"create_hooks"}
  \/ pc = "loaded" /\ context
WithoutContext == pc \in {"loaded", "gone"} /\ ~context
GoneWithContext == pc = "gone" /\ context

HostingKinds ==
  ContextKinds \cup HookKinds \cup LeakedHookKinds \cup DriverKinds

(* What is in the pool at each place of the loader, but for the names. *)
PoolIs(kinds) == pool \ NameKinds = kinds
PoolInv ==
  /\ pc = "unloaded" => PoolIs({})
  /\ pc \in {"create_device", "failed"} => PoolIs({"log_buffer"})
  /\ pc = "create_link" => PoolIs({"log_buffer", "device"})
  /\ pc \in {"check_cpu", "alloc_context"} => PoolIs(DriverKinds)
  /\ pc = "alloc_table" => PoolIs(DriverKinds \cup {"vmm_context"})
  /\ pc = "alloc_bitmap" =>
       PoolIs(DriverKinds \cup {"vmm_context", "vcpu_table"})
  /\ pc \in {"alloc_vcpu", "undo_alloc", "create_hooks"} =>
       PoolIs(DriverKinds \cup ContextKinds)
  /\ pc \in HostingPlaces \cup {"delete_buffer"} => PoolIs(HostingKinds)
  /\ pc = "loaded" /\ context => PoolIs(HostingKinds)
  /\ pc = "delete_engine" => PoolIs(HostingKinds \ {"log_buffer"})
  /\ pc = "delete_registry" =>
       PoolIs(HostingKinds \ {"log_buffer", "engine"})
  /\ pc = "cleanup" =>
       PoolIs({"device", "link"} \cup LeakedHookKinds \cup ContextKinds)
  /\ WithoutContext => PoolIs(DriverKinds)
  /\ GoneWithContext => PoolIs({"device", "link"} \cup LeakedHookKinds)
  /\ context <=> WithContext \/ (context /\ pc \in {"gone", "bad_free"})

Complete(c) == owned[c] = VcpuKinds /\ fields[c] = FieldsSet(VcpuKinds)
Blank(c) == owned[c] = {} /\ fields[c] = {}

(* How far the allocation of each VCpu has come, and that its pointers      *)
(* agree with it wherever they are followed.                                *)
VcpuInv ==
  /\ pc \in EarlyPlaces \cup {"failed"} =>
       next = 0 /\ \A c \in Cpus : Blank(c)
  /\ pc = "alloc_vcpu" =>
       \A c \in Cpus : IF c < next THEN Complete(c) ELSE Blank(c)
  /\ pc = "undo_alloc" =>
       /\ "msr_bitmap" \in fields[0]
       /\ \A c \in Cpus : /\ fields[c] \cap VcpuKinds \subseteq owned[c]
                          /\ owned[c] \ fields[c] \subseteq {"ept"}
  /\ WithContext => \A c \in Cpus : Complete(c)
  /\ WithoutContext => \A c \in Cpus : owned[c] \subseteq {"ept"}
  /\ GoneWithContext => \A c \in Cpus : owned[c] = {"ept"}

(* Where the processors are during each broadcast and between them. *)
WorkerInv ==
  /\ broadcast = "none" =>
       /\ pc \notin {"setting_up", "terminating"}
       /\ \A c \in Cpus : at[c] = "free"
       /\ \A c \in Cpus :
            Hosted(c) <=> context /\ pc \in {"loaded", "broadcast_off"}
  /\ broadcast = "vmm_setup_stub" =>
       /\ pc = "setting_up"
       /\ \A c \in Cpus :
            /\ at[c] = "called" => mode[c] = "native"
            /\ at[c] = "done" => mode[c] = "guest"
            /\ at[c] \in {"called", "vmxon", "launch", "done", "lost"}
  /\ broadcast = "terminate_cpu" =>
       /\ pc = "terminating"
       /\ \A c \in Cpus :
            /\ at[c] = "done" => mode[c] = "native"
            /\ at[c] \in {"called", "save_rsp", "vmxoff", "done", "lost"}

Inv == TypeOK /\ PoolInv /\ VcpuInv /\ WorkerInv

-----------------------------------------------------------------------------
(* The actions of the processors and of the callbacks leave the loader and  *)
(* what it allocated alone.                                                 *)
LEMMA OthersLeaveMemory ==
  ASSUME \/ \E c \in Cpus : Worker(c) \/ VmExit(c) \/ VmResume(c)
         \/ \E t \in Threads : Callback(t)
         \/ UNCHANGED vars
  PROVE  UNCHANGED <<loader, memory>>
BY DEF Worker, WorkerStep, VmxOn, SetupVmcsFields, VmLaunch, SetupFails, VmxOffExit,
       PrepareVmxoffGlobals, LeaveVmx, Collides, VmExit, VmResume, Callback,
       HookCalled, LookupJumpStub, OriginalReturns, LogCall, NotLogged,
       HookGoto, vars

LEMMA InitInv == Init => Inv
<1> SUFFICES ASSUME Init PROVE Inv
  OBVIOUS
<1>1. TypeOK
  <2>1. next \in 0 .. ProcessorCount
    BY CountAssumption DEF Init
  <2>2. pc \in LoaderPlaces /\ context \in BOOLEAN
    BY DEF Init, LoaderPlaces
  <2>3. /\ pool \in SUBSET PoolKinds
        /\ owned \in [Cpus -> SUBSET VcpuKinds]
        /\ fields \in
             [Cpus -> SUBSET ((VcpuKinds \ {"ept"}) \cup {"msr_bitmap"})]
    BY DEF Init
  <2>4. /\ broadcast \in {"none", "vmm_setup_stub", "terminate_cpu"}
        /\ at \in [Cpus -> WorkerPlaces]
        /\ mode \in [Cpus -> {"native", "root", "guest"}]
        /\ using \in [Cpus -> Cpus]
        /\ g_guest_rsp \in Cpus \cup {NoRsp}
    BY CountAssumption DEF Init, WorkerPlaces, Cpus
  <2>5. hook \in [Threads -> HookPlaces] /\ caught \in SUBSET Threads
    BY DEF Init, HookPlaces
  <2> QED
    BY <2>1, <2>2, <2>3, <2>4, <2>5 DEF TypeOK
<1>2. PoolInv
  BY DEF Init, PoolInv, PoolIs, GoneWithContext, WithContext,
         WithoutContext, HostingPlaces,
         DeletingPlaces
<1>3. VcpuInv
  BY DEF Init, VcpuInv, Blank, EarlyPlaces, WithContext, WithoutContext,
         GoneWithContext,
         HostingPlaces, DeletingPlaces
<1>4. WorkerInv
  BY DEF Init, WorkerInv, Hosted
<1> QED
  BY <1>1, <1>2, <1>3, <1>4 DEF Inv

(* A processor's number in its group is one of the table. *)
LEMMA NumberInTable ==
  ASSUME NEW c \in Cpus
  PROVE  CurrentVcpu(c) \in Cpus
<1> DEFINE Before == {d \in Cpus : d < c /\ Group[d] = Group[c]}
<1>1. c \in Nat /\ c < ProcessorCount /\ 0 \in Int /\ c - 1 \in Int
  BY CountAssumption DEF Cpus
<1>2. Before \subseteq 0 .. (c - 1)
  BY <1>1, CountAssumption DEF Cpus
<1>3. /\ IsFiniteSet(0 .. (c - 1))
      /\ Cardinality(0 .. (c - 1)) = IF 0 > c - 1 THEN 0 ELSE c - 1 - 0 + 1
  BY <1>1, FS_Interval
<1>4. /\ IsFiniteSet(Before)
      /\ Cardinality(Before) <= Cardinality(0 .. (c - 1))
  BY <1>2, <1>3, FS_Subset
<1>5. Cardinality(Before) \in Nat
  BY <1>4, FS_CardinalityType
<1>6. Cardinality(Before) \in Cpus
  BY <1>1, <1>3, <1>4, <1>5, CountAssumption DEF Cpus
<1> QED
  BY <1>6 DEF CurrentVcpu, KeGetCurrentProcessorNumber

(* What the loop that fills the table of VCpus does to it. *)
LEMMA AllocVcpuTypes ==
  ASSUME TypeOK, AllocVcpu
  PROVE  TypeOK'
<1>1. /\ pc = "alloc_vcpu"
      /\ next < ProcessorCount
      /\ UNCHANGED <<context, pool, processors, calls>>
  BY DEF AllocVcpu, MoreVcpus
<1>2. next \in Cpus /\ next + 1 \in 0 .. ProcessorCount
  BY <1>1, CountAssumption DEF TypeOK, Cpus
<1>3. PICK got \in SUBSET VcpuKinds, part \in SUBSET {"ept"} :
        /\ owned' = [owned EXCEPT ![next] = got \cup part]
        /\ fields' = [fields EXCEPT ![next] = FieldsSet(got)]
        /\ IF got = VcpuKinds
             THEN next' = next + 1 /\ UNCHANGED pc
             ELSE pc' = "undo_alloc" /\ UNCHANGED next
  BY DEF AllocVcpu, EptLeft
<1>4. /\ got \cup part \in SUBSET VcpuKinds
      /\ FieldsSet(got) \in
           SUBSET ((VcpuKinds \ {"ept"}) \cup {"msr_bitmap"})
  BY DEF VcpuKinds, FieldsSet
<1>5. pc' \in LoaderPlaces /\ next' \in 0 .. ProcessorCount
  BY <1>1, <1>2, <1>3 DEF TypeOK, LoaderPlaces
<1>6. /\ owned' \in [Cpus -> SUBSET VcpuKinds]
      /\ fields' \in
           [Cpus -> SUBSET ((VcpuKinds \ {"ept"}) \cup {"msr_bitmap"})]
  BY <1>3, <1>4 DEF TypeOK
<1> QED
  BY <1>1, <1>5, <1>6 DEF TypeOK, processors, calls

LEMMA MakeTypes ==
  ASSUME TypeOK, NEW from, NEW to \in LoaderPlaces,
         NEW kinds \in SUBSET PoolKinds, Make(from, to, kinds)
  PROVE  TypeOK'
BY DEF Make, TypeOK, processors, calls

LEMMA FailTypes ==
  ASSUME TypeOK, NEW from, NEW to \in LoaderPlaces, NEW kind, NEW deleted,
         Fail(from, to, kind, deleted)
  PROVE  TypeOK'
BY DEF Fail, TypeOK, processors, calls

LEMMA CleanupTypes ==
  ASSUME TypeOK, NEW from, NEW to \in LoaderPlaces,
         CleanupVmmContext(from, to)
  PROVE  TypeOK'
BY DEF CleanupVmmContext, TypeOK, LoaderPlaces, processors, calls

LEMMA DeleteTypes ==
  ASSUME TypeOK, NEW from, NEW to \in LoaderPlaces, NEW kind,
         Delete(from, to, kind)
  PROVE  TypeOK'
BY DEF Delete, TypeOK, processors, calls

LEMMA BroadcastTypes ==
  ASSUME TypeOK, NEW from, NEW to \in LoaderPlaces,
         NEW worker \in {"vmm_setup_stub", "terminate_cpu"},
         KeIpiGenericCall(from, to, worker), caught' \in SUBSET Threads
  PROVE  TypeOK'
BY DEF KeIpiGenericCall, TypeOK, WorkerPlaces, memory

LEMMA HookTypes ==
  ASSUME TypeOK, NEW t \in Threads, NEW from, NEW to \in HookPlaces,
         HookGoto(t, from, to)
  PROVE  TypeOK'
BY DEF HookGoto, TypeOK, loader, memory, processors

LEMMA TypesInductive == TypeOK /\ [Next]_vars => TypeOK'
<1> SUFFICES ASSUME TypeOK, [Next]_vars PROVE TypeOK'
  OBVIOUS
<1>1. CASE CreateLogBuffer \/ CreateDevice \/ CreateSymbolicLink \/ CheckCpu
  BY <1>1, MakeTypes, FailTypes
  DEF CreateLogBuffer, CreateDevice, CreateSymbolicLink, CheckCpu,
      LoaderPlaces, PoolKinds, DriverKinds
<1>2. CASE AllocContext \/ AllocVcpuTable \/ AllocMsrBitmap \/ AllocVmcsFails
  BY <1>2, MakeTypes, FailTypes
  DEF AllocContext, AllocVcpuTable, AllocMsrBitmap, AllocVmcsFails,
      LoaderPlaces, PoolKinds, ContextKinds
<1>3. CASE AllocVcpu
  BY <1>3, AllocVcpuTypes
<1>4. CASE AllocDone
  BY <1>4 DEF AllocDone, TypeOK, LoaderPlaces, memory, processors, calls
<1>5. CASE UndoAlloc \/ Cleanup
  BY <1>5, CleanupTypes DEF UndoAlloc, Cleanup, LoaderPlaces
<1>6. CASE CreateHooks
  BY <1>6, MakeTypes DEF CreateHooks, LoaderPlaces, PoolKinds
<1>7. CASE BroadcastSetup \/ BroadcastTerminate
  BY <1>7, BroadcastTypes
  DEF BroadcastSetup, BroadcastTerminate, LoaderPlaces, TypeOK
<1>8. CASE BroadcastEnds
  BY <1>8 DEF BroadcastEnds, TypeOK, LoaderPlaces, WorkerPlaces, memory,
             calls
<1>9. CASE DeleteLogBuffer \/ DeleteEngine \/ DeleteRegistry
  BY <1>9, DeleteTypes
  DEF DeleteLogBuffer, DeleteEngine, DeleteRegistry, LoaderPlaces
<1>10. CASE AddDriver \/ RemoveDriver \/ DriverUnload
  <2>1. CASE AddDriver \/ RemoveDriver
    BY <2>1, MakeTypes, DeleteTypes
    DEF AddDriver, RemoveDriver, LoaderPlaces, PoolKinds
  <2>2. CASE DriverUnload
    BY <2>2 DEF DriverUnload, TypeOK, LoaderPlaces, memory, processors, calls
  <2> QED
    BY <1>10, <2>1, <2>2
<1>11. ASSUME NEW c \in Cpus, Worker(c)
       PROVE  TypeOK'
  <2>1. CASE VmxOn(c) \/ SetupVmcsFields(c) \/ VmLaunch(c) \/ SetupFails(c)
    BY <2>1, NumberInTable
    DEF VmxOn, SetupVmcsFields, VmLaunch, SetupFails, Goto,
        TypeOK, WorkerPlaces, loader, memory, calls
  <2>2. CASE \/ VmxOffExit(c) \/ PrepareVmxoffGlobals(c) \/ LeaveVmx(c)
             \/ Collides(c)
    BY <2>2
    DEF VmxOffExit, PrepareVmxoffGlobals, LeaveVmx, Collides, Goto,
        TypeOK, WorkerPlaces, loader, memory, calls
  <2> QED
    BY <1>11, <2>1, <2>2 DEF Worker, WorkerStep
<1>12. ASSUME NEW c \in Cpus, VmExit(c) \/ VmResume(c)
       PROVE  TypeOK'
  BY <1>12 DEF VmExit, VmResume, TypeOK, loader, memory, calls
<1>13. ASSUME NEW t \in Threads, Callback(t)
       PROVE  TypeOK'
  BY <1>13, HookTypes
  DEF Callback, HookCalled, LookupJumpStub, OriginalReturns, LogCall,
      NotLogged, HookPlaces
<1>14. CASE UNCHANGED vars
  BY <1>14 DEF vars, TypeOK, loader, memory, processors, calls
<1> QED
  BY <1>1, <1>2, <1>3, <1>4, <1>5, <1>6, <1>7, <1>8, <1>9, <1>10, <1>11,
     <1>12, <1>13, <1>14
  DEF Next, Loader

(* The type invariant of the whole life cycle. *)
THEOREM TypeInvariant == Spec => []TypeOK
<1>1. Init => TypeOK
  BY InitInv DEF Inv
<1> QED
  BY <1>1, TypesInductive, PTL DEF Spec

-----------------------------------------------------------------------------
LEMMA PoolInductive == Inv /\ [Next]_vars => PoolInv'
<1> SUFFICES ASSUME Inv, [Next]_vars PROVE PoolInv'
  OBVIOUS
<1> USE DEF PoolInv, PoolIs, WithContext, WithoutContext, GoneWithContext,
            HostingPlaces, DeletingPlaces, NameKinds
<1>0. PoolInv /\ VcpuInv /\ WorkerInv /\ context \in BOOLEAN
  BY DEF Inv, TypeOK
<1>1. CASE CreateLogBuffer
  BY <1>0, <1>1 DEF CreateLogBuffer, Make
<1>2. CASE CreateDevice
  BY <1>0, <1>2 DEF CreateDevice, Make, Fail
<1>3. CASE CreateSymbolicLink
  BY <1>0, <1>3 DEF CreateSymbolicLink, Make, Fail, DriverKinds
<1>4. CASE CheckCpu
  BY <1>0, <1>4 DEF CheckCpu, Make, DriverKinds
<1>5. CASE AllocContext
  BY <1>0, <1>5 DEF AllocContext, Make, Fail, DriverKinds
<1>6. CASE AllocVcpuTable
  BY <1>0, <1>6 DEF AllocVcpuTable, Make, Fail, DriverKinds
<1>7. CASE AllocMsrBitmap
  BY <1>0, <1>7 DEF AllocMsrBitmap, Make, Fail, DriverKinds, ContextKinds
<1>8. CASE AllocVmcsFails
  BY <1>0, <1>8 DEF AllocVmcsFails, Fail
<1>9. CASE AllocVcpu
  BY <1>0, <1>9 DEF AllocVcpu
<1>10. CASE AllocDone
  BY <1>0, <1>10 DEF AllocDone, memory
<1>11. CASE UndoAlloc
  BY <1>0, <1>11 DEF UndoAlloc, CleanupVmmContext, DriverKinds, ContextKinds
<1>12. CASE CreateHooks
  BY <1>0, <1>12 DEF CreateHooks, Make, HostingKinds, HookKinds,
                     LeakedHookKinds
<1>13. CASE BroadcastSetup \/ BroadcastTerminate
  BY <1>0, <1>13
  DEF BroadcastSetup, BroadcastTerminate, KeIpiGenericCall, memory
<1>14. CASE BroadcastEnds
  <2>1. \/ broadcast = "vmm_setup_stub" /\ pc = "setting_up"
        \/ broadcast = "terminate_cpu" /\ pc = "terminating"
    BY <1>14 DEF BroadcastEnds, WorkerInv, Inv, TypeOK
  <2> QED
    BY <1>0, <1>14, <2>1 DEF BroadcastEnds, memory
<1>15. CASE AddDriver \/ RemoveDriver \/ DriverUnload
  BY <1>0, <1>15
  DEF AddDriver, RemoveDriver, DriverUnload, Make, Delete, memory
<1>16. CASE DeleteLogBuffer \/ DeleteEngine \/ DeleteRegistry
  BY <1>0, <1>16
  DEF DeleteLogBuffer, DeleteEngine, DeleteRegistry, Delete,
      HostingKinds, DriverKinds, ContextKinds, HookKinds, LeakedHookKinds
<1>17. CASE Cleanup
  BY <1>0, <1>17 DEF Cleanup, CleanupVmmContext, ContextKinds,
                     LeakedHookKinds
<1>18. CASE UNCHANGED <<loader, memory>>
  BY <1>0, <1>18 DEF loader, memory
<1> QED
  BY <1>1, <1>2, <1>3, <1>4, <1>5, <1>6, <1>7, <1>8, <1>9, <1>10, <1>11,
     <1>12, <1>13, <1>14, <1>15, <1>16, <1>17, <1>18, OthersLeaveMemory
  DEF Next, Loader

-----------------------------------------------------------------------------
(* The pointers that cleanup_vmm_context follows lead to live objects. *)
LEMMA CompleteIsFreed ==
  ASSUME NEW c \in Cpus, Complete(c)
  PROVE  /\ "msr_bitmap" \in fields[c]
         /\ fields[c] \cap VcpuKinds \subseteq owned[c]
         /\ owned[c] \ fields[c] \subseteq {"ept"}
BY DEF Complete, FieldsSet, VcpuKinds

LEMMA VcpuInductive == Inv /\ [Next]_vars => VcpuInv'
<1> SUFFICES ASSUME Inv, [Next]_vars PROVE VcpuInv'
  OBVIOUS
<1> USE DEF VcpuInv, WithContext, WithoutContext, GoneWithContext, EarlyPlaces,
            HostingPlaces, DeletingPlaces
<1>0. /\ PoolInv /\ VcpuInv /\ WorkerInv /\ context \in BOOLEAN
      /\ next \in 0 .. ProcessorCount
      /\ 0 \in Cpus
  BY CountAssumption DEF Inv, TypeOK, Cpus
<1>1. CASE \/ CreateLogBuffer \/ CreateDevice \/ CreateSymbolicLink
           \/ CheckCpu \/ AllocContext \/ AllocVcpuTable \/ AllocVmcsFails
  BY <1>0, <1>1
  DEF CreateLogBuffer, CreateDevice, CreateSymbolicLink, CheckCpu,
      AllocContext, AllocVcpuTable, AllocVmcsFails, Make, Fail, Blank, PoolInv
<1>2. CASE AllocMsrBitmap
  BY <1>0, <1>2 DEF AllocMsrBitmap, Make, Fail, Blank, PoolInv, Cpus
<1>3. CASE AllocVcpu
  <2>1. /\ pc = "alloc_vcpu"
        /\ next \in Cpus
        /\ \A c \in Cpus : IF c < next THEN Complete(c) ELSE Blank(c)
    BY <1>0, <1>3, CountAssumption DEF AllocVcpu, MoreVcpus, Cpus
  <2>2. PICK got \in SUBSET VcpuKinds, part \in SUBSET {"ept"} :
          /\ owned' = [owned EXCEPT ![next] = got \cup part]
          /\ fields' = [fields EXCEPT ![next] = FieldsSet(got)]
          /\ IF got = VcpuKinds
               THEN next' = next + 1 /\ UNCHANGED pc
               ELSE pc' = "undo_alloc" /\ UNCHANGED next
    BY <1>3 DEF AllocVcpu, EptLeft
  <2>3. /\ owned'[next] = got \cup part
        /\ fields'[next] = FieldsSet(got)
        /\ \A c \in Cpus \ {next} :
             owned'[c] = owned[c] /\ fields'[c] = fields[c]
    BY <2>1, <2>2 DEF Inv, TypeOK
  <2>4. CASE got = VcpuKinds
    <3>1. \A c \in Cpus :
            /\ c = next => Complete(c)'
            /\ c # next /\ Complete(c) => Complete(c)'
            /\ c # next /\ Blank(c) => Blank(c)'
      BY <2>3, <2>4 DEF Complete, Blank, VcpuKinds
    <3>2. pc' = "alloc_vcpu" /\ next' = next + 1
      BY <2>1, <2>2, <2>4
    <3>3. \A c \in Cpus : IF c < next' THEN Complete(c)' ELSE Blank(c)'
      BY <1>0, <2>1, <3>1, <3>2 DEF Cpus
    <3> QED
      BY <3>2, <3>3
  <2>5. CASE got # VcpuKinds
    <3>1. pc' = "undo_alloc"
      BY <2>2, <2>5
    <3>2. ASSUME NEW c \in Cpus
          PROVE  /\ "msr_bitmap" \in fields'[c] \/ next < c
                 /\ fields'[c] \cap VcpuKinds \subseteq owned'[c]
                 /\ owned'[c] \ fields'[c] \subseteq {"ept"}
      <4>1. CASE c = next
        BY <2>3, <4>1 DEF FieldsSet, VcpuKinds
      <4>2. CASE c # next /\ c < next
        BY <2>1, <2>3, <4>2, CompleteIsFreed
      <4>3. CASE c # next /\ ~(c < next)
        BY <1>0, <2>1, <2>3, <4>3 DEF Blank, Cpus
      <4> QED
        BY <4>1, <4>2, <4>3
    <3> QED
      BY <1>0, <3>1, <3>2
  <2> QED
    BY <2>4, <2>5
<1>4. CASE AllocDone
  <2>1. \A c \in Cpus : c < next
    BY <1>0, <1>4, CountAssumption DEF AllocDone, MoreVcpus, Cpus
  <2> QED
    BY <1>0, <1>4, <2>1 DEF AllocDone, memory, Complete
<1>5. CASE UndoAlloc
  BY <1>0, <1>5 DEF UndoAlloc, CleanupVmmContext, PoolInv, Inv, TypeOK
<1>6. CASE CreateHooks
  BY <1>0, <1>6 DEF CreateHooks, Make, Complete
<1>7. CASE BroadcastSetup \/ BroadcastTerminate
  BY <1>0, <1>7
  DEF BroadcastSetup, BroadcastTerminate, KeIpiGenericCall, memory, Complete
<1>8. CASE BroadcastEnds
  <2>1. pc \in {"setting_up", "terminating"}
    BY <1>8 DEF BroadcastEnds, WorkerInv, Inv, TypeOK
  <2> QED
    BY <1>0, <1>8, <2>1 DEF BroadcastEnds, memory, Complete, PoolInv
<1>9. CASE AddDriver \/ RemoveDriver \/ DriverUnload
  BY <1>0, <1>9
  DEF AddDriver, RemoveDriver, DriverUnload, Make, Delete, memory, Complete
<1>10. CASE DeleteLogBuffer \/ DeleteEngine \/ DeleteRegistry
  BY <1>0, <1>10
  DEF DeleteLogBuffer, DeleteEngine, DeleteRegistry, Delete, Complete
<1>11. CASE Cleanup
  <2>1. /\ \A c \in Cpus : owned'[c] = owned[c] \ fields[c]
        /\ pc' \in {"gone", "bad_free"} /\ UNCHANGED context /\ context
        /\ \A c \in Cpus : Complete(c)
    BY <1>0, <1>11 DEF Cleanup, CleanupVmmContext, Inv, TypeOK, PoolInv
  <2>2. \A c \in Cpus : owned'[c] = {"ept"}
    BY <2>1 DEF Complete, FieldsSet, VcpuKinds
  <2> QED
    BY <2>1, <2>2
<1>12. CASE UNCHANGED <<loader, memory>>
  BY <1>0, <1>12 DEF loader, memory, Complete, Blank
<1> QED
  BY <1>1, <1>2, <1>3, <1>4, <1>5, <1>6, <1>7, <1>8, <1>9, <1>10, <1>11,
     <1>12, OthersLeaveMemory
  DEF Next, Loader

-----------------------------------------------------------------------------
LEMMA WorkerInductive == Inv /\ [Next]_vars => WorkerInv'
<1> SUFFICES ASSUME Inv, [Next]_vars PROVE WorkerInv'
  OBVIOUS
<1> USE DEF WorkerInv, Hosted
<1>0. /\ PoolInv /\ WorkerInv
      /\ context \in BOOLEAN
      /\ broadcast \in {"none", "vmm_setup_stub", "terminate_cpu"}
      /\ at \in [Cpus -> WorkerPlaces]
      /\ mode \in [Cpus -> {"native", "root", "guest"}]
      /\ using \in [Cpus -> Cpus]
  BY DEF Inv, TypeOK
(* No processor is hosted before the first broadcast and after the last. *)
<1>1. CASE \/ CreateLogBuffer \/ CreateDevice \/ CreateSymbolicLink
           \/ CheckCpu \/ AllocContext \/ AllocVcpuTable \/ AllocMsrBitmap
           \/ AllocVmcsFails
  <2>1. /\ pc \notin {"setting_up", "terminating", "loaded", "broadcast_off"}
        /\ pc' \notin {"setting_up", "terminating", "broadcast_off"}
        /\ ~context
        /\ UNCHANGED <<context, processors>>
    BY <1>0, <1>1
    DEF CreateLogBuffer, CreateDevice, CreateSymbolicLink, CheckCpu,
        AllocContext, AllocVcpuTable, AllocMsrBitmap, AllocVmcsFails, Make,
        Fail, PoolInv, WithContext, HostingPlaces, DeletingPlaces
  <2> QED
    BY <1>0, <2>1 DEF processors
<1>2. CASE AllocVcpu \/ AllocDone \/ UndoAlloc \/ CreateHooks
  <2>1. /\ pc \notin {"setting_up", "terminating", "loaded", "broadcast_off"}
        /\ pc' \notin {"setting_up", "terminating", "broadcast_off"}
        /\ pc' = "loaded" => ~context'
        /\ UNCHANGED processors
    BY <1>0, <1>2
    DEF AllocVcpu, AllocDone, UndoAlloc, CreateHooks, Make,
        CleanupVmmContext, PoolInv, WithContext, HostingPlaces, DeletingPlaces
  <2> QED
    BY <1>0, <2>1 DEF processors
<1>3. CASE DeleteLogBuffer \/ DeleteEngine \/ DeleteRegistry \/ Cleanup
  <2>1. /\ pc \notin {"setting_up", "terminating", "loaded", "broadcast_off"}
        /\ pc' \notin {"setting_up", "terminating", "loaded", "broadcast_off"}
        /\ UNCHANGED processors
    BY <1>3
    DEF DeleteLogBuffer, DeleteEngine, DeleteRegistry, Delete, Cleanup,
        CleanupVmmContext
  <2> QED
    BY <1>0, <2>1 DEF processors
<1>4. CASE BroadcastSetup \/ BroadcastTerminate
  BY <1>0, <1>4
  DEF BroadcastSetup, BroadcastTerminate, KeIpiGenericCall, PoolInv,
      WithContext, HostingPlaces
<1>5. CASE BroadcastEnds
  BY <1>0, <1>5 DEF BroadcastEnds, PoolInv, WithContext, HostingPlaces
<1>6. CASE AddDriver \/ RemoveDriver \/ DriverUnload
  BY <1>0, <1>6
  DEF AddDriver, RemoveDriver, DriverUnload, Make, Delete, processors
<1>7. ASSUME NEW c \in Cpus, Worker(c)
      PROVE  WorkerInv'
  <2>1. CASE VmxOn(c)
    BY <1>0, <2>1 DEF VmxOn, Goto, loader
  <2>2. CASE SetupVmcsFields(c) \/ SetupFails(c)
    BY <1>0, <2>2 DEF SetupVmcsFields, SetupFails, Goto, loader
  <2>3. CASE VmLaunch(c)
    BY <1>0, <2>3 DEF VmLaunch, Goto, loader
  <2>4. CASE VmxOffExit(c) \/ PrepareVmxoffGlobals(c)
    BY <1>0, <2>4 DEF VmxOffExit, PrepareVmxoffGlobals, Goto, loader
  <2>5. CASE LeaveVmx(c)
    BY <1>0, <2>5 DEF LeaveVmx, Goto, loader
  <2>6. CASE Collides(c)
    BY <1>0, <2>6 DEF Collides, loader
  <2> QED
    BY <1>7, <2>1, <2>2, <2>3, <2>4, <2>5, <2>6 DEF Worker, WorkerStep
<1>8. ASSUME NEW c \in Cpus, VmExit(c) \/ VmResume(c)
      PROVE  WorkerInv'
  BY <1>0, <1>8 DEF VmExit, VmResume, loader
<1>9. ASSUME NEW t \in Threads, Callback(t)
      PROVE  WorkerInv'
  BY <1>0, <1>9
  DEF Callback, HookCalled, LookupJumpStub, OriginalReturns, LogCall,
      NotLogged, HookGoto, loader, processors
<1>10. CASE UNCHANGED vars
  BY <1>0, <1>10 DEF vars, loader, processors
<1> QED
  BY <1>1, <1>2, <1>3, <1>4, <1>5, <1>6, <1>7, <1>8, <1>9, <1>10
  DEF Next, Loader

LEMMA InvInductive == Inv /\ [Next]_vars => Inv'
BY TypesInductive, PoolInductive, VcpuInductive, WorkerInductive DEF Inv

LEMMA Invariance == Spec => []Inv
BY InitInv, InvInductive, PTL DEF Spec

-----------------------------------------------------------------------------
(* A processor is hosted only where the whole context is live. *)
LEMMA HostedPlaces ==
  ASSUME Inv, NEW c \in Cpus, Hosted(c)
  PROVE  pc \in HostingPlaces \/ (pc = "loaded" /\ context)
BY DEF Inv, TypeOK, WorkerInv, HostingPlaces

(* Nothing a processor in VMX operation refers to is ever deleted. *)
THEOREM HostStaysAlive == Spec => []HostAlive
<1>1. Inv => HostAlive
  <2> SUFFICES ASSUME Inv, NEW c \in Cpus, Hosted(c)
               PROVE  /\ owned[using[c]] = VcpuKinds
                      /\ ContextKinds \cup HookKinds \cup LeakedHookKinds
                           \subseteq pool
    BY DEF HostAlive
  <2>1. pc \in HostingPlaces \/ (pc = "loaded" /\ context)
    BY HostedPlaces
  <2>2. pool \ NameKinds = HostingKinds
    BY <2>1 DEF Inv, PoolInv, PoolIs
  <2>3. using[c] \in Cpus
    BY DEF Inv, TypeOK
  <2>4. Complete(using[c])
    BY <2>1, <2>3 DEF Inv, VcpuInv, WithContext
  <2> QED
    BY <2>2, <2>4 DEF HostingKinds, Complete
<1> QED
  BY <1>1, Invariance, PTL

(* Outside of the broadcasts all processors are hosted or none is. *)
THEOREM HostedTogether == Spec => []AllTogether
<1>1. Inv => AllTogether
  BY DEF Inv, WorkerInv, AllTogether
<1> QED
  BY <1>1, Invariance, PTL

(* Whatever fails, nothing is freed twice or through a pointer never set,   *)
(* and what stays allocated is exactly what FreedOrLeaked lists.            *)
THEOREM FreesExact == Spec => []FreedOrLeaked
<1> DEFINE Safe == Inv /\ pc # "bad_free"
<1>1. Init => Safe
  BY InitInv DEF Init
<1>2. Safe /\ [Next]_vars => Safe'
  <2> SUFFICES ASSUME Inv, pc # "bad_free", [Next]_vars
               PROVE  pc' # "bad_free"
    BY InvInductive
  <2>0. 0 \in Cpus
    BY CountAssumption DEF Cpus
  <2>1. CASE UndoAlloc \/ Cleanup
    <3>1. FreesLiveObjects
      BY <2>0, <2>1, CompleteIsFreed
      DEF UndoAlloc, Cleanup, CleanupVmmContext, FreesLiveObjects, Inv,
          PoolInv, PoolIs, VcpuInv, WithContext, DeletingPlaces
    <3> QED
      BY <2>1, <3>1 DEF UndoAlloc, Cleanup, CleanupVmmContext
  <2>2. CASE Loader /\ ~(UndoAlloc \/ Cleanup)
    BY <2>2
    DEF Loader, CreateLogBuffer, CreateDevice, CreateSymbolicLink, CheckCpu,
        AllocContext, AllocVcpuTable, AllocMsrBitmap, AllocVmcsFails,
        AllocVcpu, AllocDone, CreateHooks, BroadcastSetup, BroadcastTerminate,
        KeIpiGenericCall, BroadcastEnds, DeleteLogBuffer, DeleteEngine,
        DeleteRegistry, Delete, Make, Fail
  <2>3. CASE AddDriver \/ RemoveDriver \/ DriverUnload
    BY <2>3 DEF AddDriver, RemoveDriver, DriverUnload, Make, Delete
  <2>4. CASE UNCHANGED <<loader, memory>>
    BY <2>4 DEF loader
  <2> QED
    BY <2>1, <2>2, <2>3, <2>4, OthersLeaveMemory DEF Next
<1>3. Safe => FreedOrLeaked
  BY DEF Inv, PoolInv, PoolIs, VcpuInv, Blank, WithoutContext,
         GoneWithContext, FreedOrLeaked, LiveIs
<1> QED
  BY <1>1, <1>2, <1>3, PTL DEF Spec

-----------------------------------------------------------------------------
(* A thread in a callback was caught there by the unload, or runs while all *)
(* processors are hosted.                                                   *)
CallbackInv ==
  \A t \in Threads :
    /\ hook[t] = "lost" => t \in caught
    /\ hook[t] # "idle" =>
         \/ t \in caught
         \/ /\ broadcast = "none"
            /\ pc \in {"loaded", "broadcast_off"}
            /\ context

(* Only a thread caught in a callback by the unload uses what it deletes. *)
THEOREM OthersUnharmed == Spec => []OnlyCaughtLost
<1>1. Init => CallbackInv
  BY DEF Init, CallbackInv
<1>2. Inv /\ CallbackInv /\ [Next]_vars => CallbackInv'
  <2> SUFFICES ASSUME Inv, CallbackInv, [Next]_vars
               PROVE  CallbackInv'
    OBVIOUS
  <2> USE DEF CallbackInv
  <2>0. hook \in [Threads -> HookPlaces]
    BY DEF Inv, TypeOK
  <2>1. ASSUME NEW t \in Threads, HookCalled(t)
        PROVE  CallbackInv'
    <3>1. /\ broadcast = "none"
          /\ pc \in {"loaded", "broadcast_off"}
          /\ context
      BY <2>1 DEF HookCalled, HookGoto, Inv, WorkerInv, Hosted
    <3> QED
      BY <2>0, <2>1, <3>1
      DEF HookCalled, HookGoto, loader, processors
  <2>2. ASSUME NEW t \in Threads, Callback(t), ~HookCalled(t)
        PROVE  CallbackInv'
    <3>1. hook[t] # "idle"
      BY <2>2
      DEF Callback, LookupJumpStub, OriginalReturns, LogCall, NotLogged,
          HookGoto
    <3>2. \/ t \in caught
          \/ {"registry", "jump_stubs", "log_buffer"} \subseteq pool
      BY <3>1 DEF Inv, PoolInv, PoolIs, HostingPlaces, HostingKinds, HookKinds,
                  LeakedHookKinds, DriverKinds
    <3>3. hook'[t] = "lost" => t \in caught
      BY <2>0, <2>2, <3>2
      DEF Callback, LookupJumpStub, OriginalReturns, LogCall, NotLogged,
          HookGoto
    <3>4. /\ UNCHANGED <<loader, processors, caught>>
          /\ \A u \in Threads \ {t} : hook'[u] = hook[u]
      BY <2>0, <2>2
      DEF Callback, LookupJumpStub, OriginalReturns, LogCall, NotLogged,
          HookGoto
    <3> QED
      BY <3>1, <3>3, <3>4 DEF loader, processors
  <2>3. CASE BroadcastTerminate
    <3>1. /\ caught' = {t \in Threads : hook[t] # "idle"}
          /\ hook' = hook
      BY <2>3 DEF BroadcastTerminate, KeIpiGenericCall
    <3> QED
      BY <3>1
  <2>4. CASE Loader /\ ~BroadcastTerminate
    <3>1. \A t \in Threads : hook[t] # "idle" => t \in caught
      BY <2>4
      DEF Loader, CreateLogBuffer, CreateDevice, CreateSymbolicLink,
          CheckCpu, AllocContext, AllocVcpuTable, AllocMsrBitmap,
          AllocVmcsFails, AllocVcpu, AllocDone, UndoAlloc, CreateHooks,
          BroadcastSetup, KeIpiGenericCall, BroadcastEnds, DeleteLogBuffer,
          DeleteEngine, DeleteRegistry, Delete, Cleanup, CleanupVmmContext,
          Make, Fail
    <3>2. UNCHANGED <<hook, caught>>
      BY <2>4
      DEF Loader, CreateLogBuffer, CreateDevice, CreateSymbolicLink,
          CheckCpu, AllocContext, AllocVcpuTable, AllocMsrBitmap,
          AllocVmcsFails, AllocVcpu, AllocDone, UndoAlloc, CreateHooks,
          BroadcastSetup, KeIpiGenericCall, BroadcastEnds, DeleteLogBuffer,
          DeleteEngine, DeleteRegistry, Delete, Cleanup, CleanupVmmContext,
          Make, Fail, calls
    <3> QED
      BY <3>1, <3>2
  <2>5. CASE AddDriver \/ RemoveDriver \/ DriverUnload
    BY <2>5
    DEF AddDriver, RemoveDriver, DriverUnload, Make, Delete, processors, calls
  <2>6. ASSUME NEW c \in Cpus, Worker(c)
        PROVE  CallbackInv'
    <3>1. UNCHANGED <<loader, broadcast, calls>>
      BY <2>6
      DEF Worker, WorkerStep, VmxOn, SetupVmcsFields, VmLaunch, SetupFails, VmxOffExit,
          PrepareVmxoffGlobals, LeaveVmx, Collides, Goto
    <3> QED
      BY <3>1 DEF loader, calls
  <2>7. ASSUME NEW c \in Cpus, VmExit(c) \/ VmResume(c)
        PROVE  CallbackInv'
    BY <2>7 DEF VmExit, VmResume, loader, calls
  <2>8. CASE UNCHANGED vars
    BY <2>8 DEF vars, loader, processors, calls
  <2> QED
    BY <2>1, <2>2, <2>3, <2>4, <2>5, <2>6, <2>7, <2>8 DEF Next
<1>3. CallbackInv => OnlyCaughtLost
  BY DEF CallbackInv, OnlyCaughtLost
<1> QED
  BY <1>1, <1>2, <1>3, Invariance, PTL DEF Spec

=============================================================================
