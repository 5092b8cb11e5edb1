# KernelMon in TLA+

KernelMon is a Windows driver (`src/KernelMonitor`) that puts itself under the
running system as a hypervisor, hooks five kernel functions through the
extended page tables (EPT) and logs the calls that chosen drivers make to
them, and a program (`src/KernelMon`) that chooses the drivers and shows the
log.  This directory holds TLA+ models of it, the TLC configurations that
check them, and proofs that TLAPS checks.

Paths below are relative to `src/KernelMonitor` unless they begin with `src/`.

## 1. The system

| part | state it keeps | operations | works with |
|---|---|---|---|
| Hooking engine (`HookingEngine`, `EptHook`) | `function_hooks_`, a null entry for a function that shares a page; `expected_mtf_function_index_`, shared by all processors; per hook the patched and the original page and one EPT entry per processor | constructor, `handle_ept_violation`, `handle_mtf`, `add_function_hook` | called by the VM exit handler of each processor, in VMX root mode |
| Jump stubs (`HookInfoManager`) | function to jump stub | constructor, `set_jump_stub`, `lookup_jump_stub` | written by the hooks, read by the callbacks |
| Hook callbacks (`hook_callbacks.cpp`) | none | one per hooked function: call the original, look the caller up, log the call | read the table of drivers, push into the log buffer, in the context of any thread |
| Table of monitored drivers (`KernelMonitor.cpp`) | five pointers to names in the pool | AddDriver, RemoveDriver, ResetState | changed by requests, read by callbacks, no lock |
| Log buffer (`CyclicBuffer`, `SpinLock`, `LockGuard`) | ten entries, two positions, `full_`; a spin lock and the IRQL of its holder | `push`, `pop`, `reset` | pushed by callbacks, popped by GetData |
| KernelMon.exe | list of names, list of logs, the handle | window: add, remove, timer; console: add, receive | requests to the driver |
| VMX life cycle (`vmx.cpp`, `context.cpp`, `asm_stubs.asm`, `vmxoff_stubs.cpp`) | one `VCpu` per processor, `g_guest_rip`, `g_guest_rsp` | `initialize_vmx`, `terminate_vmx`, both on all processors at once | creates and deletes everything above |
| VM exits (`vmexit.cpp`) | the VMCS of the processor | one handler per exit reason | calls the hooking engine |
| EPT and VMCS set-up (`ept.cpp`, `vmcs_fields.cpp`) | identity map, control fields | `setup_ept`, `split_large_pdte`, `setup_vmcs_fields` | run before the launch |
| Disassembler (`nmd_assembly.h`, third-party) | none; tables of opcodes | `nmd_x86_ldisasm`, which the hooks call; `nmd_x86_decode`, the other half of the file | tells the hooks where instructions end |

What is hard here:

- **Handlers of different processors run at the same time** and share one
  index without a lock; a window (hook lifted, monitor trap flag on) lasts
  several exits, and interrupts fall into it.
- **Processors cache translations**, so changing an entry is not enough.
- **Callbacks run in any thread** at any moment, also while a request changes
  the table they read, and while another thread of the same processor waits
  for the lock they hold.
- **Full and empty**: ten entries filled by whole drivers and emptied once a
  second; five slots for names.
- **KernelMon.exe comes and goes** while the driver stays.
- **Set-up and unload** involve all processors at once and may fail half way.
- **A hook is made of bytes**: instructions are counted, copied and jumped
  over, and pages split, before any of it can be tried out.
- **What is emulated** must be what the processor would have done, with the
  guest's registers spread over the stack, the VMCS and the processor.
- **Tables that must agree** are written out by hand several times over.

What makes each part correct:

- Hooking engine: the guest never sees the patch in data and never executes
  the page without it; a lifted hook comes back; instructions finish.
- Installation: a call of a hooked function runs the callback and the whole
  original, once, and nothing else in memory moves.
- VM exits: but for what is documented, the guest cannot tell, from before the
  driver takes the processor until after it has given it back.
- Disassembler: its lengths are those of the instruction format, and its two
  halves agree.
- Log buffer: it is a bounded queue; the lock excludes, is released, and gives
  every caller its IRQL back.
- Table: no block is leaked or freed twice, what the user sees is what is
  monitored, a driver that is monitored is found.
- Pipeline: what was accepted is shown, once and in order.
- Life cycle: processors enter and leave together, nothing a processor uses as
  a host is deleted, and what is not freed is known.

`PROJECT.json` lists every component, what can go wrong in it at which line,
and which definition models which lines.

## 2. Modules

| module | what it is |
|---|---|
| `TransparentHooks` | abstract specification: which copy of a hooked page an instruction must find |
| `HookEngine` | the engine's handlers at run time, on several processors |
| `HookEngineProofs` | theorems about it |
| `EptTables` | `setup_ept`, `split_large_pdte` and the processor's walk, as operators on tables |
| `HookInstall` | the constructors of the engine and the hooks, the jump stubs' registry, and what a call of a hooked function then does |
| `HookInstallProofs` | theorems about it and about the tables |
| `LogQueue` | abstract specification: a bounded queue, calls that take effect at one moment |
| `CyclicBuffer` | the log buffer and its lock, a step for each access to a field |
| `CyclicBufferProofs` | theorems about it, among them that it implements `LogQueue` |
| `MonitoredDrivers` | the table, the requests that change it, the search of the callbacks, the window's list |
| `MonitoredDriversProofs` | theorems about it |
| `LogPipeline` | composition: callbacks, the queue `LogQueue`, GetData, the window |
| `LogPipelineProofs` | theorems about it |
| `VmxLifecycle` | the driver from its entry to its unload: allocations, both broadcasts, the processors, the callbacks in flight |
| `VmxLifecycleProofs` | theorems about it |
| `GuestProcessor` | abstract specification: what the guest may rely on of a processor |
| `VmcsSetup` | the control registers and the fields of the VMCS as values, and the processor's checks of them |
| `VmExits` | one processor: the assembly stubs, the dispatch, every handler |
| `VmExitsProofs` | theorems about it |
| `X86Encoding` | operators on bytes that both disassemblers use: ModR/M, prefixes, invalid encodings, what may be locked |
| `LengthDisassembler` | `nmd_x86_ldisasm` |
| `Decoder`, with `InstructionIds`, `CpuFlags`, `InstructionOperands` | `nmd_x86_decode`: verdict and length; the id; flags and groups; operands |
| `InstructionFormat` | reference: lengths by the format and the opcode maps of the manual |
| `Disassemblers` | lays code down byte by byte and compares what the three say of it |
| `DisassemblersProofs` | theorems about that comparison, for any bytes |
| `MC...` | constants for TLC |

The composition is modular.  `CyclicBuffer` is proved to implement `LogQueue`,
and `LogPipeline` uses `LogQueue`'s actions for its buffer.  `HookInstall`
ends in an initial state of `HookEngine` (`EngineStarts`, under the mapping
`Engine`, which sees of a processor's tables the rights of each hooked page and
which of its two copies they lead to), and takes the boundaries of instructions for granted, which `Disassemblers`
examines and `DisassemblersProofs` proves of any code.  `VmExits` treats the two exits of the engine as far as the dispatch
goes, and what happens to one processor between the launch and `vmxoff`, which
`VmxLifecycle` has for all of them and without contents.

Definitions whose comment begins with "Mutant", or with "The bug ... guards
against", are not part of a specification.  Each is what the definition behind
it would be with a plausible mistake in the code, and shows that the property
named in `PROJECT.json` notices it.

### HookEngine

A processor is in the guest (`at = "guest"`) or in a handler.  Handlers run in
VMX root mode with interrupts off, and touch only their own processor's entry,
VMCS and TLB, except for the shared index; so each access to the index is a
step and everything between two of them is one step:

| code | steps |
|---|---|
| `HookingEngine::handle_ept_violation` | `ViolationIgnored`, or `ViolationHooked` (search and the whole of `EptHook::handle_ept_violation`) then `SetExpected` |
| `HookingEngine::handle_mtf` | `MtfCheck`, then `MtfHook` (with the whole of `EptHook::handle_mtf`) or `MtfWild` if the index was not negative, then `MtfReset` |

The handlers resume the guest at the same instruction, since neither advances
the instruction pointer.  The race on the index is undefined behaviour in C++;
a compiler may load the index once for the test and the use, or twice:
`ReloadIndex` chooses, and `TRUE` allows both outcomes.

The processor (external) begins an instruction with at most one fetch and some
data accesses, may be interrupted, retires if every translation it uses - the
entry, or what the TLB still holds - permits the access, and otherwise exits.
With the monitor trap flag on it exits after the instruction, or after an
interrupt was delivered instead of it.  `Unmapped` stands for addresses beyond
the 512 GB that `setup_ept` maps: the engine finds no hook there and resumes.
Break points and debug prints are left out, and so is the content of pages:
a page is the patched copy or the original.  Each processor has an entry of its
own: `ptes_` is indexed by the number within the processor group, so this is
the engine on a machine with one group.

### EptTables and HookInstall

A guest physical page is a number, and a table a function of two indices, with
as many entries as `EptTableEntries` says (512 in the code).  `HookPage` is the
body of the loop over the processors in the constructor of `EptHook`.

A byte of code is the instruction it belongs to and its place in it, so that a
jump into the middle of an instruction is noticed: such bytes are not `Whole`
and the thread cannot go on.  The copy of the page, the patch, the stub (which
belongs to its function, `stubs`), the registry and the tables of each
processor are values; the loops are steps:

| code | steps |
|---|---|
| `HookingEngine::HookingEngine` | `AddToHookedPage` or `NewEptHook` for each function, `Installed` |
| `EptHook::add_function_hook` | `Scan` for each instruction, then `InstallPatch` (stub, registry, patch) |
| the rest of `EptHook::EptHook` | `MapOnProcessor` for each processor, `HookMade` |
| a thread of the guest | `Begin`, `Execute` for each instruction |
| a hook callback | `CallStub`, `CallbackReturns` |

`Begin` also lets a thread go on behind the first 16 bytes of a function,
where it was before the driver was loaded.  `Native` is what the original does.

### GuestProcessor, VmcsSetup and VmExits

`VmExits` follows one processor: `SetupStub` (`processor_initialize_vmx` up to
the last field of the VMCS: `AdjustControlRegisters`, `EnableVmx`,
`EnableFeature`, VMXON, `SetupVmcsFields`), `VmLaunch` and `Entrypoint`;
`Fetch`, then `Execute` or `VmExit`; `SaveGp`, one action per case of
`vmexit_handler`, `IncrementRip`, and `VmResume` or `VmxoffHandler`.  The
stack is the list of what `SAVE_GP` pushes; `VmexitGuestContext` and
`RESTORE_GP` are two more lists, and each member is found by its place, as in
the code.  RSP, RIP, the control registers and the MSRs with a field are in the
VMCS between an exit and the next entry.  A control word is the set of its
bits' names, a word of a control register or MSR the set of its bits' numbers;
`VmxonAccepted` is what the processor checks at VMXON, `EntryAccepted` what it
checks at VMLAUNCH, the fixed bits of CR0 and CR4 included (of RFLAGS, which is
copied from the processor as it is, nothing is checked).  At a `__debugbreak`
of a handler the processor may stop for good or go on.

The abstract `GuestProcessor` runs an instruction in one step.  What shows is
in it, and only that:

- `Taken`: the driver sets the bits of CR0 and CR4 that VMX operation demands,
  sets CR4.VMXE, which the read shadow shows to the guest as it is, and locks
  IA32_FEATURE_CONTROL; VMXOFF undoes none of it;
- `Faults`: from then on CR0 and CR4 can only be given values VMX operation
  allows;
- `Hidden`: CPUID hides VMX and the hypervisor bit;
- `Unsupported`: a `MOV` between CR3 and R8-R15, which the handler does not
  know, or from CR3 to RSP may do nothing; the VMX instructions are passed over;
- `Losing`: at any exit the vector registers may be lost, which `SAVE_GP` does
  not save and compiled code may use, and DR7 and DEBUGCTL, unless the VMCS
  keeps them, which the driver does not ask for (`DebugKept`);
- VMXOFF takes back the control registers and the segment bases of the moment
  the processor was taken, and leaves the flags, the selectors, the limits of
  the descriptor tables and the debug registers as the exit has set them:
  `vmxoff_handler` restores the registers, RSP and RIP.

The registers of the last two are not modelled by value: `lost` says which of
them are no longer the guest's.

### Disassembler

Both functions are modelled in 64-bit mode, which the driver asks for, the
decoder with all its features.  Code is a function from positions to bytes.
`Prefixes` differs between the two, as in the code; `ThreeByte` and the
operators with the escape bytes in their names follow the branches, and the
tables of opcodes are sets.  Ids are computed from lists that stand in the
order of the enumeration, flags, groups and operands by case of the opcode, as
the code does, mistakes included.

`Disassemblers` adds a prefix or an opcode with its operands at each step, so
that every state is a piece of code with what the two functions return; it is
no state machine of the program, only a way to enumerate code.

### CyclicBuffer

A thread's call goes through `Call` (raise the IRQL), `Acquire`, `SaveIrql`,
the statements of `push`, `pop` or `reset`, `Unlock` (read the IRQL back),
`Release` and `Lower`.  `KeAcquireSpinLock` stores the old IRQL after it won
the lock, and the argument of `KeReleaseSpinLock` is read before it is called.
A thread at DISPATCH_LEVEL is not preempted on its processor; threads of other
processors run between any two steps.  `old_irql_` begins with any value and
the slots with garbage, since neither is initialised.

`Contents` maps the state to a queue.  Between `full_ = false` and the advance
of `tail_` in `pop`, and between the advance of `head_` and `full_ = ...` in
`push`, equal positions mean full although the flag is down: `Held` knows the
two places.

### MonitoredDrivers

`AddDriver` tests a slot, stores a new block, and copies the name to where the
slot points *then*; `RemoveDriver` compares, deletes and clears;
`ResetState` deletes and clears every slot.  The search loads a pointer and
compares through it later, so it may compare a block that was deleted
meanwhile, or one without a name yet: the answer is then either.  The window's
list is changed when the request returns, whatever it answered.  `kept` is a
history variable.  Allocation does not fail in the model (a failure stops the
system at the copy that follows).

### LogPipeline

A callback calls the original, then logs the call if the caller is monitored
(either way here; `MonitoredDrivers` models the decision), and pushes.  The
window's timer sends GetData: the driver sets the entry to None, pops into it,
and the window appends it to `logs_` if it is not None.  The window may be
closed at any time, also with an entry it has received and not shown.
`accepted` and `opened` are history variables.

### VmxLifecycle

The loader is the thread that runs `DriverEntry` and, later, `DriverUnload`;
`pc` says how far it is.  An allocation is a step that succeeds, or fails if it
is among `Fallible`; the body of the loop over the processors in
`alloc_vmm_context` is one step, since nobody else sees what it does.  An
object is live (`pool`, and `owned` for the objects of each `VCpu`) or not;
`fields` says which pointers of a `VCpu` are not null, so that a pointer
followed without an object behind it is noticed.

| code | steps |
|---|---|
| `DriverEntry` | `CreateLogBuffer`, `CreateDevice`, `CreateSymbolicLink`, `CheckCpu` |
| `vmx::alloc_vmm_context` | `AllocContext`, `AllocVcpuTable`, `AllocMsrBitmap`, `AllocVcpu` or `AllocVmcsFails` for each processor, then `AllocDone`, or `UndoAlloc` |
| `vmx::initialize_vmx` | `CreateHooks`, `BroadcastSetup`, `BroadcastEnds` |
| `vmm_setup_stub` and `processor_initialize_vmx`, on each processor | `VmxOn`, `SetupVmcsFields`, `VmLaunch`, or `SetupFails` at any of the three |
| `vmx::terminate_vmx` | `DriverUnload`, `BroadcastTerminate`, `BroadcastEnds`, `DeleteLogBuffer`, `DeleteEngine`, `DeleteRegistry`, `Cleanup` |
| the exit for `vmxoff`, on each processor | `VmxOffExit`, `PrepareVmxoffGlobals`, `LeaveVmx` |
| any other exit | `VmExit`, `VmResume` |
| a hook callback | `HookCalled`, `LookupJumpStub`, `OriginalReturns`, `LogCall` or `NotLogged` |

`AddDriver` and `RemoveDriver` are the requests as far as the unload is
concerned: whether a name is allocated.

The code has ways to stop the system, and the model goes there: `null_write`
(the context and each VMCS are written to before they are tested), `bad_free`
(a deletion through a pointer that was not set; never reached), and `lost`, of
a processor whose set-up fails, of one that shares its `VCpu`, of one that
leaves VMX operation on the stack of another, and of a callback that uses what
was deleted.  The allocations of the log buffer, the engine, the hooks and the
jump stubs' table are tested by nobody and taken to succeed.  The driver is
loaded once: what is left of it (`FreedOrLeaked`) makes a second `DriverEntry`
fail.  The contents of the VMCS and of page tables are in `VmExits` and
`EptTables`.  `g_guest_rip`, the pair of `g_guest_rsp`, has the same value on
every processor.

`context.cpp` makes one `VCpu` for each processor of all processor groups, and
`processor_initialize_vmx` takes the one at `KeGetCurrentProcessorNumber()`,
which counts within a group.  `Group` says which processor is in which, and
with two groups `CurrentVcpu` gives two processors the same `VCpu`.  What two
processors with one VMCS, one stack and one set of tables do is undefined; the
model lets either be lost in a broadcast (`Collides`) and, since a processor
may stay in the host for ever (`VmExit` without `VmResume`), hang in between.
What they overwrite through the shared memory is not modelled.

Nothing keeps the processors apart when they leave VMX operation, and nothing
waits for callbacks at the unload; the model assumes neither.  `caught` is a
history variable: the threads the unload took by surprise.

## 3. What the runs show

| run | instance | properties |
|---|---|---|
| `hook_install` | 2 processors, 4 functions on 3 pages in tables of 2 entries, every beginning of a function from instructions of 4, 7 and 15 bytes, fairness | `TypeOK`, `OnlyHooksMoved`, `EngineStarts`, `CallsIntercepted`, `InstallEnds`, `CallsReturn` |
| `hook_smp` | 2 processors, 3 functions on 2 pages, every kind of instruction, two loads of the index | `SplitView`, `TlbCoherent`, `Transparent` |
| `hook_serial` | 2 processors that never have a window open together, instructions with one hooked data page, two loads, fairness | `HookRestored`, `ExpectedNamesWindow`, `NoWildCall`, `InstructionEnds`, `SteppingEnds` |
| `hook_livelock` | 2 processors, fairness | `InstructionEnds` is **violated** |
| `buffer_queue` | 3 threads on 2 processors, 2 slots, 2 entries | `MutualExclusion`, `IrqlRestored`, `IsQueue` |
| `buffer_live` | 3 threads, 1 slot, fairness | `LockReleased` |
| `driver_table` | 1 KernelMon.exe, 1 searching thread, 3 slots, 2 names, 4 blocks | `BlocksOwned`, `ListMirrorsTable`, `StayingFound` |
| `pipeline` | 2 threads of 2 calls, 2 slots, fairness | `ShowsWhatLeft`, `AcceptedShown` |
| `lifecycle_failures` | 3 processors in 2 groups, 2 threads, any allocation may fail, any unload | `HostAlive`, `AllTogether`, `FreedOrLeaked`, `OnlyCaughtLost` |
| `lifecycle_broadcasts` | the same with 1 thread, fairness | `BroadcastsEnd` |
| `vm_exits` | words of 5 bits, 4 MSRs, programs of 3 instructions, a processor with true controls and one without, demands on CR0 and CR4 that it does not meet yet | `LaunchAccepted`, `ExitsTransparent` |
| `disassemblers` | every opcode of the two opcode maps, examples of the others, up to 2 prefixes, all shapes of operands, whole and cut off | `LengthIsEncoded`, `SameVerdict`, `FixedPartWithin`, `EncodingsAgree`, `LockedWritesMemory`, `BranchesMarked` |

The type invariants of `HookEngine`, `CyclicBuffer`, `LogPipeline`,
`VmExits`, `VmxLifecycle` and `MonitoredDrivers` are proved,
and no run repeats them.

**The finding.**  In `hook_livelock` two processors read hooked pages at the
same time.  One stores its index, the other's MTF exit consumes it and resets
it to -1, and the MTF exit of the first then calls no hook: that processor
keeps the original page mapped, not executable, with the monitor trap flag on.
When it later calls a hooked function, the fetch faults, the handler maps the
same view again, and so on: the call never returns.  What the run does *not*
break is as interesting: `Transparent` holds in all of this (`hook_smp`), so
the race costs progress and a possible call through `function_hooks_[-1]`
(when the index is loaded twice; `OneLoadNoWildCall` proves that with one load
it cannot happen, on any number of processors; `hook_serial` checks
`NoWildCall` where no second processor resets the index, and so only that the
index never names a null entry), but never shows the guest a patch.

**Limits that the runs respect.**  An instruction that reads the very page it
executes on, while that page is hooked, faults for ever even on one processor,
since neither view is both readable and executable; an instruction that reads
and writes two hooked pages leaves one of them lifted; one that touches
`Unmapped` faults for ever.  `hook_serial` leaves all three out, and
`hook_smp` has them.  `hook_smp` turns the deadlock check off because a
processor that calls through an empty entry stops.  With two
copies of KernelMon.exe at once `BlocksOwned` and `ListMirrorsTable` do not
hold (nothing makes the device exclusive), so `driver_table` runs one, as the
program is meant to be used.

The lifecycle runs take every unload there is.  Three things do go wrong in
them, and the properties are stated around them, because nothing in the
repository promises otherwise:

- A callback that runs at the unload (one that waits in its original function,
  say) comes back to a log buffer and a registry that are gone.
  `OnlyCaughtLost` says that this is all: no callback begins once the broadcast
  has, although some processors leave before others, and no callback finds
  anything missing at any other time, during the load for example.
- Processors that leave together may continue on each other's stacks, since
  `g_guest_rsp` is one variable; and processors of different groups share a
  `VCpu`.  Both are lost, which `BroadcastsEnd` names, as it does a processor
  whose set-up fails: each of them holds the broadcast for ever.
- Much is never freed.  `FreedOrLeaked` gives the exact list for each way the
  driver can end up: the log buffer of a `DriverEntry` that fails; the log
  buffer, the device, the link and perhaps the page tables of the last `VCpu`
  if it is loaded without a context, whose unload then frees nothing; the
  device, the link, the page tables and all that the hooks allocated (pages,
  `ptes_`, stubs, split tables; `EptHook` has no destructor) after an unload.
  The names of monitored drivers, which no unload frees, may be among it or
  not.  The property fails as soon as more is left, or any of it is freed.

`HostAlive` holds all the same: no object of the host is deleted before the
last processor has left.  Both runs turn the deadlock check off, since the
driver ends: unloaded, not loaded, or with the system stopped.

`hook_install` is about functions that do not end, and are not followed by
another hooked one, before the patch does, and whose first instructions do not
refer to their own address: `add_function_hook` copies those without adjusting
them.  No thread is inside the first 16 bytes of a function when the hooks go
live; nothing in the code sees to it.

`vm_exits` lets the guest read and write only MSRs there are (`Proper`), since
any other faults in the host, and follows it up to its first fault.  The
firmware has left IA32_FEATURE_CONTROL unlocked there; a processor locked
without VMXON, which nothing tests before VMXON faults, is the exception
`LaunchAccepted` makes (`LockedOut`) and a case of the theorem.  The run turns
the deadlock check off because programs end; so does `disassemblers`, where
code does.

**What `disassemblers` leaves out**, each under a name in the module, because
the functions are wrong there:

- `Misread`: a near branch behind 66 is taken for a short one; 66 wins over
  REX.W; a REX not directly before the opcode still counts; F7 /1 has no
  immediate; moves of control and debug registers are given memory operands.
- `ThreeDNow`, `VexMisread`: 3DNow! ends at its opcode; the immediate of a VEX
  instruction is looked for by its opcode whatever the map.  Every EVEX
  instruction, and VEX ones whose second byte looks like memory, are refused,
  and `add_function_hook` would then count zeros for ever.
- `Apart`: encodings of which the decoder says something else than of others
  with the same id (POP by register reads its operand, CMP with an immediate
  writes its own, and so on).

Beyond these, the decoder is one byte short of every VEX instruction, and
neither function holds an immediate against the bytes that are left, so an
instruction can end behind the buffer and be longer than 15 bytes.  While it
was modelled, more was found that no property is about: SETcc, group 15 and
some others get no id or a neighbour's (VMCALL is called VMLAUNCH), BSF and
TZCNT are exchanged, VERR and VERW are said to modify OF.  The driver uses
nothing of the decoder.

**Why the bounds are enough.**  Two processors are enough for every race on
one index, and three functions on two pages give a hook with two functions, a
null entry between hooks, and two hooks.  Two slots let the buffer wrap, be
empty, partly full and full; three threads on two processors give preemption,
spinning and a third party at every place.  Three slots for names leave a null
one between two used ones, and hold a name twice; a fourth block keeps a freed
block from being reused at once.  Three processors are a first, one in the
middle and a last `VCpu`, of which those before a failed allocation are
complete and those after it untouched; the last of them is the first of a second
group, shares the `VCpu` of the first and leaves its own unused, while the
middle one shares with nobody.  Tables of two entries have pages in
both halves of a large page and in different ones, at both levels; hooked pages
2 and 3 share a large page and 5 does not.  Instructions of 4, 7 and 15 bytes
fill exactly 16 bytes (4 times 4), and overlap the patch's end by 2 to 14 at
any place; the fourth function's page is mapped last.  Words of 5 bits have the two bits CPUID hides, CR4.VMXE and the two bits of
IA32_FEATURE_CONTROL that matter, of which others serve as bits VMX operation
demands and the system has clear, or forbids and the system tries to set; of
the MSRs one lies outside of the bitmaps, one has a field, one is
IA32_FEATURE_CONTROL and one is neither.  Three instructions let a register be loaded, used in an exit, and seen.
Two prefixes give every pair of those that select and override each other;
paddings bring an instruction to and past 15 bytes, and sizes 1 to 4 cut it off
at each of its parts.  `MaxCalls` bounds the calls of a
thread in `LogPipeline`, so that histories are finite.  Symmetry is used where
processors, threads or entries are interchangeable and no liveness is checked.

**Fairness.**  `HookInstall`: the loader's loops go on, and so does a thread
that runs a hooked function; nothing says that one calls.  `HookEngine`: a handler is never preempted, so it goes on; a
processor in the guest executes its instruction, which retires or faults.
Nothing is assumed about interrupts.  `CyclicBuffer`: a thread that raised its
IRQL is not preempted and goes on; since the spin lock is not fair, no claim
is made that a given thread wins it, only that whoever wins it releases it.
`LogPipeline`: the timer goes on firing and GetData is carried out.  Each
thread makes finitely many calls there, so starvation by the spin lock, which
the code does not exclude for an endless stream of calls, is outside of it.
`VmxLifecycle`: a processor in a worker of `KeIpiGenericCall` has interrupts
off and goes on, and the call returns when all workers have; nothing is
assumed of the loader or of callbacks, nor that processors which share a
`VCpu` ever collide, so that no broadcast ends because of it.

## 4. What is proved

For every number of processors, pages, functions, threads, slots and clients,
tables and words of every size, under the named assumptions on the constants
only:

| theorem | statement |
|---|---|
| `HookEngineProofs!TypeInvariant` | `Spec => []TypeOK` |
| `HookEngineProofs!ViewsNeverMixed` | `Spec => []SplitView` |
| `HookEngineProofs!CachedViewsCurrent` | `Spec => []TlbCoherent` |
| `HookEngineProofs!HooksTransparent` | `Spec => Transparent`, the refinement of `TransparentHooks` |
| `HookEngineProofs!SerialWindowsClose` | with `OneDataPage`, `SerialSpec => [](HookRestored /\ ExpectedNamesWindow)` |
| `HookEngineProofs!SerialIndexNamesWindow` | the second half on its own |
| `HookEngineProofs!OneProcessorWindowsClose` | the same of `Spec`, if there is one processor |
| `HookEngineProofs!OneLoadNoWildCall` | with one load of the index, `Spec => []NoWildCall` |
| `CyclicBufferProofs!TypeInvariant` | `Spec => []TypeOK` |
| `CyclicBufferProofs!LockExclusive` | `Spec => []MutualExclusion` |
| `CyclicBufferProofs!CallerIrqlRestored` | `Spec => []IrqlRestored` |
| `CyclicBufferProofs!BufferIsQueue` | `Spec => IsQueue`, the refinement of `LogQueue` |
| `HookInstallProofs!SetupIsIdentity` | the walk of every page in what `setup_ept` builds is the page itself, with all rights |
| `HookInstallProofs!HookPageMovesOnePage` | `HookPage` gives its page the frame of the copy and leaves the walk of every other page alone |
| `HookInstallProofs!InstallMovesOnlyHooks` | `Spec => []OnlyHooksMoved` |
| `HookInstallProofs!InstallStartsEngine` | `Spec => []EngineStarts`: the installation ends in an initial state of `HookEngine` |
| `HookInstallProofs!InstallTypes` | `Spec => []TypeOK` |
| `HookInstallProofs!HookedCallsComplete` | `Spec => []CallsIntercepted` |
| `MonitoredDriversProofs!Types` | `Spec => []TypeOK` |
| `MonitoredDriversProofs!StayingDriversFound` | `Spec => []StayingFound` |
| `MonitoredDriversProofs!BlocksOwnedByOne` | with one client, `Spec => []BlocksOwned` |
| `MonitoredDriversProofs!ListMirrors` | with one client, `Spec => []ListMirrorsTable` |
| `LogPipelineProofs!TypeInvariant` | `Spec => []TypeOK` |
| `LogPipelineProofs!ShownInOrder` | `Spec => []ShowsWhatLeft` |
| `VmExitsProofs!TypeInvariant` | `Spec => []TypeOK` |
| `VmExitsProofs!LaunchSucceeds` | `Spec => []LaunchAccepted` |
| `VmExitsProofs!ExitsAreTransparent` | `Spec => ExitsTransparent`, the refinement of `GuestProcessor` |
| `VmxLifecycleProofs!TypeInvariant` | `Spec => []TypeOK` |
| `VmxLifecycleProofs!HostStaysAlive` | `Spec => []HostAlive` |
| `VmxLifecycleProofs!HostedTogether` | `Spec => []AllTogether` |
| `VmxLifecycleProofs!FreesExact` | `Spec => []FreedOrLeaked` |
| `VmxLifecycleProofs!OthersUnharmed` | `Spec => []OnlyCaughtLost` |
| `DisassemblersProofs!LengthsEncoded` | `Spec => []LengthIsEncoded` |
| `DisassemblersProofs!FixedPartsFit` | `Spec => []FixedPartWithin` |
| `DisassemblersProofs!VerdictsAgree` | `Spec => []SameVerdict` |
| `DisassemblersProofs!LockedInstructionsWrite` | `Spec => []LockedWritesMemory` |
| `DisassemblersProofs!BranchesAreMarked` | `Spec => []BranchesMarked` |
| `DisassemblersProofs!EncodingsMeanTheSame` | `Spec => []EncodingsAgree` |

*Arguments.*  `TypeOK` of the engine needs to know that a processor about to
store an index has faulted on a hooked page, and that such a page has an entry
in `function_hooks_` (`HookExists`: the first function on a page gets one; the
least such index exists because the numbers are well founded).  `SplitView`
and `TlbCoherent` are inductive together, and with them every access that was
permitted reached the copy that was promised; that is the refinement.  The two
window properties are not inductive: `WindowInv` says for each place a
processor can be in which page it has lifted, if any, and what the index holds,
and that only a processor in a window has anything lifted; since windows do
not overlap, the step of one leaves the other's part alone.  `OneLoadNoWildCall`
needs that an index in a register came from a store, hence names a hook.

For the buffer, `MutualExclusion` is inductive with the types.
`IrqlRestored` needs where the caller's IRQL is at each moment: in the
register, then in `old_irql_`, then in the register again.  The refinement
needs, besides, that outside of the critical section `full_` implies equal
positions, and what the statements already executed have established at each
place (`BodyInv`); each of the three statements at which a call takes effect
is then an `Append`, a `Tail` or an emptying of `Contents`.

For the installation the walk is arithmetic: the three indices of a page
determine it (`IndicesDetermine`), so two pages share an entry only if they
share a large page, and `SplitLargePdte` keeps what that maps.
`InstallMovesOnlyHooks` keeps, besides, which entries of which processor are
done at each place of the loops.  `InstallStartsEngine` needs of the loop over
the functions that, of those behind it, the first on each page has the hook
and no other has one (`FirstHooks`).  The constructor searches the hooks made so
far, `HookEngine` compares the pages of earlier functions; that both come to
the same (`SearchFindsFirst`) rests on `HooksMade`: a function that was added to
an earlier one's hook leaves that hook to be found.

`HookedCallsComplete` takes two invariants.  `CodeInv` says what the code is at
each place of the loops: which functions of the page in the making are patched
(`PatchedIn`) and which are as they were (`Unpatched`), that the scan has
stopped between two instructions and not before the patch's end (`Cut`), that a
stub is the instructions cut off and a jump to the one behind them
(`StubMade`), that the registry knows it (`Registered`), and that the pages
behind the loop are done (`HooksMade`).  That a patch spoils no other function
is where `LayoutAssumption` is needed (functions of whole instructions, none in
another's first 16 bytes, and those bytes moved without harm), and that a hook
spoils no other page, that each `EptHook` allocates a page of its own.
`ThreadInv` says of the thread that it is in one of seven places - the patch at
the entry, the callback, the stub, the jump at the stub's end, the function,
the way back, or ended - and that what it has executed, followed by what the
original executes from the corresponding place (`Native`), is what the call
must execute in all.  `Native` is a recursive function; that it is what its
definition says is shown once (`NativeExists`), by induction on the distance to
the end of the function (`SetInduction`, from the well-foundedness of `<`).

For the table, `SearchInv` says of a search in progress that each slot that
has held the caller's name ever since lies ahead of it, or at it and then is
what the search has loaded.  No step of a request disturbs that, since a slot
it changes stops being one of those: this is why no lock is needed, however
many clients there are.
`BlocksOwned` needs to know what the only client knows of its slot at each
place (`Holding`): a block without a name before the copy, a block with one
before it is freed, none or a freed one before it is cleared.
`ListMirrors` compares two ways to hold a name several times, slots and places
in the window's list.  `MirrorInv` says that there is a bijection between the
slots that hold a name and the places of the list, with the same names on both
sides (`SameNames`), where "the list" is, while a request is carried out, the
list as the window will show it if the request is through with the table, and
as it shows it if not.  It is the bijection that each step changes by one pair;
`SelectSeq`, by which the window drops a name, is characterised by what it
keeps before that.

For the pipeline, `Order` says that what is in the queue is the end of what was
accepted, and `Shown` that the window's list, with the one entry that may be on
its way to it (in the memory GetData wrote, not yet looked at), is what left
the queue since the start.  That there is never more than one such entry is
where clearing the entry before each pop is needed.

For the set-up, what `adjust_control_registers` and `enable_vmx_operation` make
of the registers is `Taken`, and what VMXON and VMLAUNCH demand (`SetupFacts`,
`ForcedFacts`), since VMX operation never both demands and forbids a bit
(`CrAssumption`); it shows at once, when the guest begins (`Entrypoint`).

For the exits, the three orders of registers agree (`OrderFacts`), so popping
what was pushed gives it back (`PoppedPushed`), and a member of the context
that a handler writes is the register the guest finds changed.  `Left` says
that before the handler has run nothing of the guest is lost that has a value in
the model, on the stack, in the VMCS or in the processor, and that the reason of the exit fits the
instruction; `Outcome` that after it what is there adds up either to the state
that was left or to the effect of the instruction (`Emulated`), once it is
passed over.  The step that shows is VMRESUME (or `vmxoff_handler`), or the
instruction itself where it does not exit.  That an MSR with a field in the
VMCS is never read or written by a handler, which would see the host's, is
where `MsrAssumption` is needed: the bitmaps cover those.  The launch rests on
`CapabilityAssumption`, that the processor offers each bit the driver has no
use for being without and demands none it forbids, and on `SegmentAssumption`,
which holds of the segments of 64-bit Windows: CS and TR are in the first 32
entries of the GDT, since `SELECTOR_MASK` drops the rest of an index.

For the life cycle, four invariants are inductive together (`Inv`): the types;
`PoolInv`, what is live at each place of the loader; `VcpuInv`, how far the
allocation of each `VCpu` has come (complete below `next`, untouched above it)
and that its pointers agree with it wherever they are followed; and
`WorkerInv`, where the processors are during each broadcast and between them.
A processor that is hosted puts the loader at a place where everything is
live, which is `HostAlive`; `FreedOrLeaked` is the same argument at the places
where objects are freed and where the driver ends up.  None of this depends on
which `VCpu` a processor has, only that it is one of the table
(`NumberInTable`: a number within a group is no more than one within all).
`OthersUnharmed` needs `CallbackInv` besides: a thread that is in a callback
and was not caught there runs while the loader deletes nothing, for a callback
begins only on a processor that is hosted, and nothing runs during a broadcast.

For the disassemblers the invariant is short: the bytes laid down are bytes,
and once the code is complete both answers are of that code (`Answered`).  The
rest is about the functions, for any bytes at all.  Each opcode map has three
tables that must say the same, those of the two functions and the format's:
`OneByteIs`, `TwoByteIs`, `ThreeByteIs` and `VexIsEncoded` compute from the
first two, for an opcode that is not refused, one and the same length, and
compare it with the format's, table by table; `Misread` and `VexMisread` name
exactly where they differ.  What they keep of the prefixes is in `PrefixFacts`.
`VerdictsAgree` needs that no more than one prefix selects an instruction: of
several, ldisasm knows the last one, the decoder all, and it counts a LOCK
among them (`Selected`; an instruction that may be locked is none of those that
a prefix selects, `Reserved2Locked`).  `LockedInstructionsWrite`
goes through the opcodes that may be locked, one by one, in the table of the
operands.

Two properties are about ids, which the decoder computes: an id is a number,
the place of a name in an enumeration, and a group's member is found by adding
the reg field or the column to the place of the first.  `MemberAt` gives the
list as one function of the place, `MembersApart` says that no name is in it
twice, and `PlusFrom` that such a sum is the member so many places on, for each
base the code adds to.  `DecodedKind` says in which table the decoder has found
the opcode, and with which ModR/M byte.  `BranchesAreMarked` then compares
places and opcodes: the ids of branches have the places of `BranchMembers`, the
opcodes that reach those are the ones of `Branch1` and the conditional jumps
behind 0F (`BranchId1`, `BranchId2`), and `BranchGroup1`, `BranchGroup2` and
`BranchOperands1`, `BranchOperands2` find the same opcodes in the two other
tables.  `EncodingsMeanTheSame` compares any encoding with the canonical one of
its id.  Rather than pairs of opcodes, `Means` takes each id and states what its
flags and its first operand's access are, by its place in the list
(`PlaceFlags`, `PlaceAction`) or by its name.  That every opcode outside of
`Apart` says just that is shown once for the one-byte opcodes
(`Means1`), once for those behind 0F (`Means2`); the canonical encodings are
among them (`CanonicalMeans`); and of a known id nothing else can be said
(`SameMeaning`).

The guards of every CASE that a proof expands exclude each other: TLA+ leaves
open which arm of an overlap is taken, and the code, which takes the first, is
modelled by guards that say so.

*Only model-checked*: the liveness properties (`InstallEnds`, `CallsReturn`,
`InstructionEnds`, `SteppingEnds`, `LockReleased`, `AcceptedShown`,
`BroadcastsEnd`), since the proof system treats neither fairness nor ENABLED.
Every invariant and every refinement that a passing run checks is also proved
(`NoWildCall` for a build that loads the index once),
with the premises the table names, which the constants of the run satisfy.

## 5. Not modelled, and the plan

Left out:

- drawing and Direct3D (no state of the program), the wording of logs and the
  copying of strings, the list of loaded modules a caller is looked up in;
- of the disassembler, the other processor modes, the numbers of registers,
  the parts of addresses, `num_operands`, the contents of VEX and EVEX; the
  assembler and the formatter, which nothing calls;
- fields of the VMCS that are copied from the processor as they are; RDMSR and
  WRMSR of an index that does not exist, which fault in the host; the values
  of flags, selectors, debug and vector registers (`lost` says whose they are);
- the engine on a machine with several processor groups, where `ptes_` is
  indexed by the number within the group, and what processors that share a
  `VCpu` overwrite;
- the unloading of the image while a callback may still return into it;
- the memory type of the small pages of a split entry (it becomes
  uncacheable; no property is about it), and whether the processor can map
  pages for execution only (the driver does not ask);
- a second load of the driver; `PROJECT.json` lists it among the hazards.

Planned:

1. A composition of `MonitoredDrivers` with `LogPipeline`, so that which calls
   are logged depends on the table; and of `VmxLifecycle` with the log buffer,
   so that a request after the unload is covered.
2. The rest of the decoder: numbers of registers and memory operands.
