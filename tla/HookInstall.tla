---------------------------- MODULE HookInstall ----------------------------
(***************************************************************************)
(* How the hooks are installed, and what a call of a function does         *)
(* afterwards: the constructors of HookingEngine and EptHook with          *)
(* add_function_hook, the registry of jump stubs (HookInfoManager), and    *)
(* the hook callbacks as far as they call the original.                    *)
(*                                                                         *)
(* The first 16 bytes of a hooked function are overwritten, in a copy of   *)
(* its page, by a patch that jumps to the callback:                        *)
(*     push rdi;  mov rdi, destination;  xchg [rsp], rdi;  ret             *)
(* The callback calls the jump stub of the function: the whole             *)
(* instructions the patch needs room of, and a patch that jumps behind     *)
(* them.  Then each processor's extended page table is pointed at the      *)
(* copy.  All of it happens before the processors enter VMX operation, so  *)
(* nothing runs beside it.                                                 *)
(*                                                                         *)
(* A byte of code is the instruction it belongs to and its place in it.    *)
(***************************************************************************)
EXTENDS Sequences, EptTables

CONSTANTS
  ProcessorCount, (* globals.vmm_context->processor_count                  *)
  FunctionCount,  (* hooked_function_count_                                *)
  FunctionPage,   (* The guest physical page of each hooked function.      *)
  ExecuteFrame,   (* The page frame of the execute_page_ of each page.     *)
  PageSize,       (* PAGE_SIZE, in bytes                                   *)
  Layouts,        (* The code the pages may hold, and where each hooked    *)
                  (* function begins in its page.                          *)
  None            (* A null pointer; an instruction without an operand.    *)

Functions == 0 .. (FunctionCount - 1)
Processors == 0 .. (ProcessorCount - 1)
HookedPages == {FunctionPage[i] : i \in Functions}
Offsets == 0 .. (PageSize - 1)

ASSUME CountAssumption ==
  /\ FunctionCount \in Nat \ {0}
  /\ ProcessorCount \in Nat \ {0}
  /\ PageSize \in Nat
ASSUME PageAssumption ==
  /\ FunctionPage \in [Functions -> MappedPages]
  /\ ExecuteFrame \in [HookedPages -> Nat \ HookedPages]
  /\ \A p, q \in HookedPages : ExecuteFrame[p] = ExecuteFrame[q] => p = q
  /\ None \notin HookedPages

-----------------------------------------------------------------------------
(* Code. *)

Addr(area, n, off) == [area |-> area, n |-> n, off |-> off]
(* Where the code may be that a thread can come to: any address of a page,  *)
(* of a stub, of a callback. *)
Addrs == [area : {"page", "stub", "callback", "returned"},
          n : Functions \cup HookedPages, off : Nat]
Behind(a, length) == [a EXCEPT !.off = @ + length]

(* The null pointer is none of them, and no record of how a thread began.   *)
ASSUME NoneAssumption ==
  None \notin Addrs /\ None \notin [function : Functions, off : Offsets]

Insn(op, length, arg) == [op |-> op, len |-> length, arg |-> arg]
Byte(insn, k) == [insn |-> insn, at |-> k]

PatchLength == 16

(* HOOK_PATCH_TEMPLATE with the address at HOOK_ADDRESS_OFFSET. *)
HookPatch(destination) ==
  [k \in 0 .. (PatchLength - 1) |->
     CASE k = 0 -> Byte(Insn("push_rdi", 1, None), 0)
       [] k \in 1 .. 10 -> Byte(Insn("mov_rdi", 10, destination), k - 1)
       [] k \in 11 .. 14 -> Byte(Insn("xchg_rsp_rdi", 4, None), k - 11)
       [] k = 15 -> Byte(Insn("ret", 1, None), 0)]

(* The instruction at a place, if its bytes are all there. *)
Whole(bytes, off) ==
  /\ off \in DOMAIN bytes
  /\ \A k \in 0 .. (bytes[off].insn.len - 1) :
       off + k \in DOMAIN bytes /\ bytes[off + k] = Byte(bytes[off].insn, k)

(* Where the instructions of a function begin: up to its return. *)
Boundaries(bytes, entry) ==
  {o \in Offsets :
     /\ o >= entry /\ bytes[o].at = 0
     /\ \A d \in 1 .. (o - entry) : bytes[o - d].insn.op # "ret"}

(* What can be hooked: a function in its page, of whole instructions that   *)
(* lead from one to the next until one returns, behind the first 16 bytes,  *)
(* and those bytes belong to instructions that do not refer to their own    *)
(* address, and whose length the disassembler finds.                        *)
Hookable(bytes, entry) ==
  /\ entry \in Boundaries(bytes, entry)
  /\ \A o \in Boundaries(bytes, entry) :
       /\ Whole(bytes, o)
       /\ bytes[o].insn.op # "ret" =>
            o + bytes[o].insn.len \in Boundaries(bytes, entry)
       /\ o < entry + PatchLength => bytes[o].insn.op = "plain"

(* A page of code. *)
Code(bytes) ==
  /\ DOMAIN bytes = Offsets
  /\ \A o \in Offsets :
       /\ bytes[o].insn.op \in {"plain", "relative", "ret"}
       /\ bytes[o].insn.len \in Nat \ {0}

(* The hooked functions of a page lie apart, and so do their patches.       *)
ASSUME LayoutAssumption ==
  \A l \in Layouts :
    /\ \A p \in HookedPages : Code(l.code[p])
    /\ \A f \in Functions : Hookable(l.code[FunctionPage[f]], l.entry[f])
    /\ \A f, g \in Functions :
         FunctionPage[f] = FunctionPage[g] /\ f # g =>
           /\ l.entry[f] # l.entry[g]
           /\ l.entry[f] < l.entry[g] =>
                /\ l.entry[f] + PatchLength <= l.entry[g]
                /\ \A o \in Boundaries(l.code[FunctionPage[f]], l.entry[f]) :
                     o < l.entry[g]

VARIABLES
  layout,          (* What the pages hold: read_write_page_.               *)
  execute_page,    (* execute_page_ of each hooked page.                   *)
  function_hooks,  (* The page of each EptHook, or null.                   *)
  stubs,           (* The jump stubs allocated, or null.                   *)
  registry,        (* function_jmp_stub_map_                               *)
  large_pdt,       (* The extended page tables of each processor.          *)
  at,              (* Where the installation is.                           *)
  i,               (* The loop over the functions,                         *)
  overwritten,     (* overwritten_length,                                  *)
  vcpu,            (* and the loop over the processors.                    *)
  guest            (* Afterwards: a thread that runs the function.         *)

install == <<execute_page, function_hooks, stubs, registry, large_pdt, i,
             overwritten, vcpu>>
vars == <<layout, install, at, guest>>

Entry(f) == Addr("page", FunctionPage[f], layout.entry[f])

Idle == [rip |-> None, stack |-> <<>>, rdi |-> "argument", trace |-> <<>>,
         started |-> None, processor |-> 0]

Init ==
  /\ layout \in Layouts
  /\ execute_page = [p \in HookedPages |-> None]
  /\ function_hooks = [f \in Functions |-> None]
  /\ stubs = [f \in Functions |-> None]
  /\ registry = [f \in Functions |-> [first |-> Entry(f), second |-> None]]
  /\ large_pdt = [c \in Processors |-> SetupEpt]
  /\ at = "next" /\ i = 0 /\ overwritten = 0 /\ vcpu = 0
  /\ guest = Idle

-----------------------------------------------------------------------------
(* The installation. *)

(* Mutant: the search for an earlier hook leaves the first one out. *)
PageHookedByLater(f) == \E g \in 1 .. (f - 1) : function_hooks[g] = FunctionPage[f]

(* The page of function i is one an earlier function has hooked. *)
PageHooked(f) == \E g \in 0 .. (f - 1) : function_hooks[g] = FunctionPage[f]

Page == execute_page[FunctionPage[i]]

(* add_function_to_already_hooked_page: the function is added to the hook   *)
(* of the earlier one and has none of its own.                              *)
AddToHookedPage ==
  /\ at = "next" /\ i < FunctionCount
  /\ PageHooked(i)
  /\ at' = "scan"
  /\ overwritten' = 0
  /\ UNCHANGED <<layout, execute_page, function_hooks, stubs, registry, large_pdt,
                 i, vcpu, guest>>

(* The constructor of EptHook copies the page. *)
NewEptHook ==
  /\ at = "next" /\ i < FunctionCount
  /\ ~PageHooked(i)
  /\ execute_page' =
       [execute_page EXCEPT ![FunctionPage[i]] = layout.code[FunctionPage[i]]]
  /\ at' = "scan"
  /\ overwritten' = 0
  /\ UNCHANGED <<layout, function_hooks, stubs, registry, large_pdt, i, vcpu,
                 guest>>

(* Mutant: the length of the last instruction replaces the sum. *)
ScanLast ==
  /\ at = "scan" /\ overwritten < PatchLength
  /\ overwritten' = Page[layout.entry[i] + overwritten].insn.len
  /\ UNCHANGED <<layout, execute_page, function_hooks, stubs, registry, large_pdt,
                 at, i, vcpu, guest>>

(* One turn of the loop that adds up instructions until the patch fits.     *)
Scan ==
  /\ at = "scan" /\ overwritten < PatchLength
  /\ overwritten' =
       overwritten + Page[layout.entry[i] + overwritten].insn.len
  /\ UNCHANGED <<layout, execute_page, function_hooks, stubs, registry, large_pdt,
                 at, i, vcpu, guest>>

(* Mutant: the stub jumps behind the patch, not behind the instructions. *)
JumpStubToPatchEnd(bytes, f, length) ==
  [k \in 0 .. (length + PatchLength - 1) |->
     IF k < length THEN bytes[layout.entry[f] + k]
     ELSE HookPatch(Behind(Entry(f), PatchLength))[k - length]]

(* The stub: the instructions, then a patch that jumps behind them. *)
JumpStub(bytes, f, length) ==
  [k \in 0 .. (length + PatchLength - 1) |->
     IF k < length THEN bytes[layout.entry[f] + k]
     ELSE HookPatch(Behind(Entry(f), length))[k - length]]

(* The first bytes of the function become the patch that jumps to the       *)
(* callback.                                                                *)
Patched(bytes, f) ==
  [o \in Offsets |->
     IF o \in layout.entry[f] .. (layout.entry[f] + PatchLength - 1)
       THEN HookPatch(Addr("callback", f, 0))[o - layout.entry[f]]
       ELSE bytes[o]]

(* Mutant: the pages are compared, as where a hook is looked up. *)
SetJumpStubOfPage(function_addr, stub) ==
  [f \in Functions |->
     IF registry[f].first.n = function_addr.n
       THEN [registry[f] EXCEPT !.second = stub] ELSE registry[f]]

(* HookInfoManager::set_jump_stub and lookup_jump_stub. *)
SetJumpStub(function_addr, stub) ==
  [f \in Functions |->
     IF registry[f].first = function_addr
       THEN [registry[f] EXCEPT !.second = stub] ELSE registry[f]]

LookupJumpStub(function_addr) ==
  IF \E f \in Functions : registry[f].first = function_addr
    THEN LET matches == {f \in Functions : registry[f].first = function_addr}
         IN  registry[CHOOSE f \in matches : \A g \in matches : f <= g].second
    ELSE None

(* The rest of add_function_hook: the stub is taken from the page before    *)
(* the patch is written to it.  A constructor goes on with the tables.      *)
InstallPatch ==
  /\ at = "scan" /\ overwritten >= PatchLength
  /\ stubs' = [stubs EXCEPT ![i] = JumpStub(Page, i, overwritten)]
  /\ registry' = SetJumpStub(Entry(i), Addr("stub", i, 0))
  /\ execute_page' =
       [execute_page EXCEPT ![FunctionPage[i]] = Patched(@, i)]
  /\ IF PageHooked(i)
       THEN /\ at' = "next"
            /\ i' = i + 1
            /\ UNCHANGED vcpu
       ELSE /\ at' = "map"
            /\ vcpu' = 0
            /\ UNCHANGED i
  /\ UNCHANGED <<layout, function_hooks, large_pdt, overwritten, guest>>

(* Mutant: the loop makes one turn too many. *)
MapOnOneTooMany ==
  /\ at = "map" /\ vcpu <= ProcessorCount
  /\ large_pdt' =
       [large_pdt EXCEPT ![vcpu % ProcessorCount] =
          HookPage(@, FunctionPage[i], ExecuteFrame[FunctionPage[i]])]
  /\ vcpu' = vcpu + 1
  /\ UNCHANGED <<layout, execute_page, function_hooks, stubs, registry, at, i,
                 overwritten, guest>>

(* The entry of the page in the tables of one processor. *)
MapOnProcessor ==
  /\ at = "map" /\ vcpu < ProcessorCount
  /\ large_pdt' =
       [large_pdt EXCEPT ![vcpu] =
          HookPage(@, FunctionPage[i], ExecuteFrame[FunctionPage[i]])]
  /\ vcpu' = vcpu + 1
  /\ UNCHANGED <<layout, execute_page, function_hooks, stubs, registry, at, i,
                 overwritten, guest>>

(* The constructor of EptHook has returned. *)
HookMade ==
  /\ at = "map" /\ vcpu = ProcessorCount
  /\ function_hooks' = [function_hooks EXCEPT ![i] = FunctionPage[i]]
  /\ at' = "next"
  /\ i' = i + 1
  /\ UNCHANGED <<layout, execute_page, stubs, registry, large_pdt, overwritten,
                 vcpu, guest>>

(* The loop is over; the processors enter VMX operation. *)
Installed ==
  /\ at = "next" /\ i = FunctionCount
  /\ at' = "running"
  /\ UNCHANGED <<layout, install, guest>>

Install == AddToHookedPage \/ NewEptHook \/ Scan \/ InstallPatch
             \/ MapOnProcessor \/ HookMade \/ Installed

-----------------------------------------------------------------------------
(* A thread of the guest, on any of the processors. *)

(* The bytes a fetch from an address finds. *)
Memory(a) ==
  IF a.area = "stub" THEN stubs[a.n]
  ELSE LET frame == Walk(large_pdt[guest.processor], a.n).frame
       IN  IF frame = a.n THEN layout.code[a.n]
           ELSE execute_page[CHOOSE p \in HookedPages : ExecuteFrame[p] = frame]

(* A thread is at the entry of a function, or was interrupted behind its    *)
(* first 16 bytes before the driver was loaded and goes on there.           *)
Begin(f, o, c) ==
  /\ at = "running" /\ guest.rip = None
  /\ o \in Boundaries(layout.code[FunctionPage[f]], layout.entry[f])
  /\ o = layout.entry[f] \/ o >= layout.entry[f] + PatchLength
  /\ guest' = [Idle EXCEPT !.rip = Addr("page", FunctionPage[f], o),
                           !.stack = <<None>>,
                           !.started = [function |-> f, off |-> o],
                           !.processor = c]
  /\ UNCHANGED <<layout, install, at>>

(* One instruction, if its bytes are whole; the trace keeps what the        *)
(* original's instructions find in rdi and the address they may refer to.   *)
Step(a, insn) ==
  LET next == Behind(a, insn.len)
  IN  CASE insn.op = "push_rdi" ->
             [guest EXCEPT !.rip = next, !.stack = <<guest.rdi>> \o @]
        [] insn.op = "mov_rdi" -> [guest EXCEPT !.rip = next, !.rdi = insn.arg]
        [] insn.op = "xchg_rsp_rdi" ->
             [guest EXCEPT !.rip = next, !.rdi = Head(guest.stack),
                           !.stack = <<guest.rdi>> \o Tail(@)]
        [] insn.op = "ret" ->
             [guest EXCEPT !.rip = Head(guest.stack), !.stack = Tail(@)]
        [] insn.op = "plain" ->
             [guest EXCEPT !.rip = next,
                           !.trace = Append(@, <<insn.arg, guest.rdi>>)]
        [] insn.op = "relative" ->
             [guest EXCEPT !.rip = next,
                           !.trace = Append(@, <<insn.arg, guest.rdi, next>>)]

Execute ==
  /\ guest.rip # None /\ guest.rip.area \in {"page", "stub"}
  /\ LET bytes == Memory(guest.rip)
     IN  /\ Whole(bytes, guest.rip.off)
         /\ guest' = Step(guest.rip, bytes[guest.rip.off].insn)
  /\ UNCHANGED <<layout, install, at>>

(* A hook callback looks its function's stub up and calls it, *)
CallStub ==
  /\ guest.rip # None /\ guest.rip.area = "callback"
  /\ LET f == guest.rip.n
         stub == LookupJumpStub(Entry(f))
     IN  /\ stub # None
         /\ guest' = [guest EXCEPT
              !.rip = stub,
              !.stack = <<Addr("returned", f, 0)>> \o @,
              !.trace = Append(@, <<"callback", f, guest.rdi>>)]
  /\ UNCHANGED <<layout, install, at>>

(* and returns what it returned. *)
CallbackReturns ==
  /\ guest.rip # None /\ guest.rip.area = "returned"
  /\ guest' = [guest EXCEPT !.rip = Head(guest.stack), !.stack = Tail(@)]
  /\ UNCHANGED <<layout, install, at>>

Run == Execute \/ CallStub \/ CallbackReturns

Next ==
  \/ Install
  \/ Run
  \/ \E f \in Functions, o \in Offsets, c \in Processors : Begin(f, o, c)

Spec == Init /\ [][Next]_vars

(* The loader goes on, and so does a thread. *)
FairSpec == Spec /\ WF_vars(Install) /\ WF_vars(Run)

-----------------------------------------------------------------------------
(* Properties. *)

(* Every variable has its type. *)
TypeOK ==
  /\ function_hooks \in [Functions -> HookedPages \cup {None}]
  /\ large_pdt \in [Processors -> Tables]
  /\ at \in {"next", "scan", "map", "running"}
  /\ i \in 0 .. FunctionCount
  /\ overwritten \in Nat
  /\ vcpu \in 0 .. ProcessorCount

(* Splitting a large page and pointing one entry of it at the patched copy  *)
(* changes the translation of no other page, on any processor: not of the   *)
(* rest of the large page, and not of a page hooked before in the same one. *)
OnlyHooksMoved ==
  \A c \in Processors, p \in MappedPages :
    \/ Walk(large_pdt[c], p) = Identity(p)
    \/ /\ p \in HookedPages
       /\ Walk(large_pdt[c], p) = Hooked(ExecuteFrame[p])

(* The engine as HookEngine sees it: of a translation, the rights and which *)
(* of the two copies of the page it leads to; nothing has happened yet.     *)
View(c, p) ==
  LET found == Walk(large_pdt[c], p)
  IN  [read |-> found.read, write |-> found.write, execute |-> found.execute,
       frame |-> IF found.frame = ExecuteFrame[p] THEN "execute_page"
                                                  ELSE "read_write_page"]
Engine ==
  INSTANCE HookEngine WITH
    Cpus <- Processors, NoHook <- None, Unmapped <- {}, Instructions <- {},
    NoInsn <- None, NotCached <- None, ReloadIndex <- TRUE,
    pte <- [c \in Processors |-> [p \in HookedPages |-> View(c, p)]],
    tlb <- [c \in Processors |-> [p \in HookedPages |-> None]],
    mtf <- [c \in Processors |-> FALSE], expected <- -1,
    at <- [c \in Processors |-> "guest"], fault <- [c \in Processors |-> None],
    index <- [c \in Processors |-> -1], cur <- [c \in Processors |-> None],
    seen <- [c \in Processors |-> {}]

(* When the processors enter VMX operation, the engine is as its handlers   *)
(* rely on: on every processor each hooked page has the view for execution, *)
(* and of the functions on a page the first, and no other, has the hook, so *)
(* that the search of handle_ept_violation has one index to find.           *)
EngineStarts ==
  at = "running" =>
    /\ Engine!Init
    /\ \A f \in Functions : function_hooks[f] = Engine!FunctionHooks(f)

(* What a thread does when it runs the original code from an address on. *)
Native(p, off) ==
  LET bytes == layout.code[p]
      from[o \in Offsets] ==
        LET insn == bytes[o].insn
            next == o + insn.len
        IN  IF insn.op = "ret" \/ next \notin Offsets
              THEN <<>>
              ELSE <<IF insn.op = "plain"
                       THEN <<insn.arg, "argument">>
                       ELSE <<insn.arg, "argument", Addr("page", p, next)>>>>
                     \o from[next]
  IN  from[off]

(* A call of a hooked function runs its callback once, with the caller's    *)
(* registers, then exactly the instructions of the original, each once and  *)
(* with what it would have found without the hook, and returns to the       *)
(* caller with the stack and the registers balanced.  A thread that was in  *)
(* the middle of the function notices nothing.                              *)
CallsIntercepted ==
  guest.rip = None /\ guest.started # None =>
    LET f == guest.started.function
        off == guest.started.off
        original == Native(FunctionPage[f], off)
    IN  /\ guest.stack = <<>>
        /\ guest.rdi = "argument"
        /\ guest.trace =
             IF off = layout.entry[f]
               THEN <<<<"callback", f, "argument">>>> \o original ELSE original

(* The installation ends, and so does every run of a hooked function.       *)
InstallEnds == <>(at = "running")
CallsReturn == guest.rip # None ~> guest.rip = None
=============================================================================
