----------------------------- MODULE HookEngine -----------------------------
(***************************************************************************)
(* Hooking::HookingEngine and Hooking::EptHook on several processors.      *)
(*                                                                         *)
(* Each hooked page has two copies: the original, which guest data         *)
(* accesses must find, and execute_page_, whose hooked functions are       *)
(* patched to jump to a callback.  Every processor has a page table of its *)
(* own (EptHook::ptes_), and normally maps the patched copy execute-only.  *)
(* A data access then leaves the guest with an EPT violation: the handler  *)
(* maps the original readable, writable and not executable, turns on the   *)
(* monitor trap flag (MTF) and lets the processor retry the instruction;   *)
(* the MTF exit after it puts the patched copy back.  Which page is to be  *)
(* put back is remembered in expected_mtf_function_index_, ONE variable    *)
(* that the handlers of all processors share without a lock.               *)
(*                                                                         *)
(* Handlers run in VMX root mode, where nothing preempts them, so only the *)
(* accesses to the shared variable are separate steps: everything else a   *)
(* handler touches (page table entry, VMCS, TLB) belongs to its processor. *)
(***************************************************************************)
EXTENDS Integers, FiniteSets

CONSTANTS
  Cpus,          (* The logical processors.                                *)
  FunctionCount, (* hooked_function_count_                                 *)
  FunctionPage,  (* The guest physical page of each hooked function.       *)
  NoHook,        (* A null entry of function_hooks_.                       *)
  Unmapped,      (* Pages beyond what setup_ept maps: every access faults. *)
  Instructions,  (* The instructions the guest may run.                    *)
  NoInsn,        (* No instruction is being executed.                      *)
  NotCached,     (* The TLB holds no translation of a page.                *)
  ReloadIndex    (* The build reads expected_mtf_function_index_ a second  *)
                 (* time after the test of its sign (the race is undefined *)
                 (* behaviour, a compiler may do either).                  *)

Indices == 0 .. (FunctionCount - 1)
HookedPages == {FunctionPage[i] : i \in Indices}

ASSUME CountAssumption == FunctionCount \in Nat \ {0}
ASSUME PageAssumption ==
  /\ NoHook \notin HookedPages
  /\ Unmapped \cap HookedPages = {}
ASSUME InsnAssumption ==
  /\ NoInsn \notin Instructions
  /\ \A i \in Instructions : DOMAIN i = {"fetch", "reads", "writes"}
ASSUME ReloadAssumption == ReloadIndex \in BOOLEAN

VARIABLES
  pte,       (* The entry of each hooked page in each processor's table.   *)
  tlb,       (* The translation of it that each processor has cached.      *)
  mtf,       (* monitor_trap_flag in each processor's VMCS.                *)
  expected,  (* expected_mtf_function_index_                               *)
  at,        (* Where each processor is: in the guest or in a handler.     *)
  fault,     (* VMCS_GUEST_PHYSICAL_ADDRESS of its last EPT violation.     *)
  index,     (* The index handle_mtf has loaded into a register.           *)
  cur,       (* The guest instruction the processor is executing.          *)
  seen       (* What its last retired instruction found on hooked pages.   *)

vars == <<pte, tlb, mtf, expected, at, fault, index, cur, seen>>
guest == <<cur, seen>>
shared == <<expected, index>>

Abstract == INSTANCE TransparentHooks

-----------------------------------------------------------------------------
(* Installing the hooks. *)

(* Mutants of the views: the pfn is not rewritten, or a flag is forgotten. *)
ExecViewOfOriginal == [read |-> FALSE, write |-> FALSE, execute |-> TRUE,
                       frame |-> "read_write_page"]
DataViewOfPatched == [read |-> TRUE, write |-> TRUE, execute |-> FALSE,
                      frame |-> "execute_page"]
DataViewReadOnly == [read |-> TRUE, write |-> FALSE, execute |-> FALSE,
                     frame |-> "read_write_page"]

(* The two ways a handler leaves the four fields of a hooked page's entry. *)
ExecView == [read |-> FALSE, write |-> FALSE, execute |-> TRUE,
             frame |-> "execute_page"]
DataView == [read |-> TRUE, write |-> TRUE, execute |-> FALSE,
             frame |-> "read_write_page"]
Entries == [read : BOOLEAN, write : BOOLEAN, execute : BOOLEAN,
            frame : {"execute_page", "read_write_page"}]

(* A function whose page an earlier function already hooked gets no EptHook *)
(* of its own: it is patched into the execute page of the earlier one.      *)
FunctionHooks(i) ==
  IF \E j \in 0 .. (i - 1) : FunctionPage[j] = FunctionPage[i]
    THEN NoHook
    ELSE FunctionPage[i]

(* Mutants of the search: the test for null is missing, or the comparison   *)
(* of the page is.                                                          *)
IndexOfLast(p) ==
  CHOOSE i \in Indices :
    FunctionPage[i] = p /\ \A j \in Indices : FunctionPage[j] = p => j <= i
IndexOfAny(p) == CHOOSE i \in Indices : FunctionHooks(i) # NoHook

(* The entry handle_ept_violation finds for a faulting address. *)
IndexOf(p) == CHOOSE i \in Indices : FunctionHooks(i) = p

Init ==
  /\ pte = [c \in Cpus |-> [p \in HookedPages |-> ExecView]]
  /\ tlb = [c \in Cpus |-> [p \in HookedPages |-> NotCached]]
  /\ mtf = [c \in Cpus |-> FALSE]
  /\ expected = -1
  /\ at = [c \in Cpus |-> "guest"]
  /\ fault = [c \in Cpus |-> NoHook]
  /\ index = [c \in Cpus |-> -1]
  /\ cur = [c \in Cpus |-> NoInsn]
  /\ seen = [c \in Cpus |-> {}]

Goto(c, from, to) ==
  /\ at[c] = from
  /\ at' = [at EXCEPT ![c] = to]

-----------------------------------------------------------------------------
(* The guest and the processor. *)

(* What a walk for a page may use: the entry, or a translation the TLB may  *)
(* still hold.                                                              *)
Lookup(c, p) == {pte[c][p]} \cup ({tlb[c][p]} \ {NotCached})

(* The next instruction of the guest. *)
GuestBegin(c, i) ==
  /\ at[c] = "guest"
  /\ cur[c] = NoInsn
  /\ cur' = [cur EXCEPT ![c] = i]
  /\ UNCHANGED <<pte, tlb, mtf, shared, at, fault, seen>>

(* The end of an instruction, or the delivery of an interrupt: with MTF on  *)
(* the processor exits before the next instruction.                         *)
InsnBoundary(c) ==
  /\ at' = [at EXCEPT ![c] = IF mtf[c] THEN "mtf_check" ELSE "guest"]
  /\ cur' = [cur EXCEPT ![c] = NoInsn]

(* Every access of the instruction is permitted by the translation it uses. *)
GuestRetire(c) ==
  LET used == Abstract!HookedAccesses(cur[c])
      pages == {a.page : a \in used}
      entries == UNION {Lookup(c, p) : p \in pages}
  IN  /\ at[c] = "guest"
      /\ cur[c] # NoInsn
      /\ \A a \in Abstract!Accesses(cur[c]) : a.page \notin Unmapped
      /\ \E view \in [pages -> entries] :
           /\ \A p \in pages : view[p] \in Lookup(c, p)
           /\ \A a \in used : view[a.page][a.kind]
           /\ seen' = [seen EXCEPT ![c] =
                         {[access |-> a, frame |-> view[a.page].frame] :
                             a \in used}]
           /\ tlb' = [tlb EXCEPT ![c] =
                        [p \in HookedPages |->
                           IF p \in pages THEN view[p] ELSE @[p]]]
      /\ InsnBoundary(c)
      /\ UNCHANGED <<pte, mtf, shared, fault>>

(* An interrupt takes the instruction away; it is not a VM exit. *)
GuestInterrupt(c) ==
  /\ at[c] = "guest"
  /\ InsnBoundary(c)
  /\ UNCHANGED <<pte, tlb, mtf, shared, fault, seen>>

(* Some access is not permitted: the processor drops the translation it     *)
(* used and exits.                                                          *)
GuestEptViolation(c) ==
  /\ cur[c] # NoInsn
  /\ \E a \in Abstract!Accesses(cur[c]) :
       /\ \/ a.page \in Unmapped
          \/ /\ a.page \in HookedPages
             /\ \E view \in Lookup(c, a.page) : ~view[a.kind]
       /\ fault' = [fault EXCEPT ![c] = a.page]
       /\ tlb' = [tlb EXCEPT ![c] =
                    [p \in HookedPages |->
                       IF p = a.page THEN NotCached ELSE @[p]]]
  /\ Goto(c, "guest", "ept_violation")
  /\ UNCHANGED <<pte, mtf, shared, guest>>

-----------------------------------------------------------------------------
(* The handlers. *)

(* Mutant: the handler does not invalidate. *)
SwitchViewNoInvept(c, p, view, flag) ==
  /\ pte' = [pte EXCEPT ![c][p] = view]
  /\ mtf' = [mtf EXCEPT ![c] = flag]
  /\ UNCHANGED tlb

(* What both EptHook handlers do: rewrite the entry of this processor,      *)
(* invept_global() and set the flag in its VMCS.                            *)
SwitchView(c, p, view, flag) ==
  /\ pte' = [pte EXCEPT ![c][p] = view]
  /\ tlb' = [tlb EXCEPT ![c] = [q \in HookedPages |-> NotCached]]
  /\ mtf' = [mtf EXCEPT ![c] = flag]

(* handle_ept_violation of the engine finds the hook, and the hook's own    *)
(* handle_ept_violation opens the window.                                   *)
ViolationHooked(c) ==
  /\ Goto(c, "ept_violation", "set_expected")
  /\ fault[c] \in HookedPages
  /\ SwitchView(c, fault[c], DataView, TRUE)
  /\ UNCHANGED <<shared, fault, guest>>

(* The loop ends without a hook: the guest retries the same access. *)
ViolationIgnored(c) ==
  /\ Goto(c, "ept_violation", "guest")
  /\ fault[c] \notin HookedPages
  /\ UNCHANGED <<pte, tlb, mtf, shared, fault, guest>>

(* expected_mtf_function_index_ = i, and the guest resumes. *)
SetExpected(c) ==
  /\ Goto(c, "set_expected", "guest")
  /\ expected' = IndexOf(fault[c])
  /\ UNCHANGED <<pte, tlb, mtf, index, fault, guest>>

(* Mutant: index 0 is taken for none. *)
MtfCheckPositive(c) ==
  /\ Goto(c, "mtf_check", IF expected > 0 THEN "mtf_hook" ELSE "mtf_reset")
  /\ index' = [index EXCEPT ![c] = expected]
  /\ UNCHANGED <<pte, tlb, mtf, expected, fault, guest>>

(* The test of the sign at the head of handle_mtf. *)
MtfCheck(c) ==
  /\ Goto(c, "mtf_check", IF expected >= 0 THEN "mtf_hook" ELSE "mtf_reset")
  /\ index' = [index EXCEPT ![c] = expected]
  /\ UNCHANGED <<pte, tlb, mtf, expected, fault, guest>>

(* The index the call goes through. *)
MtfIndices(c) == {index[c]} \cup (IF ReloadIndex THEN {expected} ELSE {})

(* function_hooks_[i]->handle_mtf() *)
MtfHook(c) ==
  /\ Goto(c, "mtf_hook", "mtf_reset")
  /\ \E i \in MtfIndices(c) \cap Indices :
       /\ FunctionHooks(i) # NoHook
       /\ SwitchView(c, FunctionHooks(i), ExecView, FALSE)
  /\ UNCHANGED <<shared, fault, guest>>

(* The same call on function_hooks_[-1] or on a null entry: the processor   *)
(* is lost.                                                                 *)
MtfWild(c) ==
  /\ Goto(c, "mtf_hook", "wild")
  /\ \E i \in MtfIndices(c) : i \in Indices => FunctionHooks(i) = NoHook
  /\ UNCHANGED <<pte, tlb, mtf, shared, fault, guest>>

(* Mutant: the index is not reset. *)
MtfNoReset(c) ==
  /\ Goto(c, "mtf_reset", "guest")
  /\ UNCHANGED <<pte, tlb, mtf, shared, fault, guest>>

(* expected_mtf_function_index_ = -1, and the guest resumes. *)
MtfReset(c) ==
  /\ Goto(c, "mtf_reset", "guest")
  /\ expected' = -1
  /\ UNCHANGED <<pte, tlb, mtf, index, fault, guest>>

-----------------------------------------------------------------------------
Handler(c) ==
  \/ ViolationHooked(c) \/ ViolationIgnored(c) \/ SetExpected(c)
  \/ MtfCheck(c) \/ MtfHook(c) \/ MtfWild(c) \/ MtfReset(c)

Guest(c) ==
  \/ \E i \in Instructions : GuestBegin(c, i)
  \/ GuestRetire(c)
  \/ GuestInterrupt(c)
  \/ GuestEptViolation(c)

Next == \E c \in Cpus : Handler(c) \/ Guest(c)

Spec == Init /\ [][Next]_vars

(* A handler is never preempted, and a processor that resumed the guest     *)
(* executes its instruction: it retires or faults again.                    *)
Fairness ==
  \A c \in Cpus : /\ WF_vars(Handler(c))
                  /\ WF_vars(GuestRetire(c) \/ GuestEptViolation(c))

FairSpec == Spec /\ Fairness

-----------------------------------------------------------------------------
(* The windows in which a processor has a hook lifted: from the EPT         *)
(* violation to the end of the MTF exit that answers it.                    *)
Window(c) == at[c] # "guest" \/ mtf[c]

(* Executions in which two processors never have a window open together; a  *)
(* machine with one processor has no others.                                *)
OneWindow == \A c, d \in Cpus : Window(c) /\ Window(d) => c = d

SerialNext == Next /\ OneWindow'
SerialSpec == Init /\ [][SerialNext]_vars
FairSerialSpec == SerialSpec /\ Fairness

(* The hooked pages an instruction reads or writes. *)
DataPages(i) == (i.reads \cup i.writes) \cap HookedPages

(* No instruction reads or writes two hooked pages. *)
OneDataPage == \A i \in Instructions : \A p, q \in DataPages(i) : p = q

-----------------------------------------------------------------------------
(* Properties. *)

Locations == {"guest", "ept_violation", "set_expected",
              "mtf_check", "mtf_hook", "mtf_reset", "wild"}

(* Every variable has its type. *)
TypeOK ==
  /\ pte \in [Cpus -> [HookedPages -> Entries]]
  /\ tlb \in [Cpus -> [HookedPages -> Entries \cup {NotCached}]]
  /\ mtf \in [Cpus -> BOOLEAN]
  /\ expected \in Indices \cup {-1}
  /\ at \in [Cpus -> Locations]
  /\ fault \in [Cpus -> HookedPages \cup Unmapped \cup {NoHook}]
  /\ index \in [Cpus -> Indices \cup {-1}]
  /\ cur \in [Cpus -> Instructions \cup {NoInsn}]

(* Whatever the processors do to each other through the shared index, an    *)
(* entry never lets the guest execute the original page or read and write   *)
(* the patched one: EptHook's two handlers always change all four fields.   *)
SplitView ==
  \A c \in Cpus, p \in HookedPages :
    LET e == pte[c][p]
    IN  /\ e.execute <=> e.frame = "execute_page"
        /\ e.read <=> ~e.execute
        /\ e.write <=> ~e.execute

(* No processor ever runs on a translation its table no longer holds: each  *)
(* handler that rewrites an entry also invalidates (invept_global).         *)
TlbCoherent ==
  \A c \in Cpus, p \in HookedPages : tlb[c][p] \in {NotCached, pte[c][p]}

(* The guest finds the patched copy whenever it executes a hooked page and  *)
(* the original whenever it reads or writes one.                            *)
Transparent == Abstract!Spec

(* handle_mtf never calls through an entry of function_hooks_ that holds no *)
(* hook: the test of the sign excludes -1, and handle_ept_violation stores  *)
(* only indices of hooks, for a page of several hooked functions too.       *)
NoWildCall == \A c \in Cpus : at[c] # "wild"

(* A processor in the guest without the monitor trap flag has every hook in *)
(* place: each window is closed by the MTF exit of the instruction that     *)
(* opened it.                                                               *)
HookRestored ==
  \A c \in Cpus :
    at[c] = "guest" /\ ~mtf[c] =>
      \A p \in HookedPages : pte[c][p] = ExecView

(* While a processor single-steps, expected_mtf_function_index_ names the   *)
(* only page it has lifted, and when no window is open it names none.       *)
ExpectedNamesWindow ==
  /\ \A c \in Cpus :
       at[c] \in {"guest", "mtf_check"} /\ mtf[c] =>
         /\ expected \in Indices
         /\ \A p \in HookedPages :
              pte[c][p] = IF p = FunctionHooks(expected) THEN DataView
                                                         ELSE ExecView
  /\ (\A c \in Cpus : ~Window(c)) => expected = -1

(* The guest makes progress: an instruction that is not taken away by an    *)
(* interrupt retires, in spite of the violations and traps on its way.      *)
InstructionEnds ==
  \A c \in Cpus : cur[c] # NoInsn ~> cur[c] = NoInsn

(* Single-stepping ends: the handler that turns the monitor trap flag on is *)
(* followed by one that turns it off.                                       *)
SteppingEnds == \A c \in Cpus : mtf[c] ~> ~mtf[c]

=============================================================================
