-------------------------- MODULE HookEngineProofs --------------------------
(***************************************************************************)
(* What is proved of HookEngine for any number of processors, of hooked    *)
(* functions and of pages, and for any instructions.                       *)
(***************************************************************************)
EXTENDS HookEngine, WellFoundedInduction, TLAPS

(* The order of the indices, and its least-number principle. *)
Before == {ss \in Nat \X Nat : ss[1] < ss[2]}

LEMMA BeforeWellFounded == IsWellFoundedOn(Before, Nat)
BY NatLessThanWellFounded DEF Before, OpToRel

(* Every hooked page has an entry of function_hooks_: the first function on *)
(* a page gets one, so the search of handle_ept_violation finds it.         *)
LEMMA HookExists ==
  ASSUME NEW p \in HookedPages
  PROVE  /\ IndexOf(p) \in Indices
         /\ FunctionHooks(IndexOf(p)) = p
<1> DEFINE T == {i \in Indices : FunctionPage[i] = p}
<1>1. T \subseteq Nat /\ T # {}
  BY CountAssumption DEF HookedPages, Indices
<1>2. PICK m \in T : \A i \in T : ~(<<i, m>> \in Before)
  BY <1>1, BeforeWellFounded, WFMin
<1>3. ASSUME NEW j \in 0 .. (m - 1), FunctionPage[j] = p
      PROVE  FALSE
  <2>1. m \in Nat /\ j \in Nat /\ j < m /\ j \in Indices
    BY CountAssumption DEF Indices
  <2>2. j \in T /\ <<j, m>> \in Before
    BY <2>1, <1>3 DEF Before
  <2> QED
    BY <2>2, <1>2
<1>4. FunctionHooks(m) = p
  BY <1>1, <1>2, <1>3 DEF FunctionHooks
<1> QED
  BY <1>2, <1>4 DEF IndexOf

(* No two entries of function_hooks_ hold hooks of one page. *)
LEMMA HookUnique ==
  ASSUME NEW i \in Indices, NEW j \in Indices,
         FunctionHooks(i) # NoHook, FunctionHooks(i) = FunctionHooks(j)
  PROVE  i = j
<1>1. /\ FunctionPage[i] = FunctionPage[j]
      /\ j \notin 0 .. (i - 1)
      /\ i \notin 0 .. (j - 1)
  BY DEF FunctionHooks
<1> QED
  BY <1>1, CountAssumption DEF Indices

-----------------------------------------------------------------------------
(* What a walk may use has the type of an entry, so has what a handler      *)
(* writes.                                                                  *)
LEMMA LookupType ==
  ASSUME TypeOK, NEW c \in Cpus, NEW p \in HookedPages
  PROVE  Lookup(c, p) \subseteq Entries
BY DEF TypeOK, Lookup

LEMMA ViewTypes == ExecView \in Entries /\ DataView \in Entries
BY DEF ExecView, DataView, Entries

LEMMA SwitchViewType ==
  ASSUME TypeOK, NEW c \in Cpus, NEW p \in HookedPages,
         NEW view \in Entries, NEW flag \in BOOLEAN,
         SwitchView(c, p, view, flag)
  PROVE  /\ pte' \in [Cpus -> [HookedPages -> Entries]]
         /\ tlb' \in [Cpus -> [HookedPages -> Entries \cup {NotCached}]]
         /\ mtf' \in [Cpus -> BOOLEAN]
BY DEF SwitchView, TypeOK

(* TypeOK is not inductive: the index a handler stores is an index of       *)
(* function_hooks_ because it searched for the page of a hook.              *)
FaultIsHooked ==
  \A c \in Cpus : at[c] = "set_expected" => fault[c] \in HookedPages

TypeInv == TypeOK /\ FaultIsHooked

LEMMA TypeInvInductive ==
  /\ Init => TypeInv
  /\ TypeInv /\ [Next]_vars => TypeInv'
<1>1. Init => TypeInv
  BY ViewTypes DEF Init, TypeInv, TypeOK, FaultIsHooked, Locations
<1>2. TypeInv /\ [Next]_vars => TypeInv'
  <2> SUFFICES ASSUME TypeOK, FaultIsHooked, [Next]_vars
               PROVE  TypeInv'
    BY DEF TypeInv
  <2>1. ASSUME NEW c \in Cpus, NEW i \in Instructions, GuestBegin(c, i)
        PROVE  TypeInv'
    BY <2>1 DEF GuestBegin, TypeInv, TypeOK, FaultIsHooked, shared
  <2>2. ASSUME NEW c \in Cpus, GuestRetire(c)
        PROVE  TypeInv'
    <3> DEFINE used == Abstract!HookedAccesses(cur[c])
               pages == {a.page : a \in used}
               entries == UNION {Lookup(c, p) : p \in pages}
    <3>1. pages \subseteq HookedPages
      BY DEF Abstract!HookedAccesses
    <3>2. entries \subseteq Entries
      BY <3>1, LookupType
    <3>3. PICK view \in [pages -> entries] :
            tlb' = [tlb EXCEPT ![c] =
                      [p \in HookedPages |->
                         IF p \in pages THEN view[p] ELSE @[p]]]
      BY <2>2 DEF GuestRetire
    <3>4. \A p \in pages : view[p] \in Entries
      BY <3>2, <3>3
    <3> HIDE DEF pages
    <3>5. tlb' \in [Cpus -> [HookedPages -> Entries \cup {NotCached}]]
      BY <3>3, <3>4 DEF TypeOK
    <3> QED
      BY <2>2, <3>5 DEF GuestRetire, InsnBoundary, TypeInv, TypeOK, FaultIsHooked, Locations, shared
  <2>3. ASSUME NEW c \in Cpus, GuestInterrupt(c)
        PROVE  TypeInv'
    BY <2>3 DEF GuestInterrupt, InsnBoundary, TypeInv, TypeOK, FaultIsHooked, Locations, shared
  <2>4. ASSUME NEW c \in Cpus, GuestEptViolation(c)
        PROVE  TypeInv'
    BY <2>4 DEF GuestEptViolation, Goto, TypeInv, TypeOK, FaultIsHooked, Locations, shared, guest
  <2>5. ASSUME NEW c \in Cpus, ViolationHooked(c)
        PROVE  TypeInv'
    <3>1. fault[c] \in HookedPages /\ SwitchView(c, fault[c], DataView, TRUE)
      BY <2>5 DEF ViolationHooked
    <3> QED
      BY <2>5, <3>1, ViewTypes, SwitchViewType
      DEF ViolationHooked, Goto, TypeInv, TypeOK, FaultIsHooked, Locations, shared, guest
  <2>6. ASSUME NEW c \in Cpus, ViolationIgnored(c)
        PROVE  TypeInv'
    BY <2>6 DEF ViolationIgnored, Goto, TypeInv, TypeOK, FaultIsHooked, Locations, shared, guest
  <2>7. ASSUME NEW c \in Cpus, SetExpected(c)
        PROVE  TypeInv'
    BY <2>7, HookExists DEF SetExpected, Goto, TypeInv, TypeOK, FaultIsHooked, Locations, guest
  <2>8. ASSUME NEW c \in Cpus, MtfCheck(c)
        PROVE  TypeInv'
    BY <2>8 DEF MtfCheck, Goto, TypeInv, TypeOK, FaultIsHooked, Locations, guest
  <2>9. ASSUME NEW c \in Cpus, MtfHook(c)
        PROVE  TypeInv'
    <3>1. PICK i \in Indices : /\ FunctionHooks(i) # NoHook
                               /\ SwitchView(c, FunctionHooks(i), ExecView, FALSE)
      BY <2>9 DEF MtfHook
    <3>2. FunctionHooks(i) \in HookedPages
      BY <3>1 DEF FunctionHooks, HookedPages
    <3> QED
      BY <2>9, <3>1, <3>2, ViewTypes, SwitchViewType
      DEF MtfHook, Goto, TypeInv, TypeOK, FaultIsHooked, Locations, shared, guest
  <2>10. ASSUME NEW c \in Cpus, MtfWild(c)
         PROVE  TypeInv'
    BY <2>10 DEF MtfWild, Goto, TypeInv, TypeOK, FaultIsHooked, Locations, shared, guest
  <2>11. ASSUME NEW c \in Cpus, MtfReset(c)
         PROVE  TypeInv'
    BY <2>11 DEF MtfReset, Goto, TypeInv, TypeOK, FaultIsHooked, Locations, guest
  <2>12. CASE UNCHANGED vars
    BY <2>12 DEF vars, TypeInv, TypeOK, FaultIsHooked, shared, guest
  <2> QED
    BY <2>1, <2>2, <2>3, <2>4, <2>5, <2>6, <2>7, <2>8, <2>9, <2>10, <2>11,
       <2>12
    DEF Next, Guest, Handler
<1> QED
  BY <1>1, <1>2

(* Every reachable state of the engine has the type TypeOK: the index the   *)
(* processors share is always -1 or an index of function_hooks_.            *)
THEOREM TypeInvariant == Spec => []TypeOK
BY TypeInvInductive, PTL DEF Spec, TypeInv

-----------------------------------------------------------------------------
(* The two invariants of the entries need no agreement between processors:  *)
(* they survive every race on the shared index.                             *)
Coherent == SplitView /\ TlbCoherent

LEMMA SwitchViewCoherent ==
  ASSUME TypeOK, Coherent, NEW c \in Cpus, NEW p \in HookedPages,
         NEW view \in {ExecView, DataView}, NEW flag,
         SwitchView(c, p, view, flag)
  PROVE  Coherent'
<1>1. \A d \in Cpus, q \in HookedPages :
        pte'[d][q] = IF d = c /\ q = p THEN view ELSE pte[d][q]
  BY DEF SwitchView, TypeOK
<1>2. \A d \in Cpus, q \in HookedPages :
        tlb'[d][q] = IF d = c THEN NotCached ELSE tlb[d][q]
  BY DEF SwitchView, TypeOK
<1>3. SplitView'
  BY <1>1 DEF Coherent, SplitView, ExecView, DataView
<1>4. TlbCoherent'
  BY <1>1, <1>2 DEF Coherent, TlbCoherent
<1> QED
  BY <1>3, <1>4 DEF Coherent

(* What the guest uses for an access is the entry of its own table. *)
LEMMA LookupCoherent ==
  ASSUME TlbCoherent, NEW c \in Cpus, NEW p \in HookedPages
  PROVE  Lookup(c, p) = {pte[c][p]}
BY DEF Lookup, TlbCoherent

(* On any number of processors no entry ever mixes the patched page with    *)
(* data permissions, and no TLB holds what its table no longer does.        *)
THEOREM CoherentInvariant == Spec => []Coherent
<1>1. Init => Coherent
  BY DEF Init, Coherent, SplitView, TlbCoherent, ExecView
<1>2. TypeInv /\ Coherent /\ [Next]_vars => Coherent'
  <2> SUFFICES ASSUME TypeOK, FaultIsHooked, Coherent, [Next]_vars
               PROVE  Coherent'
    BY DEF TypeInv
  <2>0. CASE UNCHANGED <<pte, tlb>>
    BY <2>0 DEF Coherent, SplitView, TlbCoherent
  <2>1. ASSUME NEW c \in Cpus, GuestRetire(c)
        PROVE  Coherent'
    <3> DEFINE used == Abstract!HookedAccesses(cur[c])
               pages == {a.page : a \in used}
               entries == UNION {Lookup(c, p) : p \in pages}
    <3>1. PICK view \in [pages -> entries] :
            /\ \A p \in pages : view[p] \in Lookup(c, p)
            /\ tlb' = [tlb EXCEPT ![c] =
                         [p \in HookedPages |->
                            IF p \in pages THEN view[p] ELSE @[p]]]
      BY <2>1 DEF GuestRetire
    <3> HIDE DEF pages
    <3>2. pte' = pte
      BY <2>1 DEF GuestRetire
    <3>3. \A p \in HookedPages : p \in pages => view[p] = pte[c][p]
      BY <3>1, LookupCoherent DEF Coherent
    <3>4. \A d \in Cpus, p \in HookedPages :
            tlb'[d][p] \in {tlb[d][p], pte[d][p]}
      BY <3>1, <3>3 DEF TypeOK
    <3> QED
      BY <3>2, <3>4 DEF Coherent, SplitView, TlbCoherent
  <2>2. ASSUME NEW c \in Cpus, GuestEptViolation(c)
        PROVE  Coherent'
    <3>1. \A d \in Cpus, p \in HookedPages :
            tlb'[d][p] \in {tlb[d][p], NotCached}
      BY <2>2 DEF GuestEptViolation, TypeOK
    <3> QED
      BY <2>2, <3>1 DEF GuestEptViolation, Coherent, SplitView, TlbCoherent
  <2>3. ASSUME NEW c \in Cpus, ViolationHooked(c)
        PROVE  Coherent'
    BY <2>3, SwitchViewCoherent DEF ViolationHooked
  <2>4. ASSUME NEW c \in Cpus, MtfHook(c)
        PROVE  Coherent'
    <3>1. PICK i \in Indices : /\ FunctionHooks(i) # NoHook
                               /\ SwitchView(c, FunctionHooks(i), ExecView, FALSE)
      BY <2>4 DEF MtfHook
    <3>2. FunctionHooks(i) \in HookedPages
      BY <3>1 DEF FunctionHooks, HookedPages
    <3> QED
      BY <3>1, <3>2, SwitchViewCoherent
  <2> QED
    BY <2>0, <2>1, <2>2, <2>3, <2>4
    DEF Next, Guest, Handler, vars, shared, guest, GuestBegin, GuestInterrupt,
        ViolationIgnored, SetExpected, MtfCheck, MtfWild, MtfReset
<1>3. Spec => []TypeInv
  BY TypeInvInductive, PTL DEF Spec
<1> QED
  BY <1>1, <1>2, <1>3, PTL DEF Spec

(* A hooked page is mapped for execution as its patched copy, or for data   *)
(* as the original, and never with a field of each: whatever processors do  *)
(* to the index they share, and wherever a handler was overtaken.           *)
THEOREM ViewsNeverMixed == Spec => []SplitView
BY CoherentInvariant, PTL DEF Coherent

(* What a processor may still have cached of a hooked page is what its      *)
(* tables hold: each handler that rewrites an entry invalidates it before   *)
(* the guest runs again.                                                    *)
THEOREM CachedViewsCurrent == Spec => []TlbCoherent
BY CoherentInvariant, PTL DEF Coherent

-----------------------------------------------------------------------------
(* An access the guest was allowed to make reached the promised copy. *)
LEMMA AllowedIsPromised ==
  ASSUME TypeOK, SplitView, NEW c \in Cpus, NEW p \in HookedPages,
         NEW kind \in {"execute", "read", "write"}, pte[c][p][kind]
  PROVE  pte[c][p].frame = Abstract!Promised(kind)
<1>1. pte[c][p] \in Entries
  BY DEF TypeOK
<1>2. CASE kind = "execute"
  BY <1>2 DEF SplitView, Abstract!Promised
<1>3. CASE kind = "read"
  BY <1>1, <1>3 DEF SplitView, Abstract!Promised, Entries
<1>4. CASE kind = "write"
  BY <1>1, <1>4 DEF SplitView, Abstract!Promised, Entries
<1> QED
  BY <1>2, <1>3, <1>4

(* Whatever the guest does and however the processors interleave, no        *)
(* instruction executes an unpatched hooked page or reads a patched one:    *)
(* the engine implements TransparentHooks.                                  *)
THEOREM HooksTransparent == Spec => Transparent
<1>1. Init => Abstract!Init
  BY DEF Init, Abstract!Init
<1>2. TypeInv /\ Coherent /\ [Next]_vars
        => [Abstract!Next]_(Abstract!vars)
  <2> SUFFICES ASSUME TypeOK, Coherent, [Next]_vars
               PROVE  [Abstract!Next]_(Abstract!vars)
    BY DEF TypeInv
  <2>0. CASE UNCHANGED guest
    BY <2>0 DEF guest, Abstract!vars
  <2>1. ASSUME NEW c \in Cpus, NEW i \in Instructions, GuestBegin(c, i)
        PROVE  Abstract!Next
    BY <2>1 DEF GuestBegin, Abstract!Next, Abstract!Begin
  <2>2. ASSUME NEW c \in Cpus, GuestRetire(c)
        PROVE  Abstract!Next
    <3> DEFINE used == Abstract!HookedAccesses(cur[c])
               pages == {a.page : a \in used}
               entries == UNION {Lookup(c, p) : p \in pages}
    <3>1. PICK view \in [pages -> entries] :
            /\ \A p \in pages : view[p] \in Lookup(c, p)
            /\ \A a \in used : view[a.page][a.kind]
            /\ seen' = [seen EXCEPT ![c] =
                          {[access |-> a, frame |-> view[a.page].frame] :
                              a \in used}]
      BY <2>2 DEF GuestRetire
    <3>2. \A a \in used : view[a.page].frame = Abstract!Promised(a.kind)
      <4> SUFFICES ASSUME NEW a \in used
                   PROVE  view[a.page].frame = Abstract!Promised(a.kind)
        OBVIOUS
      <4>1. /\ a.page \in HookedPages
            /\ a.kind \in {"execute", "read", "write"}
        BY DEF Abstract!HookedAccesses, Abstract!Accesses
      <4>2. view[a.page] = pte[c][a.page]
        BY <3>1, <4>1, LookupCoherent DEF Coherent
      <4> QED
        BY <3>1, <4>1, <4>2, AllowedIsPromised DEF Coherent
    <3>3. {[access |-> a, frame |-> view[a.page].frame] : a \in used}
            = {[access |-> a, frame |-> Abstract!Promised(a.kind)] : a \in used}
      BY <3>2
    <3>4. Abstract!Retire(c)
      BY <2>2, <3>1, <3>3 DEF GuestRetire, InsnBoundary, Abstract!Retire
    <3> QED
      BY <3>4 DEF Abstract!Next
  <2>3. ASSUME NEW c \in Cpus, GuestInterrupt(c)
        PROVE  Abstract!Next
    BY <2>3 DEF GuestInterrupt, InsnBoundary, Abstract!Next,
                Abstract!Interrupted
  <2> QED
    BY <2>0, <2>1, <2>2, <2>3
    DEF Next, Guest, Handler, vars, guest, GuestEptViolation, ViolationHooked,
        ViolationIgnored, SetExpected, MtfCheck, MtfHook, MtfWild, MtfReset
<1>3. Spec => []TypeInv
  BY TypeInvInductive, PTL DEF Spec
<1> QED
  BY <1>1, <1>2, <1>3, CoherentInvariant, PTL
  DEF Spec, Transparent, Abstract!Spec

-----------------------------------------------------------------------------
(* The windows, when no two processors have one open together. *)
AllExecute(c) == \A p \in HookedPages : pte[c][p] = ExecView

Lifted(c, q) ==
  \A p \in HookedPages : pte[c][p] = IF p = q THEN DataView ELSE ExecView

(* The shared index names the page whose entry c has lifted. *)
ExpectedLifted(c) ==
  /\ expected \in Indices
  /\ FunctionHooks(expected) # NoHook
  /\ Lifted(c, FunctionHooks(expected))

(* What holds of one processor at each place of its code.  In the guest the *)
(* lifted page is one that the current instruction reads or writes: with    *)
(* OneDataPage it cannot open a second window inside the first.             *)
WindowOK(c) ==
  /\ ~Window(c) => AllExecute(c)
  /\ at[c] = "ept_violation" =>
       /\ cur[c] # NoInsn
       /\ fault[c] \in HookedPages => fault[c] \in DataPages(cur[c])
       /\ ~mtf[c] => AllExecute(c)
  /\ at[c] = "set_expected" =>
       /\ mtf[c]
       /\ cur[c] # NoInsn
       /\ fault[c] \in DataPages(cur[c])
       /\ Lifted(c, fault[c])
  /\ mtf[c] /\ at[c] \in {"guest", "ept_violation"} =>
       /\ cur[c] # NoInsn
       /\ FunctionHooks(expected) \in DataPages(cur[c])
  /\ mtf[c] /\ at[c] # "set_expected" => ExpectedLifted(c)
  /\ at[c] \in {"mtf_check", "mtf_hook"} => mtf[c]
  /\ at[c] = "mtf_hook" => index[c] = expected
  /\ at[c] = "mtf_reset" => ~mtf[c] /\ AllExecute(c)
  /\ at[c] # "wild"

(* A processor whose hooks are all in place has nothing in the index. *)
Lifting(c) == mtf[c] \/ at[c] \notin {"guest", "ept_violation"}
NoneExpected == (\A c \in Cpus : ~Lifting(c)) => expected = -1

WindowInv == OneWindow /\ NoneExpected /\ \A c \in Cpus : WindowOK(c)

Step(c) == Handler(c) \/ Guest(c)

(* A step of one processor leaves the others where they are. *)
LEMMA OthersUntouched ==
  ASSUME TypeOK, NEW c \in Cpus, NEW d \in Cpus, d # c, Step(c)
  PROVE  /\ pte'[d] = pte[d] /\ mtf'[d] = mtf[d] /\ at'[d] = at[d]
         /\ fault'[d] = fault[d] /\ index'[d] = index[d] /\ cur'[d] = cur[d]
BY DEF TypeOK, Step, Handler, Guest, GuestBegin, GuestRetire, GuestInterrupt,
       GuestEptViolation, InsnBoundary, ViolationHooked, ViolationIgnored,
       SetExpected, MtfCheck, MtfHook, MtfWild, MtfReset, SwitchView, Goto,
       guest, shared

(* Only a processor in a window writes the shared index. *)
LEMMA OnlyWindowsWrite ==
  ASSUME NEW c \in Cpus, Step(c), ~Window(c)
  PROVE  expected' = expected
BY DEF Step, Handler, Guest, GuestBegin, GuestRetire, GuestInterrupt,
       GuestEptViolation, ViolationHooked, ViolationIgnored, SetExpected,
       MtfCheck, MtfHook, MtfWild, MtfReset, Goto, shared, Window

(* So what holds of the others goes on to hold. *)
LEMMA OtherWindows ==
  ASSUME TypeOK, WindowInv, OneWindow',
         NEW c \in Cpus, NEW d \in Cpus, d # c, Step(c)
  PROVE  WindowOK(d)'
<1>1. /\ pte'[d] = pte[d] /\ mtf'[d] = mtf[d] /\ at'[d] = at[d]
      /\ fault'[d] = fault[d] /\ index'[d] = index[d] /\ cur'[d] = cur[d]
  BY OthersUntouched
<1>2. CASE Window(d)
  <2>1. ~Window(c)
    BY <1>2 DEF WindowInv, OneWindow
  <2>2. expected' = expected
    BY <2>1, OnlyWindowsWrite
  <2> QED
    BY <1>1, <2>2
    DEF WindowInv, WindowOK, Window, AllExecute, Lifted, ExpectedLifted
<1>3. CASE ~Window(d)
  <2>1. WindowOK(d)
    BY DEF WindowInv
  <2> QED
    BY <1>1, <1>3, <2>1 DEF WindowOK, Window, AllExecute
<1> QED
  BY <1>2, <1>3

(* A violation on a hooked page is a data access of the instruction. *)
LEMMA ViolationOnDataPage ==
  ASSUME TypeOK, TlbCoherent, NEW c \in Cpus, WindowOK(c), OneDataPage,
         GuestEptViolation(c)
  PROVE  fault'[c] \in HookedPages => fault'[c] \in DataPages(cur[c])
<1>1. PICK a \in Abstract!Accesses(cur[c]) :
        /\ fault' = [fault EXCEPT ![c] = a.page]
        /\ a.page \in HookedPages =>
             \E view \in Lookup(c, a.page) : ~view[a.kind]
  BY PageAssumption DEF GuestEptViolation
<1>2. fault'[c] = a.page
  BY <1>1 DEF TypeOK
<1>3. SUFFICES ASSUME a.page \in HookedPages
               PROVE  a.page \in DataPages(cur[c])
  BY <1>2
<1>4. ~pte[c][a.page][a.kind]
  BY <1>1, <1>3, LookupCoherent
<1>5. CASE a.kind = "execute"
  <2>1. pte[c][a.page] # ExecView
    BY <1>4, <1>5 DEF ExecView
  <2>2. at[c] = "guest" /\ mtf[c]
    BY <1>3, <2>1 DEF GuestEptViolation, Goto, WindowOK, Window, AllExecute
  <2>3. ExpectedLifted(c) /\ FunctionHooks(expected) \in DataPages(cur[c])
    BY <2>2 DEF WindowOK
  <2> QED
    BY <1>3, <2>1, <2>3 DEF ExpectedLifted, Lifted
<1>6. CASE a.kind # "execute"
  BY <1>1, <1>3, <1>6 DEF Abstract!Accesses, DataPages
<1> QED
  BY <1>5, <1>6

(* The window of the processor that takes the step. *)
LEMMA OwnWindow ==
  ASSUME TypeOK, FaultIsHooked, TlbCoherent, OneDataPage, WindowInv,
         NEW c \in Cpus, Step(c)
  PROVE  WindowOK(c)' /\ NoneExpected'
<1> USE DEF Window
<1>0. WindowOK(c)
  BY DEF WindowInv
<1>1. ASSUME NEW i \in Instructions, GuestBegin(c, i)
      PROVE  WindowOK(c)' /\ NoneExpected'
  BY <1>0, <1>1
  DEF WindowInv, WindowOK, NoneExpected, Lifting, AllExecute, GuestBegin,
      shared, TypeOK
<1>2. ASSUME GuestRetire(c) \/ GuestInterrupt(c)
      PROVE  WindowOK(c)' /\ NoneExpected'
  <2>1. /\ at[c] = "guest"
        /\ InsnBoundary(c)
        /\ UNCHANGED <<pte, mtf, expected, index, fault>>
    BY <1>2 DEF GuestRetire, GuestInterrupt, shared
  <2> QED
    BY <1>0, <2>1
    DEF WindowInv, WindowOK, NoneExpected, Lifting, AllExecute, Lifted,
        ExpectedLifted, InsnBoundary, TypeOK
<1>3. ASSUME GuestEptViolation(c)
      PROVE  WindowOK(c)' /\ NoneExpected'
  <2>1. /\ at[c] = "guest" /\ at' = [at EXCEPT ![c] = "ept_violation"]
        /\ cur[c] # NoInsn
        /\ UNCHANGED <<pte, mtf, expected, index, cur>>
    BY <1>3 DEF GuestEptViolation, Goto, shared, guest
  <2>2. fault'[c] \in HookedPages => fault'[c] \in DataPages(cur'[c])
    BY <1>0, <1>3, <2>1, ViolationOnDataPage
  <2> QED
    BY <1>0, <2>1, <2>2
    DEF WindowInv, WindowOK, NoneExpected, Lifting, AllExecute, Lifted,
        ExpectedLifted, TypeOK
<1>4. ASSUME ViolationHooked(c)
      PROVE  WindowOK(c)' /\ NoneExpected'
  <2>1. /\ at[c] = "ept_violation" /\ at' = [at EXCEPT ![c] = "set_expected"]
        /\ fault[c] \in HookedPages
        /\ pte' = [pte EXCEPT ![c][fault[c]] = DataView]
        /\ mtf' = [mtf EXCEPT ![c] = TRUE]
        /\ UNCHANGED <<fault, cur>>
    BY <1>4 DEF ViolationHooked, SwitchView, Goto, guest
  <2>2. cur[c] \in Instructions /\ fault[c] \in DataPages(cur[c])
    BY <1>0, <2>1 DEF WindowOK, TypeOK
  <2>3. \A p \in HookedPages : p # fault[c] => pte[c][p] = ExecView
    BY <1>0, <2>1, <2>2
    DEF WindowOK, AllExecute, ExpectedLifted, Lifted, OneDataPage
  <2>4. Lifted(c, fault[c])'
    BY <2>1, <2>3 DEF Lifted, TypeOK
  <2>5. at'[c] = "set_expected" /\ mtf'[c]
    BY <2>1 DEF TypeOK
  <2> QED
    BY <1>0, <2>1, <2>2, <2>4, <2>5, InsnAssumption
    DEF WindowOK, NoneExpected, Lifting
<1>5. ASSUME ViolationIgnored(c)
      PROVE  WindowOK(c)' /\ NoneExpected'
  BY <1>0, <1>5
  DEF WindowInv, WindowOK, NoneExpected, Lifting, AllExecute, Lifted,
      ExpectedLifted, ViolationIgnored, Goto, shared, guest, TypeOK
<1>6. ASSUME SetExpected(c)
      PROVE  WindowOK(c)' /\ NoneExpected'
  <2>1. /\ at[c] = "set_expected" /\ at' = [at EXCEPT ![c] = "guest"]
        /\ expected' = IndexOf(fault[c])
        /\ UNCHANGED <<pte, mtf, fault, cur>>
    BY <1>6 DEF SetExpected, Goto, guest
  <2>2. mtf[c] /\ cur[c] # NoInsn /\ fault[c] \in DataPages(cur[c])
          /\ Lifted(c, fault[c])
    BY <1>0, <2>1 DEF WindowOK
  <2>3. fault[c] \in HookedPages
    BY <2>1 DEF FaultIsHooked
  <2>4. expected' \in Indices /\ FunctionHooks(expected') = fault[c]
    BY <2>1, <2>3, HookExists
  <2>5. FunctionHooks(expected)' = fault[c]
    BY <2>4 DEF FunctionHooks
  <2>6. ExpectedLifted(c)'
    BY <2>1, <2>2, <2>3, <2>4, <2>5, PageAssumption DEF ExpectedLifted, Lifted
  <2>7. at'[c] = "guest" /\ mtf'[c]
    BY <2>1, <2>2 DEF TypeOK
  <2>8. DataPages(cur[c])' = DataPages(cur[c])
    BY <2>1 DEF DataPages
  <2> QED
    BY <2>1, <2>2, <2>5, <2>6, <2>7, <2>8 DEF WindowOK, NoneExpected, Lifting
<1>7. ASSUME MtfCheck(c)
      PROVE  WindowOK(c)' /\ NoneExpected'
  <2>1. expected >= 0
    BY <1>0, <1>7, CountAssumption
    DEF MtfCheck, Goto, WindowOK, ExpectedLifted, Indices
  <2> QED
    BY <1>0, <1>7, <2>1
    DEF WindowOK, NoneExpected, Lifting, AllExecute, Lifted, ExpectedLifted,
        MtfCheck, Goto, guest, TypeOK
<1>8. ASSUME MtfHook(c)
      PROVE  WindowOK(c)' /\ NoneExpected'
  <2>1. at[c] = "mtf_hook" /\ ExpectedLifted(c) /\ index[c] = expected
    BY <1>0, <1>8 DEF MtfHook, Goto, WindowOK
  <2>2. SwitchView(c, FunctionHooks(expected), ExecView, FALSE)
    BY <1>8, <2>1 DEF MtfHook, MtfIndices
  <2>3. at'[c] = "mtf_reset" /\ ~mtf'[c]
    BY <1>8, <2>2 DEF MtfHook, Goto, SwitchView, TypeOK
  <2>4. AllExecute(c)'
    BY <2>1, <2>2 DEF AllExecute, ExpectedLifted, Lifted, SwitchView, TypeOK
  <2> QED
    BY <2>3, <2>4 DEF WindowOK, NoneExpected, Lifting
<1>9. ASSUME MtfWild(c)
      PROVE  FALSE
  BY <1>0, <1>9 DEF MtfWild, MtfIndices, Goto, WindowOK, ExpectedLifted
<1>10. ASSUME MtfReset(c)
       PROVE  WindowOK(c)' /\ NoneExpected'
  BY <1>0, <1>10
  DEF WindowOK, NoneExpected, AllExecute, MtfReset, Goto, guest, TypeOK
<1> QED
  BY <1>1, <1>2, <1>3, <1>4, <1>5, <1>6, <1>7, <1>8, <1>9, <1>10
  DEF Step, Handler, Guest

LEMMA WindowInvInductive ==
  ASSUME OneDataPage
  PROVE  /\ Init => WindowInv
         /\ TypeInv /\ Coherent /\ WindowInv /\ [SerialNext]_vars => WindowInv'
<1>1. Init => WindowInv
  BY DEF Init, WindowInv, OneWindow, NoneExpected, WindowOK, Window, AllExecute
<1>2. ASSUME TypeInv, Coherent, WindowInv, [SerialNext]_vars
      PROVE  WindowInv'
  <2>1. CASE UNCHANGED vars
    BY <1>2, <2>1
    DEF vars, WindowInv, OneWindow, NoneExpected, Lifting, WindowOK, Window,
        AllExecute, ExpectedLifted, Lifted
  <2>2. ASSUME NEW c \in Cpus, Step(c), OneWindow'
        PROVE  WindowInv'
    <3>1. WindowOK(c)' /\ NoneExpected'
      BY <1>2, <2>2, OwnWindow DEF TypeInv, Coherent
    <3>2. \A d \in Cpus : d # c => WindowOK(d)'
      BY <1>2, <2>2, OtherWindows DEF TypeInv
    <3> QED
      BY <2>2, <3>1, <3>2 DEF WindowInv
  <2> QED
    BY <1>2, <2>1, <2>2 DEF SerialNext, Next, Step
<1> QED
  BY <1>1, <1>2

LEMMA WindowInvImplies ==
  ASSUME WindowInv
  PROVE  HookRestored /\ ExpectedNamesWindow /\ NoWildCall
<1>1. HookRestored
  BY DEF WindowInv, WindowOK, Window, AllExecute, HookRestored
<1>2. ExpectedNamesWindow
  BY DEF WindowInv, WindowOK, Window, ExpectedLifted, Lifted, NoneExpected,
         Lifting, ExpectedNamesWindow
<1>3. NoWildCall
  BY DEF WindowInv, WindowOK, NoWildCall
<1> QED
  BY <1>1, <1>2, <1>3

(* As long as no two processors single-step at once and no instruction      *)
(* touches two hooked pages as data, every window is closed by the MTF exit *)
(* it asked for: outside windows all hooks are in place and the index is -1.*)
THEOREM SerialWindowsClose ==
  ASSUME OneDataPage
  PROVE  SerialSpec => [](HookRestored /\ ExpectedNamesWindow)
<1>1. SerialSpec => Spec
  BY PTL DEF SerialSpec, SerialNext, Spec
<1>2. Spec => []TypeInv
  BY TypeInvInductive, PTL DEF Spec
<1> QED
  BY <1>1, <1>2, CoherentInvariant, WindowInvInductive, WindowInvImplies, PTL
  DEF SerialSpec

(* Under the same conditions the shared index is -1 outside of a window and *)
(* names the page that is lifted inside: the MTF exit puts the right one    *)
(* back.                                                                    *)
THEOREM SerialIndexNamesWindow ==
  ASSUME OneDataPage
  PROVE  SerialSpec => []ExpectedNamesWindow
BY SerialWindowsClose, PTL

(* On a machine with one processor the engine needs no such condition. *)
THEOREM OneProcessorWindowsClose ==
  ASSUME OneDataPage, \A c, d \in Cpus : c = d
  PROVE  Spec => [](HookRestored /\ ExpectedNamesWindow)
<1>1. OneWindow'
  BY DEF OneWindow
<1>2. [Next]_vars => [SerialNext]_vars
  BY <1>1 DEF SerialNext
<1>3. Spec => SerialSpec
  BY <1>2, PTL DEF SerialSpec, Spec
<1> QED
  BY <1>3, SerialWindowsClose, PTL

-----------------------------------------------------------------------------
(* The sign of the shared index tells whether it names a hook, whoever      *)
(* wrote it last.                                                           *)
NamesHook(i) == i \in Indices /\ FunctionHooks(i) # NoHook

CallInv ==
  /\ expected # -1 => NamesHook(expected)
  /\ \A c \in Cpus :
       /\ at[c] = "mtf_hook" => NamesHook(index[c])
       /\ at[c] # "wild"

(* If the build loads the index once, a race between two MTF exits never    *)
(* makes handle_mtf call through an entry that holds no hook.               *)
THEOREM OneLoadNoWildCall ==
  ASSUME ReloadIndex = FALSE
  PROVE  Spec => []NoWildCall
<1>1. Init => CallInv
  BY DEF Init, CallInv
<1>2. TypeInv /\ CallInv /\ [Next]_vars => CallInv'
  <2> SUFFICES ASSUME TypeOK, FaultIsHooked, CallInv, [Next]_vars
               PROVE  CallInv'
    BY DEF TypeInv
  <2> USE DEF CallInv
  <2>0. CASE UNCHANGED vars
    BY <2>0 DEF vars
  <2>1. ASSUME NEW c \in Cpus, Guest(c)
        PROVE  CallInv'
    BY <2>1 DEF Guest, GuestBegin, GuestRetire, GuestInterrupt, InsnBoundary,
                GuestEptViolation, Goto, shared, TypeOK
  <2>2. ASSUME NEW c \in Cpus, ViolationHooked(c) \/ ViolationIgnored(c)
        PROVE  CallInv'
    BY <2>2 DEF ViolationHooked, ViolationIgnored, Goto, shared, TypeOK
  <2>3. ASSUME NEW c \in Cpus, SetExpected(c)
        PROVE  CallInv'
    <3>1. fault[c] \in HookedPages
      BY <2>3 DEF SetExpected, Goto, FaultIsHooked
    <3>2. NamesHook(expected')
      BY <2>3, <3>1, HookExists, PageAssumption DEF SetExpected, NamesHook
    <3> QED
      BY <2>3, <3>2 DEF SetExpected, Goto, TypeOK
  <2>4. ASSUME NEW c \in Cpus, MtfCheck(c)
        PROVE  CallInv'
    BY <2>4 DEF MtfCheck, Goto, TypeOK
  <2>5. ASSUME NEW c \in Cpus, MtfHook(c)
        PROVE  CallInv'
    BY <2>5 DEF MtfHook, Goto, shared, TypeOK
  <2>6. ASSUME NEW c \in Cpus, MtfWild(c)
        PROVE  FALSE
    BY <2>6 DEF MtfWild, MtfIndices, NamesHook, Goto
  <2>7. ASSUME NEW c \in Cpus, MtfReset(c)
        PROVE  CallInv'
    BY <2>7 DEF MtfReset, Goto, TypeOK
  <2> QED
    BY <2>0, <2>1, <2>2, <2>3, <2>4, <2>5, <2>6, <2>7 DEF Next, Handler
<1>3. CallInv => NoWildCall
  BY DEF CallInv, NoWildCall
<1>4. Spec => []TypeInv
  BY TypeInvInductive, PTL DEF Spec
<1> QED
  BY <1>1, <1>2, <1>3, <1>4, PTL DEF Spec
=============================================================================
