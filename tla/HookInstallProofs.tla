------------------------- MODULE HookInstallProofs -------------------------
(***************************************************************************)
(* Proofs about HookInstall and the tables of EptTables it works on: for   *)
(* tables of any size, any number of processors and any functions, the     *)
(* installation moves the hooked pages and no others, on every processor,  *)
(* and a call made afterwards runs its callback and the whole function.    *)
(***************************************************************************)
EXTENDS HookInstall, SequenceTheorems, WellFoundedInduction, TLAPS

-----------------------------------------------------------------------------
(* The tables: setup_ept and the body of the loop of EptHook. *)

(* Division with remainder, as the index computations use it. *)
LEMMA DivModInt ==
  ASSUME NEW n \in Int, NEW d \in Int, d > 0
  PROVE  n = d * (n \div d) + (n % d)
  BY SMT

LEMMA DivMod ==
  ASSUME NEW n \in Nat, NEW d \in Nat \ {0}
  PROVE  /\ n \div d \in Nat
         /\ n % d \in 0 .. (d - 1)
         /\ n = d * (n \div d) + (n % d)
<1>1. n \div d \in Int /\ n \div d >= 0
  BY SMT
<1>2. n % d \in 0 .. (d - 1)
  BY SMT
<1>3. n = d * (n \div d) + (n % d)
  BY DivModInt
<1> QED
  BY <1>1, <1>2, <1>3

LEMMA DivLess ==
  ASSUME NEW n \in Nat, NEW d \in Nat \ {0}, NEW m \in Nat, n < d * m
  PROVE  n \div d < m
<1>1. n \div d \in Nat /\ d * (n \div d) <= n
  BY DivMod
<1>2. SUFFICES ASSUME NEW q \in Nat, d * q <= n, q >= m PROVE FALSE
  BY <1>1
<1>3. d * m <= d * q
  BY <1>2
<1> QED
  BY <1>2, <1>3

(* The indices of a page lie inside the tables. *)
LEMMA IndexTypes ==
  ASSUME NEW p \in MappedPages
  PROVE  Pdpt(p) \in Index /\ Pdt(p) \in Index /\ Pt(p) \in Index
<1> DEFINE E == EptTableEntries
<1>1. E \in Nat \ {0}
  BY EntriesAssumption
<1>2. p \in Nat /\ p < E * (E * E) /\ E * E \in Nat
  BY <1>1 DEF MappedPages
<1>3. p \div E \in Nat /\ p \div E < E * E
  BY <1>1, <1>2, DivMod, DivLess
<1>4. (p \div E) \div E \in Nat /\ (p \div E) \div E < E
  BY <1>1, <1>3, DivMod, DivLess
<1>5. (p \div E) % E \in 0 .. (E - 1) /\ p % E \in 0 .. (E - 1)
  BY <1>1, <1>2, <1>3, DivMod
<1> QED
  BY <1>1, <1>4, <1>5 DEF Pdpt, Pdt, Pt, LargeIndex, Index

(* The three indices tell pages apart. *)
LEMMA IndicesDetermine ==
  ASSUME NEW p \in MappedPages, NEW q \in MappedPages,
         Pdpt(p) = Pdpt(q), Pdt(p) = Pdt(q), Pt(p) = Pt(q)
  PROVE  p = q
<1> DEFINE E == EptTableEntries
<1>1. E \in Nat \ {0} /\ p \in Nat /\ q \in Nat
  BY EntriesAssumption DEF MappedPages
<1>2. p \div E \in Nat /\ q \div E \in Nat
  BY <1>1, DivMod
<1>3. p \div E = E * ((p \div E) \div E) + ((p \div E) % E)
  BY <1>1, <1>2, DivMod
<1>4. q \div E = E * ((q \div E) \div E) + ((q \div E) % E)
  BY <1>1, <1>2, DivMod
<1>5. p \div E = q \div E
  BY <1>3, <1>4 DEF Pdpt, Pdt, LargeIndex
<1>6. p = E * (p \div E) + (p % E) /\ q = E * (q \div E) + (q % E)
  BY <1>1, DivMod
<1> QED
  BY <1>5, <1>6 DEF Pt

LEMMA PageFromIndices ==
  ASSUME NEW p \in MappedPages
  PROVE  (Pdpt(p) * EptTableEntries + Pdt(p)) * EptTableEntries + Pt(p) = p
<1> DEFINE E == EptTableEntries
<1>1. E \in Nat \ {0} /\ p \in Nat
  BY EntriesAssumption DEF MappedPages
<1>2. p \div E \in Nat
  BY <1>1, DivMod
<1>3. p \div E = E * ((p \div E) \div E) + ((p \div E) % E)
  BY <1>1, <1>2, DivMod
<1>4. p = E * (p \div E) + (p % E)
  BY <1>1, DivMod
<1>5. /\ (p \div E) \div E \in Nat
      /\ (p \div E) % E \in 0 .. (E - 1)
      /\ p % E \in 0 .. (E - 1)
  BY <1>1, <1>2, DivMod
<1> DEFINE q == p \div E
<1> HIDE DEF q, E
<1>6. (q \div E) * E + (q % E) = q
  BY <1>1, <1>3, <1>5 DEF q
<1>7. q * E + (p % E) = p
  BY <1>1, <1>2, <1>4, <1>5 DEF q
<1> QED
  BY <1>6, <1>7 DEF Pdpt, Pdt, Pt, LargeIndex, q, E

(* setup_ept maps every page to itself, with all rights. *)
THEOREM SetupIsIdentity ==
  /\ SetupEpt \in Tables
  /\ \A p \in MappedPages : Walk(SetupEpt, p) = Identity(p)
<1>1. SetupEpt \in Tables
  <2>1. \A a, b \in Index : a * EptTableEntries + b \in Nat
    BY EntriesAssumption DEF Index
  <2>2. \A a, b \in Index :
          [large |-> TRUE, read |-> TRUE, write |-> TRUE, execute |-> TRUE,
           type |-> "WB", pfn |-> a * EptTableEntries + b] \in LargePdtes
    BY <2>1 DEF LargePdtes
  <2> QED
    BY <2>2 DEF SetupEpt, Tables
<1>2. ASSUME NEW p \in MappedPages PROVE Walk(SetupEpt, p) = Identity(p)
  <2>1. Pdpt(p) \in Index /\ Pdt(p) \in Index
    BY IndexTypes
  <2>2. SetupEpt[Pdpt(p)][Pdt(p)] =
          [large |-> TRUE, read |-> TRUE, write |-> TRUE, execute |-> TRUE,
           type |-> "WB", pfn |-> Pdpt(p) * EptTableEntries + Pdt(p)]
    BY <2>1 DEF SetupEpt
  <2>3. (Pdpt(p) * EptTableEntries + Pdt(p)) * EptTableEntries + Pt(p) = p
    BY PageFromIndices
  <2> DEFINE entry == SetupEpt[Pdpt(p)][Pdt(p)]
  <2>4. /\ entry.large = TRUE /\ entry.read = TRUE /\ entry.write = TRUE
        /\ entry.execute = TRUE
        /\ entry.pfn = Pdpt(p) * EptTableEntries + Pdt(p)
    BY <2>2
  <2> HIDE DEF entry
  <2>5. entry.pfn * EptTableEntries + Pt(p) = p
    BY <2>3, <2>4
  <2> QED
    BY <2>4, <2>5 DEF Walk, Identity, entry
<1> QED
  BY <1>1, <1>2

(* What an entry of the tables gives for the k-th small page below it. *)
WalkEntry(entry, k) ==
  LET leaf == IF entry.large THEN entry ELSE entry.pt[k]
  IN  [read |-> leaf.read, write |-> leaf.write, execute |-> leaf.execute,
       frame |-> IF entry.large THEN entry.pfn * EptTableEntries + k ELSE leaf.pfn]

LEMMA WalkIsWalkEntry ==
  ASSUME NEW table, NEW p
  PROVE  Walk(table, p) = WalkEntry(table[Pdpt(p)][Pdt(p)], Pt(p))
  BY DEF Walk, WalkEntry

(* Splitting an entry gives a table below it, and changes the translation   *)
(* of none of its pages.                                                    *)
LEMMA SplitKeeps ==
  ASSUME NEW entry \in LargePdtes \cup Pdtes
  PROVE  /\ SplitLargePdte(entry) \in Pdtes
         /\ \A k \in Index :
              WalkEntry(SplitLargePdte(entry), k) = WalkEntry(entry, k)
<1>1. CASE entry.large
  <2>1. entry \in LargePdtes
    BY <1>1 DEF Pdtes
  <2>2. SplitLargePdte(entry) =
          [large |-> FALSE,
           pt |-> [k \in Index |->
                    [read |-> TRUE, write |-> TRUE, execute |-> TRUE,
                     type |-> "UC", pfn |-> entry.pfn * EptTableEntries + k]]]
    BY <1>1 DEF SplitLargePdte
  <2>3. \A k \in Index : entry.pfn * EptTableEntries + k \in Nat
    BY <2>1, EntriesAssumption DEF LargePdtes, Index
  <2>4. SplitLargePdte(entry) \in Pdtes
    BY <2>2, <2>3 DEF Pdtes, Ptes
  <2>5. ASSUME NEW k \in Index
        PROVE  WalkEntry(SplitLargePdte(entry), k) = WalkEntry(entry, k)
    <3> DEFINE parts == SplitLargePdte(entry)
    <3>1. /\ parts.large = FALSE
          /\ parts.pt[k].read = TRUE /\ parts.pt[k].write = TRUE
          /\ parts.pt[k].execute = TRUE
          /\ parts.pt[k].pfn = entry.pfn * EptTableEntries + k
      BY <2>2
    <3>2. entry.read = TRUE /\ entry.write = TRUE /\ entry.execute = TRUE
      BY <2>1 DEF LargePdtes
    <3> HIDE DEF parts
    <3> QED
      BY <1>1, <3>1, <3>2 DEF WalkEntry, parts
  <2> QED
    BY <2>4, <2>5
<1>2. CASE ~entry.large
  BY <1>2 DEF SplitLargePdte, LargePdtes
<1> QED
  BY <1>1, <1>2

(* EptHook's loop body gives its page the frame of the patched copy, for    *)
(* execution only, and leaves the translation of every other page alone,    *)
(* whether its large page was split before or not.                          *)
THEOREM HookPageMovesOnePage ==
  ASSUME NEW table \in Tables, NEW page \in MappedPages, NEW frame \in Nat
  PROVE  /\ HookPage(table, page, frame) \in Tables
         /\ Walk(HookPage(table, page, frame), page) = Hooked(frame)
         /\ \A p \in MappedPages \ {page} :
              Walk(HookPage(table, page, frame), p) = Walk(table, p)
<1> DEFINE a == Pdpt(page)
           b == Pdt(page)
           k == Pt(page)
           split == SplitLargePdte(table[a][b])
           hooked == [split EXCEPT !.pt[k] = ExecuteOnly(@, frame)]
           result == HookPage(table, page, frame)
<1>1. a \in Index /\ b \in Index /\ k \in Index
  BY IndexTypes
<1>2. table[a][b] \in LargePdtes \cup Pdtes
  BY <1>1 DEF Tables
<1>3. split \in Pdtes
  BY <1>2, SplitKeeps
<1>4. /\ hooked \in [large : {FALSE}, pt : [Index -> Ptes]]
      /\ hooked.pt = [split.pt EXCEPT ![k] = ExecuteOnly(split.pt[k], frame)]
  <2> HIDE DEF split
  <2> DEFINE changed == [split.pt EXCEPT ![k] = ExecuteOnly(split.pt[k], frame)]
  <2>1. hooked = [split EXCEPT !.pt = changed]
    OBVIOUS
  <2>2. split \in [large : {FALSE}, pt : [Index -> Ptes]]
    BY <1>3 DEF Pdtes
  <2>3. \A pte \in Ptes : ExecuteOnly(pte, frame) \in Ptes
    BY DEF Ptes, ExecuteOnly
  <2>4. changed \in [Index -> Ptes]
    BY <1>1, <2>2, <2>3
  <2> HIDE DEF hooked, changed
  <2>5. hooked \in [large : {FALSE}, pt : [Index -> Ptes]] /\ hooked.pt = changed
    BY <2>1, <2>2, <2>4
  <2> QED
    BY <2>5 DEF changed
<1>5. result = [table EXCEPT ![a] = [table[a] EXCEPT ![b] = hooked]]
  BY <1>1 DEF HookPage, SplitAt, Tables
<1>6. hooked \in Pdtes
  BY <1>4 DEF Pdtes
<1>7. result \in Tables
  BY <1>1, <1>5, <1>6 DEF Tables
<1>8. Walk(result, page) = Hooked(frame)
  <2>1. result[a][b] = hooked
    BY <1>1, <1>5 DEF Tables
  <2>2. hooked.pt[k] = ExecuteOnly(split.pt[k], frame) /\ ~hooked.large
    BY <1>1, <1>3, <1>4 DEF Pdtes
  <2>3. split.pt[k] \in Ptes
    BY <1>1, <1>3 DEF Pdtes
  <2> HIDE DEF result, hooked, split
  <2>4. WalkEntry(hooked, k) = Hooked(frame)
    BY <2>2, <2>3 DEF WalkEntry, Hooked, ExecuteOnly, Ptes
  <2> QED
    BY <2>1, <2>4, WalkIsWalkEntry
<1>9. ASSUME NEW p \in MappedPages \ {page}
      PROVE  Walk(result, p) = Walk(table, p)
  <2>1. Pdpt(p) \in Index /\ Pdt(p) \in Index /\ Pt(p) \in Index
    BY IndexTypes
  <2>2. CASE Pdpt(p) = a /\ Pdt(p) = b
    <3>1. Pt(p) # k
      BY <2>2, IndicesDetermine
    <3>2. result[a][b] = hooked
      BY <1>1, <1>5 DEF Tables
    <3>3. hooked.pt[Pt(p)] = split.pt[Pt(p)] /\ ~hooked.large /\ ~split.large
      BY <1>1, <1>3, <1>4, <2>1, <3>1 DEF Pdtes
    <3>4. WalkEntry(split, Pt(p)) = WalkEntry(table[a][b], Pt(p))
      BY <1>2, <2>1, SplitKeeps
    <3> HIDE DEF result, hooked, split, a, b
    <3>5. WalkEntry(hooked, Pt(p)) = WalkEntry(split, Pt(p))
      BY <3>3 DEF WalkEntry
    <3> QED
      BY <2>2, <3>2, <3>4, <3>5, WalkIsWalkEntry
  <2>3. CASE ~(Pdpt(p) = a /\ Pdt(p) = b)
    <3>1. result[Pdpt(p)][Pdt(p)] = table[Pdpt(p)][Pdt(p)]
      BY <1>1, <1>5, <2>1, <2>3 DEF Tables
    <3> HIDE DEF result
    <3> QED
      BY <3>1, WalkIsWalkEntry
  <2> QED
    BY <2>2, <2>3
<1> HIDE DEF result
<1> QED
  BY <1>7, <1>8, <1>9 DEF result

-----------------------------------------------------------------------------
(* The loop over the functions. *)

(* A page is mapped to its patched copy on the processors of a set. *)
MovedOn(S, p) == \A c \in S : Walk(large_pdt[c], p) = Hooked(ExecuteFrame[p])

(* What the loop over the functions has done so far: the pages of the       *)
(* functions behind it are mapped everywhere, and so is the page of every   *)
(* hook; the page of the hook in the making, on the first processors.       *)
Progress ==
  /\ \A f \in 0 .. (i - 1) : MovedOn(Processors, FunctionPage[f])
  /\ \A f \in Functions, p \in HookedPages :
       function_hooks[f] = p => MovedOn(Processors, p)
  /\ at = "map" => MovedOn(0 .. (vcpu - 1), FunctionPage[i])

Counters ==
  /\ large_pdt \in [Processors -> Tables]
  /\ function_hooks \in [Functions -> HookedPages \cup {None}]
  /\ i \in 0 .. FunctionCount
  /\ vcpu \in 0 .. ProcessorCount
  /\ at \in {"scan", "map"} => i < FunctionCount
  /\ at = "running" => i = FunctionCount

TablesInv == Counters /\ Progress /\ OnlyHooksMoved

LEMMA FunctionFacts ==
  /\ FunctionCount \in Nat /\ ProcessorCount \in Nat
  /\ \A f \in Functions :
       /\ FunctionPage[f] \in MappedPages
       /\ FunctionPage[f] \in HookedPages
       /\ ExecuteFrame[FunctionPage[f]] \in Nat
  /\ HookedPages \subseteq MappedPages
  /\ \A p \in HookedPages : ExecuteFrame[p] \in Nat
BY CountAssumption, PageAssumption DEF HookedPages

LEMMA TablesInit == Init => TablesInv
<1> SUFFICES ASSUME Init PROVE TablesInv
  OBVIOUS
<1>1. Counters
  BY SetupIsIdentity, FunctionFacts DEF Init, Counters
<1>2. OnlyHooksMoved
  BY SetupIsIdentity DEF Init, OnlyHooksMoved
<1>3. Progress
  <2>1. 0 .. (i - 1) = {}
    BY DEF Init
  <2>2. \A f \in Functions : function_hooks[f] = None
    BY DEF Init
  <2>3. ASSUME NEW f \in Functions, NEW p \in HookedPages,
               function_hooks[f] = p
        PROVE  FALSE
    BY <2>2, <2>3, PageAssumption
  <2> QED
    BY <2>1, <2>3 DEF Init, Progress
<1> QED
  BY <1>1, <1>2, <1>3 DEF TablesInv

(* A step that leaves the tables, the hooks, the loops and the stage alone. *)
LEMMA TablesStutter ==
  ASSUME TablesInv, UNCHANGED <<large_pdt, function_hooks, i, vcpu, at>>
  PROVE  TablesInv'
BY DEF TablesInv, Counters, Progress, OnlyHooksMoved, MovedOn

(* A step that changes the stage or a counter and not the tables. *)
LEMMA TablesKept ==
  ASSUME TablesInv, UNCHANGED <<large_pdt, function_hooks>>
  PROVE  /\ OnlyHooksMoved'
         /\ \A S, p : MovedOn(S, p) <=> MovedOn(S, p)'
         /\ \A f \in Functions, p \in HookedPages :
              function_hooks'[f] = p => MovedOn(Processors, p)'
BY DEF TablesInv, Progress, OnlyHooksMoved, MovedOn

LEMMA TablesNext == TablesInv /\ [Next]_vars => TablesInv'
<1> SUFFICES ASSUME TablesInv, [Next]_vars PROVE TablesInv'
  OBVIOUS
<1> USE FunctionFacts
<1>1. CASE AddToHookedPage
  <2>1. Counters'
    BY <1>1 DEF AddToHookedPage, TablesInv, Counters
  <2>2. Progress'
    BY <1>1, TablesKept DEF AddToHookedPage, TablesInv, Progress
  <2> QED
    BY <1>1, <2>1, <2>2, TablesKept DEF AddToHookedPage, TablesInv
<1>2. CASE NewEptHook
  <2>1. Counters'
    BY <1>2 DEF NewEptHook, TablesInv, Counters
  <2>2. Progress'
    BY <1>2, TablesKept DEF NewEptHook, TablesInv, Progress
  <2> QED
    BY <1>2, <2>1, <2>2, TablesKept DEF NewEptHook, TablesInv
<1>3. CASE Scan
  BY <1>3, TablesStutter DEF Scan
<1>4. CASE InstallPatch
  <2>1. UNCHANGED <<large_pdt, function_hooks>> /\ i \in Functions
    BY <1>4 DEF InstallPatch, TablesInv, Counters, Functions
  <2>2. CASE PageHooked(i)
    <3>1. at' = "next" /\ i' = i + 1 /\ vcpu' = vcpu
      BY <1>4, <2>2 DEF InstallPatch
    <3>2. MovedOn(Processors, FunctionPage[i])
      BY <2>1, <2>2 DEF PageHooked, TablesInv, Progress, Counters, Functions
    <3>3. Counters'
      BY <2>1, <3>1 DEF TablesInv, Counters, Functions
    <3>4. \A f \in 0 .. (i' - 1) : MovedOn(Processors, FunctionPage[f])
      <4>1. \A f \in 0 .. (i' - 1) : f \in 0 .. (i - 1) \/ f = i
        BY <3>1 DEF TablesInv, Counters
      <4> QED
        BY <3>2, <4>1 DEF TablesInv, Progress
    <3>5. Progress'
      BY <2>1, <3>1, <3>4, TablesKept DEF Progress
    <3> QED
      BY <2>1, <3>3, <3>5, TablesKept DEF TablesInv
  <2>3. CASE ~PageHooked(i)
    <3>1. at' = "map" /\ vcpu' = 0 /\ i' = i
      BY <1>4, <2>3 DEF InstallPatch
    <3>2. Counters'
      BY <2>1, <3>1 DEF TablesInv, Counters, Functions
    <3>3. MovedOn(0 .. (vcpu - 1), FunctionPage[i])'
      BY <3>1 DEF MovedOn
    <3>4. Progress'
      BY <2>1, <3>1, <3>3, TablesKept DEF Progress, TablesInv
    <3> QED
      BY <2>1, <3>2, <3>4, TablesKept DEF TablesInv
  <2> QED
    BY <2>2, <2>3
<1>5. CASE MapOnProcessor
  <2> DEFINE page == FunctionPage[i]
             frame == ExecuteFrame[page]
  <2>1. /\ i \in Functions /\ vcpu \in Processors
        /\ page \in MappedPages /\ page \in HookedPages /\ frame \in Nat
        /\ large_pdt[vcpu] \in Tables
    <3>1. i \in Nat /\ i < FunctionCount /\ vcpu \in Nat /\ vcpu < ProcessorCount
      BY <1>5 DEF MapOnProcessor, TablesInv, Counters
    <3>2. i \in Functions /\ vcpu \in Processors
      BY <3>1 DEF Functions, Processors
    <3> QED
      BY <3>2 DEF TablesInv, Counters
  <2>2. /\ large_pdt' =
             [large_pdt EXCEPT ![vcpu] = HookPage(large_pdt[vcpu], page, frame)]
        /\ vcpu' = vcpu + 1
        /\ UNCHANGED <<function_hooks, i, at>> /\ at = "map"
    BY <1>5 DEF MapOnProcessor
  <2>3. /\ HookPage(large_pdt[vcpu], page, frame) \in Tables
        /\ Walk(HookPage(large_pdt[vcpu], page, frame), page) = Hooked(frame)
        /\ \A p \in MappedPages \ {page} :
             Walk(HookPage(large_pdt[vcpu], page, frame), p)
               = Walk(large_pdt[vcpu], p)
    BY <2>1, HookPageMovesOnePage
  <2>4. \A c \in Processors, p \in MappedPages :
          \/ Walk(large_pdt'[c], p) = Walk(large_pdt[c], p)
          \/ p = page /\ Walk(large_pdt'[c], p) = Hooked(ExecuteFrame[p])
    BY <2>1, <2>2, <2>3 DEF TablesInv, Counters
  <2>5. Walk(large_pdt'[vcpu], page) = Hooked(frame)
    BY <2>1, <2>2, <2>3 DEF TablesInv, Counters
  <2>6. Counters'
    BY <2>1, <2>2, <2>3 DEF TablesInv, Counters, Processors
  <2> HIDE DEF page, frame
  <2>7. OnlyHooksMoved'
    BY <2>1, <2>4 DEF TablesInv, OnlyHooksMoved
  <2>8. \A p \in HookedPages, S \in SUBSET Processors :
          MovedOn(S, p) => MovedOn(S, p)'
    BY <2>4 DEF MovedOn
  <2>9. \A c \in 0 .. (vcpu' - 1) : Walk(large_pdt'[c], page) = Hooked(frame)
    <3>1. \A c \in 0 .. (vcpu' - 1) : c \in 0 .. (vcpu - 1) \/ c = vcpu
      BY <2>1, <2>2 DEF Processors
    <3>2. 0 .. (vcpu - 1) \subseteq Processors
      BY <2>1 DEF Processors
    <3>3. \A c \in 0 .. (vcpu - 1) : Walk(large_pdt[c], page) = Hooked(frame)
      BY <2>2 DEF TablesInv, Progress, MovedOn, page, frame
    <3> QED
      BY <2>1, <2>4, <2>5, <3>1, <3>2, <3>3 DEF frame
  <2>10. Progress'
    <3>1. \A f \in 0 .. (i' - 1) : MovedOn(Processors, FunctionPage[f])'
      BY <2>1, <2>2, <2>8 DEF TablesInv, Progress, Functions
    <3>2. \A f \in Functions, p \in HookedPages :
            function_hooks'[f] = p => MovedOn(Processors, p)'
      BY <2>2, <2>8 DEF TablesInv, Progress
    <3>3. MovedOn(0 .. (vcpu - 1), FunctionPage[i])'
      BY <2>2, <2>9 DEF MovedOn, page, frame
    <3> QED
      BY <2>2, <3>1, <3>2, <3>3 DEF Progress
  <2> QED
    BY <2>6, <2>7, <2>10 DEF TablesInv
<1>6. CASE HookMade
  <2>1. /\ i \in Functions /\ at = "map" /\ vcpu = ProcessorCount
        /\ at' = "next" /\ i' = i + 1 /\ vcpu' = vcpu
        /\ large_pdt' = large_pdt
        /\ function_hooks' = [function_hooks EXCEPT ![i] = FunctionPage[i]]
    <3>1. i \in Nat /\ i < FunctionCount
      BY <1>6 DEF HookMade, TablesInv, Counters
    <3>2. i \in Functions
      BY <3>1 DEF Functions
    <3> QED
      BY <1>6, <3>2 DEF HookMade
  <2>2. MovedOn(Processors, FunctionPage[i])
    BY <2>1 DEF TablesInv, Progress, Processors
  <2>3. Counters'
    BY <2>1 DEF TablesInv, Counters, Functions
  <2>4. \A f \in 0 .. (i' - 1) : MovedOn(Processors, FunctionPage[f])
    <3>1. \A f \in 0 .. (i' - 1) : f \in 0 .. (i - 1) \/ f = i
      BY <2>1 DEF TablesInv, Counters
    <3> QED
      BY <2>2, <3>1 DEF TablesInv, Progress
  <2>5. \A f \in Functions, p \in HookedPages :
          function_hooks'[f] = p => MovedOn(Processors, p)
    BY <2>1, <2>2 DEF TablesInv, Progress, Counters
  <2>6. Progress'
    BY <2>1, <2>4, <2>5 DEF Progress, MovedOn
  <2> QED
    BY <2>1, <2>3, <2>6 DEF TablesInv, OnlyHooksMoved
<1>7. CASE Installed
  <2>1. Counters'
    BY <1>7 DEF Installed, install, TablesInv, Counters
  <2>2. Progress'
    BY <1>7, TablesKept DEF Installed, install, TablesInv, Progress
  <2> QED
    BY <1>7, <2>1, <2>2, TablesKept DEF Installed, install, TablesInv
<1>8. CASE Run
  BY <1>8, TablesStutter DEF Run, Execute, CallStub, CallbackReturns, install
<1>9. CASE \E f \in Functions, o \in Offsets, c \in Processors : Begin(f, o, c)
  BY <1>9, TablesStutter DEF Begin, install
<1>10. CASE UNCHANGED vars
  BY <1>10, TablesStutter DEF vars, install
<1> QED
  BY <1>1, <1>2, <1>3, <1>4, <1>5, <1>6, <1>7, <1>8, <1>9, <1>10
     DEF Next, Install

LEMMA TablesInvariant == Spec => []TablesInv
BY TablesInit, TablesNext, PTL DEF Spec

(* No translation changes but those of the hooked pages, whatever the size  *)
(* of the tables, on every processor and at every stage of the loops of     *)
(* HookingEngine and EptHook: a large page that is split goes on mapping    *)
(* the pages it mapped, and a hook in it stays when the next one comes.     *)
THEOREM InstallMovesOnlyHooks == Spec => []OnlyHooksMoved
<1>1. TablesInv => OnlyHooksMoved
  BY DEF TablesInv
<1> QED
  BY <1>1, TablesInvariant, PTL

(* When the loops are over, every function's page is mapped to its patched  *)
(* copy on every processor, whether the function has a hook of its own or   *)
(* was added to the hook of an earlier function.                            *)
AllHooked ==
  at = "running" =>
    \A c \in Processors, p \in HookedPages :
      Walk(large_pdt[c], p) = Hooked(ExecuteFrame[p])

LEMMA HooksAll == TablesInv => AllHooked
<1> SUFFICES ASSUME TablesInv, at = "running", NEW p \in HookedPages
             PROVE  MovedOn(Processors, p)
  BY DEF AllHooked, MovedOn
<1>1. PICK f \in Functions : p = FunctionPage[f]
  BY DEF HookedPages
<1>2. f \in 0 .. (i - 1)
  BY FunctionFacts, <1>1 DEF TablesInv, Counters, Functions
<1> QED
  BY <1>1, <1>2 DEF TablesInv, Progress

-----------------------------------------------------------------------------
(* Code. *)

LEMMA SetInduction ==
  ASSUME NEW S, 0 \in S, \A k \in Nat : k \in S => k + 1 \in S
  PROVE  Nat \subseteq S
<1> DEFINE Before == {ss \in Nat \X Nat : ss[1] < ss[2]}
<1> SUFFICES ASSUME Nat \ S # {} PROVE FALSE
  OBVIOUS
<1>1. IsWellFoundedOn(Before, Nat)
  BY NatLessThanWellFounded DEF OpToRel
<1>2. PICK m \in Nat \ S : \A k \in Nat \ S : ~(<<k, m>> \in Before)
  BY <1>1, WFMin
<1>3. m # 0
  BY <1>2
<1>4. m - 1 \in Nat /\ m - 1 < m /\ (m - 1) + 1 = m
  BY <1>2, <1>3
<1>5. <<m - 1, m>> \in Before
  BY <1>2, <1>4
<1>6. m - 1 \in S
  BY <1>2, <1>4, <1>5
<1> QED
  BY <1>2, <1>4, <1>6

(* What the pages hold of a function, and where its instructions begin.     *)
Original(f) == layout.code[FunctionPage[f]]
Starts(f) == Boundaries(Original(f), layout.entry[f])
Patch(f) == layout.entry[f] .. (layout.entry[f] + PatchLength - 1)

LEMMA PageFacts ==
  ASSUME layout \in Layouts, NEW p \in HookedPages
  PROVE  /\ DOMAIN layout.code[p] = Offsets
         /\ \A o \in Offsets :
              /\ layout.code[p][o].insn.op \in {"plain", "relative", "ret"}
              /\ layout.code[p][o].insn.len \in Nat \ {0}
BY LayoutAssumption DEF Code

LEMMA FunctionCode ==
  ASSUME layout \in Layouts, NEW f \in Functions
  PROVE  /\ layout.entry[f] \in Starts(f)
         /\ layout.entry[f] \in Nat
         /\ Starts(f) \subseteq Offsets
         /\ \A o \in Starts(f) :
              /\ o \in Nat /\ o >= layout.entry[f]
              /\ Original(f)[o].at = 0
              /\ Original(f)[o].insn.op \in {"plain", "relative", "ret"}
              /\ Original(f)[o].insn.len \in Nat \ {0}
              /\ Original(f)[o].insn.op # "ret" =>
                   o + Original(f)[o].insn.len \in Starts(f)
              /\ o < layout.entry[f] + PatchLength => Original(f)[o].insn.op = "plain"
<1>1. Hookable(Original(f), layout.entry[f]) /\ Code(Original(f))
  BY LayoutAssumption, FunctionFacts DEF Original
<1>2. Offsets \subseteq Nat
  BY CountAssumption DEF Offsets
<1>3. Starts(f) \subseteq Offsets
  BY DEF Starts, Boundaries
<1>4. layout.entry[f] \in Starts(f) /\ layout.entry[f] \in Nat
  BY <1>1, <1>2, <1>3 DEF Hookable, Starts
<1>5. ASSUME NEW o \in Starts(f)
      PROVE  o >= layout.entry[f] /\ Original(f)[o].at = 0
  BY DEF Starts, Boundaries
<1> QED
  BY <1>1, <1>2, <1>3, <1>4, <1>5 DEF Hookable, Code, Starts

(* No instruction begins inside another. *)
LEMMA NextStart ==
  ASSUME layout \in Layouts, NEW f \in Functions,
         NEW o \in Starts(f), NEW q \in Starts(f), o < q
  PROVE  o + Original(f)[o].insn.len <= q
<1> DEFINE len == Original(f)[o].insn.len
<1>1. o \in Nat /\ q \in Nat /\ len \in Nat \ {0} /\ Original(f)[q].at = 0
  BY FunctionCode
<1> SUFFICES ASSUME q < o + len PROVE FALSE
  BY <1>1
<1>2. Whole(Original(f), o)
  BY LayoutAssumption, FunctionFacts DEF Original, Hookable, Starts
<1>3. q - o \in 0 .. (len - 1) /\ o + (q - o) = q /\ q - o # 0
  BY <1>1
<1>4. Original(f)[o + (q - o)] = Byte(Original(f)[o].insn, q - o)
  BY <1>2, <1>3 DEF Whole
<1>5. Original(f)[q] = Byte(Original(f)[o].insn, q - o)
  BY <1>3, <1>4
<1> QED
  BY <1>1, <1>3, <1>5 DEF Byte

(* A patch of one function is no part of another. *)
LEMMA PatchesApart ==
  ASSUME layout \in Layouts, NEW f \in Functions, NEW g \in Functions, f # g,
         FunctionPage[f] = FunctionPage[g]
  PROVE  /\ layout.entry[f] # layout.entry[g]
         /\ \A o \in Starts(f) : o \notin Patch(g)
         /\ \A o \in Patch(f) : o \notin Patch(g)
<1>1. /\ layout.entry[f] \in Nat /\ layout.entry[g] \in Nat
      /\ \A o \in Starts(f) : o \in Nat /\ o >= layout.entry[f]
  BY FunctionCode
<1>2. /\ layout.entry[f] # layout.entry[g]
      /\ layout.entry[f] < layout.entry[g] =>
           /\ layout.entry[f] + PatchLength <= layout.entry[g]
           /\ \A o \in Starts(f) : o < layout.entry[g]
      /\ layout.entry[g] < layout.entry[f] =>
           layout.entry[g] + PatchLength <= layout.entry[f]
  BY LayoutAssumption DEF Starts, Original
<1>3. CASE layout.entry[f] < layout.entry[g]
  BY <1>1, <1>2, <1>3 DEF Patch, PatchLength
<1>4. CASE layout.entry[g] < layout.entry[f]
  BY <1>1, <1>2, <1>4 DEF Patch, PatchLength
<1> QED
  BY <1>1, <1>2, <1>3, <1>4

LEMMA EntriesDiffer ==
  ASSUME layout \in Layouts, NEW f \in Functions, NEW g \in Functions, Entry(f) = Entry(g)
  PROVE  f = g
<1>1. FunctionPage[f] = FunctionPage[g] /\ layout.entry[f] = layout.entry[g]
  BY DEF Entry, Addr
<1> QED
  BY <1>1, PatchesApart

-----------------------------------------------------------------------------
(* What a thread would do without the hooks. *)

(* What the instruction at a place finds. *)
Fact(p, o) ==
  LET insn == layout.code[p][o].insn
      next == o + insn.len
  IN  IF insn.op = "plain" THEN <<insn.arg, "argument">>
                           ELSE <<insn.arg, "argument", Addr("page", p, next)>>
Facts == {Fact(p, o) : p \in HookedPages, o \in Offsets}
           \cup {<<"callback", f, "argument">> : f \in Functions}

Last(p, o) == LET insn == layout.code[p][o].insn
              IN  insn.op = "ret" \/ o + insn.len \notin Offsets
NextOf(p, o) == o + layout.code[p][o].insn.len
Found(p, o, rest) == IF Last(p, o) THEN <<>> ELSE <<Fact(p, o)>> \o rest
Follows(g, p) == g = [o \in Offsets |-> Found(p, o, g[NextOf(p, o)])]

LEMMA NativeExists ==
  ASSUME layout \in Layouts, NEW p \in HookedPages
  PROVE  \E g : Follows(g, p)
<1> DEFINE From(j) == {o \in Offsets : o >= PageSize - j}
           Right(g, j) == \A o \in From(j) : g[o] = Found(p, o, g[NextOf(p, o)])
           Done(j) == \E g : Right(g, j)
           Reached == {j \in Nat : Done(j)}
<1>a. PageSize \in Nat /\ \A o \in Offsets : o \in Nat /\ o < PageSize
  BY CountAssumption DEF Offsets
<1>b. \A o \in Offsets : NextOf(p, o) \in Nat /\ NextOf(p, o) > o
  BY <1>a, PageFacts DEF NextOf
<1>c. \A o \in Offsets : \A r, s : NextOf(p, o) \notin Offsets => Found(p, o, r) = Found(p, o, s)
  BY DEF Found, Last, NextOf
<1>1. 0 \in Reached
  <2>1. From(0) = {}
    BY <1>a
  <2> QED
    BY <2>1
<1>2. ASSUME NEW j \in Nat, j \in Reached
      PROVE  j + 1 \in Reached
  <2>1. PICK g : Right(g, j)
    BY <1>2
  <2> DEFINE new == PageSize - (j + 1)
             h == [o \in Offsets |-> IF o = new THEN Found(p, o, g[NextOf(p, o)]) ELSE g[o]]
  <2>2. ASSUME NEW o \in From(j + 1)
        PROVE  h[o] = Found(p, o, h[NextOf(p, o)])
    <3>1. NextOf(p, o) # new
      BY <1>a, <1>b
    <3>2. h[o] = Found(p, o, g[NextOf(p, o)])
      <4>1. CASE o = new
        BY <4>1
      <4>2. CASE o # new
        <5>1. o \in From(j)
          BY <4>2, <1>a
        <5> QED
          BY <2>1, <4>2, <5>1
      <4> QED
        BY <4>1, <4>2
    <3>3. NextOf(p, o) \in Offsets => h[NextOf(p, o)] = g[NextOf(p, o)]
      BY <3>1
    <3> QED
      BY <3>2, <3>3, <1>c
  <2>3. Right(h, j + 1)
    BY <2>2
  <2> HIDE DEF h, Right
  <2>4. Done(j + 1)
    BY <2>3
  <2> QED
    BY <2>4
<1> HIDE DEF Reached
<1>3. PageSize \in Reached
  BY <1>1, <1>2, <1>a, SetInduction
<1>4. PICK g : Right(g, PageSize)
  BY <1>3 DEF Reached
<1> DEFINE h == [o \in Offsets |-> g[o]]
<1>5. ASSUME NEW o \in Offsets
      PROVE  h[o] = Found(p, o, h[NextOf(p, o)])
  <2>1. o \in From(PageSize)
    BY <1>a
  <2>2. h[o] = Found(p, o, g[NextOf(p, o)])
    BY <2>1, <1>4
  <2> QED
    BY <2>2, <1>c
<1>6. DOMAIN h = Offsets /\ h = [o \in DOMAIN h |-> h[o]]
  OBVIOUS
<1> HIDE DEF h
<1> QED
  BY <1>5, <1>6 DEF Follows

LEMMA NativeFollows ==
  ASSUME layout \in Layouts, NEW p \in HookedPages
  PROVE  \E from : Follows(from, p) /\ \A o : Native(p, o) = from[o]
<1> DEFINE from == CHOOSE g : Follows(g, p)
<1>1. Follows(from, p)
  BY NativeExists
<1>2. \A o : Native(p, o) = from[o]
  BY DEF Native, Follows, Found, Last, NextOf, Fact
<1> HIDE DEF from
<1> QED
  BY <1>1, <1>2
LEMMA SomeFacts ==
  ASSUME NEW p \in HookedPages, NEW o \in Offsets
  PROVE  Fact(p, o) \in Facts
BY DEF Facts

LEMMA NativeTyped ==
  ASSUME layout \in Layouts, NEW p \in HookedPages, NEW o \in Offsets
  PROVE  Native(p, o) \in Seq(Facts)
<1>1. PICK from : Follows(from, p) /\ \A q : Native(p, q) = from[q]
  BY NativeFollows
<1>2. \A q \in Offsets : from[q] = Found(p, q, from[NextOf(p, q)])
  BY <1>1 DEF Follows
<1> DEFINE Typed == {j \in Nat : \A q \in Offsets : q >= PageSize - j =>
                                   from[q] \in Seq(Facts)}
<1>a. PageSize \in Nat /\ \A q \in Offsets : q \in Nat /\ q < PageSize
  BY CountAssumption DEF Offsets
<1>b. \A q \in Offsets : NextOf(p, q) \in Nat /\ NextOf(p, q) > q
  BY <1>a, PageFacts DEF NextOf
<1>3. 0 \in Typed
  BY <1>a
<1>4. ASSUME NEW j \in Nat, j \in Typed
      PROVE  j + 1 \in Typed
  <2> SUFFICES ASSUME NEW q \in Offsets, q >= PageSize - (j + 1)
               PROVE  from[q] \in Seq(Facts)
    BY <1>4
  <2>1. CASE Last(p, q)
    <3>1. from[q] = <<>>
      BY <2>1, <1>2 DEF Found
    <3> QED
      BY <3>1
  <2>2. CASE ~Last(p, q)
    <3>1. NextOf(p, q) \in Offsets
      BY <2>2 DEF Last, NextOf
    <3>2. NextOf(p, q) >= PageSize - j
      BY <1>a, <1>b
    <3>3. from[NextOf(p, q)] \in Seq(Facts)
      BY <3>1, <3>2, <1>4
    <3>4. from[q] = <<Fact(p, q)>> \o from[NextOf(p, q)]
      BY <2>2, <1>2 DEF Found
    <3>5. <<Fact(p, q)>> \in Seq(Facts)
      BY SomeFacts
    <3> QED
      BY <3>3, <3>4, <3>5
  <2> QED
    BY <2>1, <2>2
<1> HIDE DEF Typed
<1>5. PageSize \in Typed
  BY <1>3, <1>4, <1>a, SetInduction
<1>6. from[o] \in Seq(Facts)
  BY <1>5, <1>a DEF Typed
<1> QED
  BY <1>1, <1>6

(* What is left of a function, where one of its instructions begins.        *)
LEMMA NativeUnfolds ==
  ASSUME layout \in Layouts, NEW f \in Functions, NEW o \in Starts(f)
  PROVE  LET p == FunctionPage[f]
         IN  /\ Native(p, o) \in Seq(Facts)
             /\ Native(p, o) = IF Original(f)[o].insn.op = "ret" THEN <<>>
                               ELSE <<Fact(p, o)>> \o Native(p, NextOf(p, o))
<1> DEFINE p == FunctionPage[f]
<1>1. p \in HookedPages /\ o \in Offsets
  BY FunctionFacts, FunctionCode
<1>2. PICK from : Follows(from, p) /\ \A q : Native(p, q) = from[q]
  BY <1>1, NativeFollows
<1>3. Native(p, o) = Found(p, o, Native(p, NextOf(p, o)))
  BY <1>1, <1>2 DEF Follows
<1>4. Last(p, o) <=> Original(f)[o].insn.op = "ret"
  BY FunctionCode DEF Last, Original
<1> QED
  BY <1>1, <1>3, <1>4, NativeTyped DEF Found

(* The instruction is done: what it found is seen, and the rest is left.    *)
LEMMA SeenAndLeft ==
  ASSUME NEW trace \in Seq(Facts), NEW x \in Facts, NEW rest \in Seq(Facts)
  PROVE  Append(trace, x) \o rest = trace \o (<<x>> \o rest)
<1>1. Append(trace, x) = trace \o <<x>>
  BY AppendIsConcat
<1>2. <<x>> \in Seq(Facts)
  OBVIOUS
<1> QED
  BY <1>1, <1>2, ConcatAssociative
-----------------------------------------------------------------------------
(* What the loop over the functions has made of their code. *)

(* The functions whose patch is written, and the pages that are copied.     *)
Done(f) == f < i \/ (f = i /\ at = "map")
Copied(f) ==
  \E g \in Functions :
    FunctionPage[g] = FunctionPage[f] /\ (g < i \/ (g = i /\ at \in {"scan", "map"}))

PageOfF(f) == execute_page[FunctionPage[f]]
Unpatched(f) == \A o \in Starts(f) : PageOfF(f)[o] = Original(f)[o]
PatchedIn(f) ==
  /\ \A o \in Starts(f) :
       o >= layout.entry[f] + PatchLength => PageOfF(f)[o] = Original(f)[o]
  /\ \A k \in 0 .. (PatchLength - 1) :
       PageOfF(f)[layout.entry[f] + k] = HookPatch(Addr("callback", f, 0))[k]

(* The first n bytes are whole instructions, and all of them begin in the   *)
(* patch.                                                                   *)
Cut(f, n) ==
  /\ n \in Nat
  /\ layout.entry[f] + n \in Starts(f)
  /\ \A o \in Starts(f) :
       o < layout.entry[f] + n => o < layout.entry[f] + PatchLength

(* A stub of n bytes of the function and a patch that leads behind them.    *)
StubMade(f, n) ==
  /\ Cut(f, n) /\ n >= PatchLength
  /\ \A o \in Starts(f) :
       o < layout.entry[f] + n =>
         stubs[f][o - layout.entry[f]] = Original(f)[o]
  /\ \A k \in 0 .. (PatchLength - 1) :
       stubs[f][n + k] = HookPatch(Behind(Entry(f), n))[k]

Registered ==
  registry = [f \in Functions |->
                [first |-> Entry(f),
                 second |-> IF Done(f) THEN Addr("stub", f, 0) ELSE None]]

(* A function behind the loop has a hook or was added to an earlier one.    *)
HooksMade ==
  /\ \A f \in Functions : function_hooks[f] \in {None, FunctionPage[f]}
  /\ \A f \in Functions :
       f < i => \E g \in 0 .. f : function_hooks[g] = FunctionPage[f]

CodeInv ==
  /\ layout \in Layouts
  /\ DOMAIN execute_page = HookedPages
  /\ DOMAIN stubs = Functions
  /\ overwritten \in Nat
  /\ at = "scan" => Cut(i, overwritten) /\ Copied(i)
  /\ HooksMade
  /\ Registered
  /\ \A f \in Functions :
       IF Done(f) THEN PatchedIn(f) /\ \E n \in Nat : StubMade(f, n)
       ELSE Copied(f) => Unpatched(f)

LEMMA CodeKept ==
  ASSUME UNCHANGED <<layout, execute_page, stubs>>
  PROVE  \A f, n :
           /\ StubMade(f, n)' <=> StubMade(f, n)
           /\ PatchedIn(f)' <=> PatchedIn(f)
           /\ Unpatched(f)' <=> Unpatched(f)
           /\ Cut(f, n)' <=> Cut(f, n)
BY DEF StubMade, PatchedIn, Unpatched, Cut, PageOfF, Original, Starts, Entry

LEMMA LoopFacts ==
  ASSUME Counters
  PROVE  /\ i \in Nat /\ FunctionCount \in Nat
         /\ \A f \in Functions : f \in Nat
         /\ \A f \in Functions : \A g \in 0 .. f : g \in Functions
         /\ \A g \in 0 .. (i - 1) : g \in Functions /\ g < i
         /\ i < FunctionCount => i \in Functions
BY FunctionFacts DEF Counters, Functions

LEMMA CutNothing ==
  ASSUME layout \in Layouts, NEW f \in Functions
  PROVE  Cut(f, 0)
BY FunctionCode DEF Cut

(* The loops go on; no code is touched.                                     *)
LEMMA CodeGoesOn ==
  ASSUME CodeInv, Counters,
         UNCHANGED <<layout, execute_page, stubs, registry>>,
         HooksMade',
         overwritten' \in Nat,
         at' = "scan" => (Cut(i, overwritten) /\ Copied(i))',
         \A f \in Functions : Done(f)' <=> Done(f),
         \A f \in Functions : Copied(f)' => Copied(f)
  PROVE  CodeInv'
<1>1. \A f \in Functions : IF Done(f)' THEN PatchedIn(f)' /\ \E n \in Nat : StubMade(f, n)'
                           ELSE Copied(f)' => Unpatched(f)'
  BY CodeKept DEF CodeInv
<1>2. Registered'
  BY DEF CodeInv, Registered, Entry
<1> QED
  BY <1>1, <1>2 DEF CodeInv

LEMMA CodeStutter ==
  ASSUME CodeInv, UNCHANGED <<layout, execute_page, function_hooks, stubs, registry,
                              i, overwritten, at>>
  PROVE  CodeInv'
<1>1. \A f : (Done(f)' <=> Done(f)) /\ (Copied(f)' <=> Copied(f))
  BY DEF Done, Copied
<1>2. HooksMade' /\ Registered'
  BY <1>1 DEF CodeInv, HooksMade, Registered, Entry
<1> QED
  BY <1>1, <1>2, CodeKept DEF CodeInv

LEMMA CodeAddToHookedPage == CodeInv /\ Counters /\ AddToHookedPage => CodeInv'
<1> SUFFICES ASSUME CodeInv, Counters, AddToHookedPage PROVE CodeInv'
  OBVIOUS
<1>1. /\ at = "next" /\ at' = "scan" /\ overwritten' = 0 /\ i' = i /\ i \in Functions
      /\ UNCHANGED <<layout, execute_page, stubs, registry, function_hooks>>
  BY CountAssumption DEF AddToHookedPage, Counters, Functions
<1>2. PICK g \in 0 .. (i - 1) : function_hooks[g] = FunctionPage[i]
  BY DEF AddToHookedPage, PageHooked
<1>3. g \in Functions /\ g < i /\ FunctionPage[g] = FunctionPage[i]
  <2>1. g \in Functions /\ g < i
    BY LoopFacts
  <2>2. FunctionPage[i] # None
    BY <1>1, FunctionFacts, PageAssumption
  <2> QED
    BY <1>2, <2>1, <2>2 DEF CodeInv, HooksMade
<1>4. \A f \in Functions : (Done(f)' <=> Done(f)) /\ (Copied(f)' => Copied(f))
  BY <1>1, <1>3 DEF Done, Copied
<1>5. HooksMade'
  BY <1>1 DEF CodeInv, HooksMade
<1>6. (Cut(i, overwritten) /\ Copied(i))'
  BY <1>1, CutNothing DEF CodeInv, Cut, Original, Starts, Copied
<1> QED
  BY <1>1, <1>4, <1>5, <1>6, CodeGoesOn

LEMMA CodeNewEptHook == CodeInv /\ Counters /\ NewEptHook => CodeInv'
<1> SUFFICES ASSUME CodeInv, Counters, NewEptHook PROVE CodeInv'
  OBVIOUS
<1> DEFINE p == FunctionPage[i]
<1>1. /\ at = "next" /\ at' = "scan" /\ overwritten' = 0 /\ i' = i /\ i \in Functions
      /\ UNCHANGED <<layout, stubs, registry, function_hooks>>
      /\ DOMAIN execute_page = HookedPages /\ p \in HookedPages
      /\ execute_page' = [execute_page EXCEPT ![p] = layout.code[p]]
      /\ layout \in Layouts
  BY CountAssumption, FunctionFacts DEF NewEptHook, Counters, Functions, CodeInv
<1>2. \A f \in Functions : Done(f)' <=> f < i
  BY <1>1 DEF Done
<1>a. \A f \in Functions : Done(f) <=> f < i
  BY <1>1 DEF Done
<1>3. \A f \in Functions : FunctionPage[f] = p => ~(f < i)
  <2> SUFFICES ASSUME NEW f \in Functions, FunctionPage[f] = p, f < i PROVE FALSE
    OBVIOUS
  <2>1. PICK g \in 0 .. f : function_hooks[g] = p
    BY DEF CodeInv, HooksMade
  <2>2. g \in 0 .. (i - 1)
    BY <1>1 DEF Functions
  <2> QED
    BY <2>1, <2>2 DEF NewEptHook, PageHooked
<1>4. \A f \in Functions : \A n : StubMade(f, n)' <=> StubMade(f, n)
  BY <1>1 DEF StubMade, Cut, Original, Starts, Entry
<1>5. ASSUME NEW f \in Functions, FunctionPage[f] # p
      PROVE  /\ PatchedIn(f)' <=> PatchedIn(f)
             /\ Unpatched(f)' <=> Unpatched(f)
             /\ Copied(f)' <=> Copied(f)
  <2>1. PageOfF(f)' = PageOfF(f)
    BY <1>1, <1>5 DEF PageOfF
  <2>2. Copied(f)' <=> Copied(f)
    BY <1>1, <1>5 DEF Copied
  <2> QED
    BY <1>1, <2>1, <2>2 DEF PatchedIn, Unpatched, Original, Starts
<1>6. ASSUME NEW f \in Functions, FunctionPage[f] = p
      PROVE  ~Done(f)' /\ Unpatched(f)'
  <2>1. PageOfF(f)' = layout.code[p]
    BY <1>1, <1>6 DEF PageOfF
  <2> QED
    BY <1>1, <1>2, <1>3, <1>6, <2>1 DEF Unpatched, Original, Starts
<1>7. ASSUME NEW f \in Functions
      PROVE  IF Done(f)' THEN PatchedIn(f)' /\ \E n \in Nat : StubMade(f, n)'
                         ELSE Copied(f)' => Unpatched(f)'
  <2>1. CASE FunctionPage[f] = p
    BY <2>1, <1>6
  <2>2. CASE FunctionPage[f] # p
    BY <2>2, <1>2, <1>a, <1>4, <1>5 DEF CodeInv
  <2> QED
    BY <2>1, <2>2
<1>8. HooksMade' /\ Registered'
  BY <1>1, <1>2, <1>a DEF CodeInv, HooksMade, Registered, Entry
<1>9. Cut(i, overwritten)' /\ Copied(i)'
  BY <1>1, CutNothing DEF Cut, Original, Starts, Copied
<1>10. DOMAIN execute_page' = HookedPages
  BY <1>1
<1> QED
  BY <1>1, <1>7, <1>8, <1>9, <1>10 DEF CodeInv

LEMMA CodeScan == CodeInv /\ Counters /\ Scan => CodeInv'
<1> SUFFICES ASSUME CodeInv, Counters, Scan PROVE CodeInv'
  OBVIOUS
<1> DEFINE e == layout.entry[i]
           o == e + overwritten
           len == Original(i)[o].insn.len
<1>1. /\ at = "scan" /\ at' = at /\ i' = i /\ i \in Functions
      /\ overwritten < PatchLength /\ overwritten \in Nat
      /\ UNCHANGED <<layout, execute_page, stubs, registry, function_hooks>>
      /\ layout \in Layouts /\ o \in Starts(i) /\ Cut(i, overwritten)
  BY LoopFacts DEF Scan, Counters, CodeInv, Cut
<1>2. ~Done(i) /\ Copied(i)
  BY <1>1 DEF Done, Counters, CodeInv, Functions
<1>3. Page[o] = Original(i)[o]
  BY <1>1, <1>2 DEF CodeInv, Unpatched, PageOfF, Page
<1>4. overwritten' = overwritten + len
  BY <1>3 DEF Scan
<1>5. /\ e \in Nat /\ len \in Nat \ {0} /\ o < e + PatchLength
      /\ o + len \in Starts(i)
  <2>1. e \in Nat /\ len \in Nat \ {0}
    BY <1>1, FunctionCode
  <2>2. o < e + PatchLength
    BY <2>1, <1>1 DEF PatchLength
  <2>3. Original(i)[o].insn.op # "ret"
    BY <1>1, <2>2, FunctionCode
  <2> QED
    BY <1>1, <2>1, <2>2, <2>3, FunctionCode
<1>6. e + (overwritten + len) = o + len
  BY <1>1, <1>5
<1>7. \A q \in Starts(i) : q < o + len => q < e + PatchLength
  <2> SUFFICES ASSUME NEW q \in Starts(i), q < o + len PROVE q < e + PatchLength
    OBVIOUS
  <2>1. q \in Nat /\ o \in Nat
    BY <1>1, FunctionCode
  <2>2. ~(o < q)
    BY <1>1, <1>5, <2>1, NextStart
  <2> QED
    BY <1>5, <2>1, <2>2 DEF PatchLength
<1> HIDE DEF e, o, len
<1>8. Cut(i, overwritten)'
  BY <1>1, <1>4, <1>5, <1>6, <1>7 DEF Cut, Original, Starts, e
<1>9. \A f \in Functions : (Done(f)' <=> Done(f)) /\ (Copied(f)' <=> Copied(f))
  BY <1>1 DEF Done, Copied
<1>c. Copied(i)'
  BY <1>1, <1>2, <1>9 DEF Copied
<1>10. overwritten' \in Nat /\ HooksMade'
  BY <1>1, <1>4, <1>5 DEF CodeInv, HooksMade
<1> QED
  BY <1>1, <1>c, <1>8, <1>9, <1>10, CodeGoesOn

LEMMA CodeMap == CodeInv /\ Counters /\ MapOnProcessor => CodeInv'
<1> SUFFICES ASSUME CodeInv, MapOnProcessor PROVE CodeInv'
  OBVIOUS
<1> QED
  BY CodeStutter DEF MapOnProcessor

LEMMA CodeHookMade == CodeInv /\ Counters /\ HookMade => CodeInv'
<1> SUFFICES ASSUME CodeInv, Counters, HookMade PROVE CodeInv'
  OBVIOUS
<1>1. /\ at = "map" /\ at' = "next" /\ i' = i + 1 /\ i \in Functions /\ i \in Nat
      /\ function_hooks' = [function_hooks EXCEPT ![i] = FunctionPage[i]]
      /\ UNCHANGED <<layout, execute_page, stubs, registry, overwritten>>
      /\ \A f \in Functions : f \in Nat
      /\ function_hooks \in [Functions -> HookedPages \cup {None}]
  BY LoopFacts DEF HookMade, Counters
<1>2. \A f \in Functions : (Done(f)' <=> Done(f)) /\ (Copied(f)' => Copied(f))
  <2>1. \A f \in Functions : f < i + 1 <=> f < i \/ f = i
    BY <1>1
  <2> QED
    BY <1>1, <2>1 DEF Done, Copied
<1>3. HooksMade'
  <2>1. \A f \in Functions : function_hooks'[f] \in {None, FunctionPage[f]}
    BY <1>1 DEF CodeInv, HooksMade
  <2>2. ASSUME NEW f \in Functions, f < i'
        PROVE  \E g \in 0 .. f : function_hooks'[g] = FunctionPage[f]
    <3>1. CASE f = i
      BY <3>1, <1>1
    <3>2. CASE f # i
      <4>1. PICK g \in 0 .. f : function_hooks[g] = FunctionPage[f]
        BY <3>2, <2>2, <1>1 DEF CodeInv, HooksMade
      <4>2. g # i /\ g \in Functions
        BY <3>2, <2>2, <1>1, LoopFacts
      <4> QED
        BY <4>1, <4>2, <1>1
    <3> QED
      BY <3>1, <3>2
  <2> QED
    BY <2>1, <2>2 DEF HooksMade
<1> QED
  BY <1>1, <1>2, <1>3, CodeGoesOn DEF CodeInv

LEMMA CodeInstalled == CodeInv /\ Counters /\ Installed => CodeInv'
<1> SUFFICES ASSUME CodeInv, Counters, Installed PROVE CodeInv'
  OBVIOUS
<1>1. /\ at = "next" /\ at' = "running" /\ UNCHANGED <<layout, install>>
  BY DEF Installed
<1>2. \A f \in Functions : (Done(f)' <=> Done(f)) /\ (Copied(f)' => Copied(f))
  BY <1>1 DEF Done, Copied, install
<1>3. HooksMade'
  BY <1>1 DEF CodeInv, HooksMade, install
<1> QED
  BY <1>1, <1>2, <1>3, CodeGoesOn DEF CodeInv, install
(* What the patch of one function leaves of the others in its page. *)
LEMMA PatchLeaves ==
  ASSUME layout \in Layouts, NEW bytes, NEW f \in Functions
  PROVE  /\ \A o \in Offsets : o \notin Patch(f) => Patched(bytes, f)[o] = bytes[o]
         /\ \A k \in 0 .. (PatchLength - 1) : layout.entry[f] + k \in Offsets =>
              Patched(bytes, f)[layout.entry[f] + k]
                = HookPatch(Addr("callback", f, 0))[k]
<1>1. layout.entry[f] \in Nat
  BY FunctionCode
<1>2. \A o \in Offsets : o \notin Patch(f) => Patched(bytes, f)[o] = bytes[o]
  BY DEF Patched, Patch
<1>3. ASSUME NEW k \in 0 .. (PatchLength - 1), layout.entry[f] + k \in Offsets
      PROVE  Patched(bytes, f)[layout.entry[f] + k] = HookPatch(Addr("callback", f, 0))[k]
  <2> DEFINE o == layout.entry[f] + k
             patch == HookPatch(Addr("callback", f, 0))
  <2>1. /\ o \in layout.entry[f] .. (layout.entry[f] + PatchLength - 1)
        /\ o \in Offsets /\ o - layout.entry[f] = k
    BY <1>1, <1>3 DEF PatchLength
  <2> HIDE DEF o
  <2>2. Patched(bytes, f)[o] = patch[o - layout.entry[f]]
    BY <2>1 DEF Patched
  <2>3. Patched(bytes, f)[o] = patch[k]
    BY <2>1, <2>2
  <2> QED
    BY <2>3 DEF o
<1> QED
  BY <1>2, <1>3

(* The patch fits into the page: the function reaches behind it.            *)
LEMMA PatchFits ==
  ASSUME layout \in Layouts, NEW f \in Functions, NEW n, Cut(f, n), n >= PatchLength
  PROVE  Patch(f) \subseteq Offsets
<1>1. layout.entry[f] \in Nat /\ layout.entry[f] + n \in Offsets /\ n \in Nat
  BY FunctionCode DEF Cut
<1> QED
  BY <1>1, CountAssumption DEF Offsets, Patch, PatchLength

LEMMA CodeInstallPatch == CodeInv /\ Counters /\ InstallPatch => CodeInv'
<1> SUFFICES ASSUME CodeInv, Counters, InstallPatch,
                    NEW c, c = i, NEW n, n = overwritten
             PROVE  CodeInv'
  OBVIOUS
<1> DEFINE p == FunctionPage[c]
           e == layout.entry[c]
           stub == JumpStub(Page, c, n)
<1>1. /\ at = "scan" /\ c \in Functions /\ c \in Nat /\ p \in HookedPages
      /\ layout \in Layouts /\ n \in Nat /\ n >= PatchLength /\ Cut(c, n)
      /\ UNCHANGED <<layout, function_hooks, overwritten>>
      /\ registry' = SetJumpStub(Entry(c), Addr("stub", c, 0))
      /\ stubs' = [stubs EXCEPT ![c] = stub]
      /\ execute_page' = [execute_page EXCEPT ![p] = Patched(Page, c)]
      /\ DOMAIN stubs = Functions /\ DOMAIN execute_page = HookedPages
      /\ \A f \in Functions : f \in Nat
  BY LoopFacts, FunctionFacts DEF InstallPatch, CodeInv, Counters, Page
<1>2. \A f \in Functions : Done(f)' <=> Done(f) \/ f = c
  <2>1. CASE PageHooked(i)
    <3>1. at' = "next" /\ i' = i + 1
      BY <2>1 DEF InstallPatch
    <3>2. \A f \in Functions : f < c + 1 <=> f < c \/ f = c
      BY <1>1
    <3> QED
      BY <1>1, <3>1, <3>2 DEF Done
  <2>2. CASE ~PageHooked(i)
    <3>1. at' = "map" /\ i' = i
      BY <2>2 DEF InstallPatch
    <3> QED
      BY <1>1, <3>1 DEF Done
  <2> QED
    BY <2>1, <2>2
<1>3. \A f \in Functions : Copied(f)' => Copied(f)
  <2>1. CASE PageHooked(i)
    <3>1. at' = "next" /\ i' = i + 1
      BY <2>1 DEF InstallPatch
    <3>2. \A f \in Functions : f < c + 1 <=> f < c \/ f = c
      BY <1>1
    <3> QED
      BY <1>1, <3>1, <3>2 DEF Copied
  <2>2. CASE ~PageHooked(i)
    <3>1. at' = "map" /\ i' = i
      BY <2>2 DEF InstallPatch
    <3> QED
      BY <1>1, <3>1 DEF Copied
  <2> QED
    BY <2>1, <2>2
<1>4. ~Done(c) /\ Copied(c) /\ Unpatched(c)
  <2>1. ~Done(c) /\ Copied(c)
    BY <1>1 DEF Done, CodeInv
  <2> QED
    BY <2>1, <1>1 DEF CodeInv
<1>5. /\ Patch(c) \subseteq Offsets /\ e \in Nat
      /\ \A f \in Functions : Starts(f) \subseteq Offsets
  BY <1>1, PatchFits, FunctionCode
<1>6. /\ \A f \in Functions : FunctionPage[f] # p => PageOfF(f)' = PageOfF(f)
      /\ \A f \in Functions : FunctionPage[f] = p =>
           PageOfF(f) = Page /\ PageOfF(f)' = Patched(Page, c)
  BY <1>1, FunctionFacts DEF PageOfF, Page
<1>a. \A f \in Functions : Starts(f)' = Starts(f) /\ Original(f)' = Original(f)
  BY <1>1 DEF Starts, Original
<1>b. /\ \A o \in Offsets : o \notin Patch(c) => Patched(Page, c)[o] = Page[o]
      /\ \A k \in 0 .. (PatchLength - 1) :
           Patched(Page, c)[e + k] = HookPatch(Addr("callback", c, 0))[k]
  <2>1. \A k \in 0 .. (PatchLength - 1) : e + k \in Offsets
    BY <1>5 DEF Patch, PatchLength
  <2>2. c \in Functions /\ layout \in Layouts
    BY <1>1
  <2> QED
    BY <2>1, <2>2, PatchLeaves
<1>c. PageOfF(c) = Page /\ PageOfF(c)' = Patched(Page, c)
  BY <1>1, <1>6
<1>7. PatchedIn(c)'
  <2>1. ASSUME NEW o \in Starts(c), o >= e + PatchLength
        PROVE  PageOfF(c)'[o] = Original(c)[o]
    <3>1. o \notin Patch(c) /\ o \in Offsets
      <4>1. o \in Nat
        BY <1>1, FunctionCode
      <4> QED
        BY <1>1, <1>5, <2>1, <4>1 DEF Patch, PatchLength
    <3> QED
      BY <3>1, <1>4, <1>b, <1>c DEF Unpatched
  <2>2. ASSUME NEW k \in 0 .. (PatchLength - 1)
        PROVE  PageOfF(c)'[e + k] = HookPatch(Addr("callback", c, 0))[k]
    BY <1>b, <1>c
  <2> QED
    BY <1>1, <1>a, <2>1, <2>2 DEF PatchedIn
<1>8. StubMade(c, n)'
  <2>1. stubs'[c] = stub
    BY <1>1
  <2>2. ASSUME NEW o \in Starts(c), o < e + n
        PROVE  stub[o - e] = Original(c)[o]
    <3>1. o \in Nat /\ o >= e
      BY <1>1, FunctionCode
    <3>2. o - e \in 0 .. (n + PatchLength - 1) /\ o - e < n /\ e + (o - e) = o
      BY <3>1, <2>2, <1>1, <1>5 DEF PatchLength
    <3>3. stub[o - e] = Page[o]
      BY <3>2 DEF JumpStub
    <3> QED
      BY <3>3, <1>4, <1>c DEF Unpatched
  <2>3. ASSUME NEW k \in 0 .. (PatchLength - 1)
        PROVE  stub[n + k] = HookPatch(Behind(Entry(c), n))[k]
    <3> DEFINE j == n + k
               patch == HookPatch(Behind(Entry(c), n))
    <3>1. j \in 0 .. (n + PatchLength - 1) /\ ~(j < n) /\ j - n = k
      BY <1>1 DEF PatchLength
    <3> HIDE DEF j
    <3>2. stub[j] = patch[j - n]
      BY <3>1 DEF JumpStub
    <3>3. stub[j] = patch[k]
      BY <3>1, <3>2
    <3> QED
      BY <3>3 DEF j
  <2> HIDE DEF stub
  <2>4. Cut(c, n)'
    BY <1>1, <1>a DEF Cut
  <2> QED
    BY <1>1, <1>a, <2>1, <2>2, <2>3, <2>4 DEF StubMade, Entry
<1> HIDE DEF stub
<1>9. ASSUME NEW f \in Functions, f # c
      PROVE  /\ PatchedIn(f) /\ Patch(f) \subseteq Offsets => PatchedIn(f)'
             /\ Unpatched(f) => Unpatched(f)'
             /\ \A m : StubMade(f, m)' <=> StubMade(f, m)
  <2>1. \A o \in Starts(f) : PageOfF(f)'[o] = PageOfF(f)[o]
    <3>1. CASE FunctionPage[f] # p
      BY <3>1, <1>6
    <3>2. CASE FunctionPage[f] = p
      <4>1. \A o \in Starts(f) : o \notin Patch(c) /\ o \in Offsets
        BY <1>1, <1>5, <1>9, <3>2, PatchesApart
      <4> QED
        BY <3>2, <4>1, <1>6, <1>b
    <3> QED
      BY <3>1, <3>2
  <2>2. Unpatched(f) => Unpatched(f)'
    BY <1>a, <2>1 DEF Unpatched
  <2>3. PatchedIn(f) /\ Patch(f) \subseteq Offsets => PatchedIn(f)'
    <3> SUFFICES ASSUME PatchedIn(f), Patch(f) \subseteq Offsets,
                        NEW k \in 0 .. (PatchLength - 1)
                 PROVE  PageOfF(f)'[layout.entry[f] + k] = PageOfF(f)[layout.entry[f] + k]
      BY <1>1, <1>a, <2>1 DEF PatchedIn
    <3>1. CASE FunctionPage[f] # p
      BY <3>1, <1>6
    <3>2. CASE FunctionPage[f] = p
      <4>1. layout.entry[f] + k \in Patch(f)
        <5>1. layout.entry[f] \in Nat
          BY <1>1, FunctionCode
        <5> QED
          BY <5>1 DEF Patch, PatchLength
      <4>2. layout.entry[f] + k \notin Patch(c)
        BY <4>1, <1>1, <1>9, <3>2, PatchesApart
      <4> QED
        BY <3>2, <4>1, <4>2, <1>6, <1>b
    <3> QED
      BY <3>1, <3>2
  <2>4. \A m : StubMade(f, m)' <=> StubMade(f, m)
    <3>1. stubs'[f] = stubs[f]
      BY <1>1, <1>9
    <3> QED
      BY <1>1, <1>a, <3>1 DEF StubMade, Cut, Entry
  <2> QED
    BY <2>2, <2>3, <2>4
<1>10. ASSUME NEW f \in Functions
       PROVE  IF Done(f)' THEN PatchedIn(f)' /\ \E m \in Nat : StubMade(f, m)'
                          ELSE Copied(f)' => Unpatched(f)'
  <2>1. CASE f = c
    BY <2>1, <1>1, <1>2, <1>7, <1>8
  <2>2. CASE f # c /\ Done(f)
    <3>1. PICK m \in Nat : StubMade(f, m) /\ PatchedIn(f)
      BY <2>2 DEF CodeInv
    <3>2. Patch(f) \subseteq Offsets
      BY <3>1, <1>1, PatchFits DEF StubMade
    <3> QED
      BY <2>2, <3>1, <3>2, <1>2, <1>9
  <2>3. CASE f # c /\ ~Done(f)
    BY <2>3, <1>2, <1>3, <1>9 DEF CodeInv
  <2> QED
    BY <2>1, <2>2, <2>3
<1>11. Registered'
  <2>1. registry = [f \in Functions |->
                      [first |-> Entry(f),
                       second |-> IF Done(f) THEN Addr("stub", f, 0) ELSE None]]
    BY DEF CodeInv, Registered
  <2>2. ASSUME NEW f \in Functions
        PROVE  SetJumpStub(Entry(c), Addr("stub", c, 0))[f] =
                 [first |-> Entry(f),
                  second |-> IF Done(f)' THEN Addr("stub", f, 0) ELSE None]
    <3>1. CASE f = c
      BY <3>1, <2>1, <1>1, <1>2 DEF SetJumpStub
    <3>2. CASE f # c
      <4>1. Entry(f) # Entry(c)
        BY <3>2, <1>1, EntriesDiffer
      <4> QED
        BY <3>2, <4>1, <2>1, <1>2 DEF SetJumpStub
    <3> QED
      BY <3>1, <3>2
  <2>3. SetJumpStub(Entry(c), Addr("stub", c, 0)) =
          [f \in Functions |-> SetJumpStub(Entry(c), Addr("stub", c, 0))[f]]
    BY DEF SetJumpStub
  <2>4. \A f : Entry(f)' = Entry(f)
    BY <1>1 DEF Entry
  <2> QED
    BY <2>2, <2>3, <2>4, <1>1 DEF Registered
<1>12. HooksMade'
  <2>1. \A f \in Functions : function_hooks[f] \in {None, FunctionPage[f]}
    BY DEF CodeInv, HooksMade
  <2>2. ASSUME NEW f \in Functions, f < i'
        PROVE  \E g \in 0 .. f : function_hooks[g] = FunctionPage[f]
    <3>1. CASE f < i
      BY <3>1 DEF CodeInv, HooksMade
    <3>2. CASE ~(f < i)
      <4>1. f = c /\ PageHooked(i)
        BY <3>2, <2>2, <1>1 DEF InstallPatch
      <4>2. PICK g \in 0 .. (i - 1) : function_hooks[g] = FunctionPage[i]
        BY <4>1 DEF PageHooked
      <4>3. g \in 0 .. f
        BY <4>1, <1>1
      <4> QED
        BY <4>1, <4>2, <4>3
    <3> QED
      BY <3>1, <3>2
  <2> QED
    BY <1>1, <2>1, <2>2 DEF HooksMade
<1>13. at' # "scan"
  BY DEF InstallPatch
<1>14. DOMAIN stubs' = Functions /\ DOMAIN execute_page' = HookedPages
  BY <1>1
<1> QED
  BY <1>1, <1>10, <1>11, <1>12, <1>13, <1>14 DEF CodeInv

(* At every stage of the loop the code is what it should be: in a page that *)
(* is copied, the patch at the entry of every function behind the loop, and *)
(* the code elsewhere; and the stub of each of them in the registry.        *)
LEMMA CodeInvariant == Spec => []CodeInv
<1>1. Init => CodeInv
  <2> SUFFICES ASSUME Init PROVE CodeInv
    OBVIOUS
  <2>1. \A f \in Functions : ~Done(f) /\ ~Copied(f)
    BY CountAssumption DEF Init, Done, Copied, Functions
  <2>2. HooksMade
    BY CountAssumption DEF Init, HooksMade, Functions
  <2>3. Registered
    BY <2>1 DEF Init, Registered, Entry
  <2> QED
    BY <2>1, <2>2, <2>3 DEF Init, CodeInv
<1>2. CodeInv /\ TablesInv /\ [Next]_vars => CodeInv'
  <2> SUFFICES ASSUME CodeInv, Counters, [Next]_vars PROVE CodeInv'
    BY DEF TablesInv
  <2>1. CASE Install
    BY <2>1, CodeAddToHookedPage, CodeNewEptHook, CodeScan, CodeInstallPatch, CodeMap,
       CodeHookMade, CodeInstalled DEF Install
  <2>2. CASE Run
    BY <2>2, CodeStutter DEF Run, Execute, CallStub, CallbackReturns, install
  <2>3. CASE \E f \in Functions, o \in Offsets, c \in Processors : Begin(f, o, c)
    BY <2>3, CodeStutter DEF Begin, install
  <2>4. CASE UNCHANGED vars
    BY <2>4, CodeStutter DEF vars, install
  <2> QED
    BY <2>1, <2>2, <2>3, <2>4 DEF Next
<1> QED
  BY <1>1, <1>2, TablesInvariant, PTL DEF Spec

(* Every variable of the installation has its type: the loop that adds up   *)
(* instructions never leaves the function, whatever their lengths.          *)
THEOREM InstallTypes == Spec => []TypeOK
<1> DEFINE Placed == at \in {"next", "scan", "map", "running"}
<1>1. TablesInv /\ CodeInv /\ Placed => TypeOK
  BY DEF TablesInv, Counters, CodeInv, TypeOK
<1>2. Init => Placed
  BY DEF Init
<1>3. Placed /\ [Next]_vars => Placed'
  BY DEF Next, Install, AddToHookedPage, NewEptHook, Scan, InstallPatch, MapOnProcessor,
         HookMade, Installed, Run, Execute, CallStub, CallbackReturns, Begin, vars
<1> QED
  BY <1>1, <1>2, <1>3, TablesInvariant, CodeInvariant, PTL DEF Spec
-----------------------------------------------------------------------------
(* What the engine starts from. *)

(* Of the functions behind the loop the first on each page has the hook; a  *)
(* function whose hook is being made has none before it on its page.        *)
FirstHooks ==
  /\ \A f \in Functions :
       function_hooks[f] = IF f < i THEN Engine!FunctionHooks(f) ELSE None
  /\ at = "map" => ~PageHooked(i)

(* The search of the constructor for an earlier hook finds one just when an *)
(* earlier function is on the page.                                         *)
LEMMA SearchFindsFirst ==
  ASSUME CodeInv, Counters, i \in Functions
  PROVE  Engine!FunctionHooks(i) = IF PageHooked(i) THEN None ELSE FunctionPage[i]
<1>1. ASSUME NEW g \in 0 .. (i - 1), function_hooks[g] = FunctionPage[i]
      PROVE  FunctionPage[g] = FunctionPage[i]
  <2>1. g \in Functions /\ FunctionPage[i] # None
    BY LoopFacts, FunctionFacts, PageAssumption
  <2> QED
    BY <1>1, <2>1 DEF CodeInv, HooksMade
<1>2. ASSUME NEW g \in 0 .. (i - 1), FunctionPage[g] = FunctionPage[i]
      PROVE  PageHooked(i)
  <2>1. g \in Functions /\ g < i
    BY LoopFacts
  <2>2. PICK h \in 0 .. g : function_hooks[h] = FunctionPage[g]
    BY <2>1 DEF CodeInv, HooksMade
  <2>3. h \in 0 .. (i - 1)
    BY <2>1, LoopFacts
  <2> QED
    BY <1>2, <2>2, <2>3 DEF PageHooked
<1> QED
  BY <1>1, <1>2 DEF Engine!FunctionHooks, PageHooked

LEMMA FirstHooksNext ==
  ASSUME FirstHooks, CodeInv, Counters, [Next]_vars
  PROVE  FirstHooks'
<1> USE DEF FirstHooks
<1>1. CASE HookMade
  <2>1. /\ at = "map" /\ at' = "next" /\ i' = i + 1 /\ i \in Functions
        /\ function_hooks' = [function_hooks EXCEPT ![i] = FunctionPage[i]]
    BY <1>1, LoopFacts DEF HookMade, Counters
  <2>2. Engine!FunctionHooks(i) = FunctionPage[i]
    BY <2>1, SearchFindsFirst
  <2>3. ASSUME NEW f \in Functions
        PROVE  function_hooks'[f] = IF f < i' THEN Engine!FunctionHooks(f) ELSE None
    <3>1. f < i' <=> f < i \/ f = i
      BY <2>1, LoopFacts
    <3>2. f = i => ~(f < i)
      BY LoopFacts
    <3> QED
      BY <2>1, <2>2, <3>1, <3>2 DEF Counters
  <2> QED
    BY <2>1, <2>3 DEF Engine!FunctionHooks
<1>2. CASE InstallPatch
  <2>1. at = "scan" /\ i \in Functions /\ function_hooks' = function_hooks
    BY <1>2, LoopFacts DEF InstallPatch, Counters
  <2>2. CASE PageHooked(i)
    <3>1. at' = "next" /\ i' = i + 1
      BY <1>2, <2>2 DEF InstallPatch
    <3>2. Engine!FunctionHooks(i) = None
      BY <2>1, <2>2, SearchFindsFirst
    <3>3. ASSUME NEW f \in Functions
          PROVE  function_hooks'[f] = IF f < i' THEN Engine!FunctionHooks(f) ELSE None
      <4>1. f < i' <=> f < i \/ f = i
        BY <2>1, <3>1, LoopFacts
      <4>2. f = i => ~(f < i)
        BY LoopFacts
      <4> QED
        BY <2>1, <3>2, <4>1, <4>2
    <3> QED
      BY <3>1, <3>3 DEF Engine!FunctionHooks
  <2>3. CASE ~PageHooked(i)
    <3>1. i' = i
      BY <1>2, <2>3 DEF InstallPatch
    <3> QED
      BY <2>1, <2>3, <3>1 DEF PageHooked, Engine!FunctionHooks
  <2> QED
    BY <2>2, <2>3
<1>3. CASE /\ UNCHANGED <<function_hooks, i>>
           /\ at' = "map" => at = "map"
  BY <1>3 DEF PageHooked, Engine!FunctionHooks
<1>4. CASE Install /\ ~HookMade /\ ~InstallPatch
  BY <1>3, <1>4 DEF Install, AddToHookedPage, NewEptHook, Scan, MapOnProcessor,
                    Installed, install
<1>5. CASE Run
  BY <1>3, <1>5 DEF Run, Execute, CallStub, CallbackReturns, install
<1>6. CASE \E f \in Functions, o \in Offsets, c \in Processors : Begin(f, o, c)
  BY <1>3, <1>6 DEF Begin, install
<1>7. CASE UNCHANGED vars
  BY <1>3, <1>7 DEF vars, install
<1> QED
  BY <1>1, <1>2, <1>4, <1>5, <1>6, <1>7 DEF Next

(* A processor that has a page mapped to its patched copy has the view for  *)
(* execution of it.                                                         *)
LEMMA HookedView ==
  ASSUME NEW c \in Processors, NEW p \in HookedPages,
         Walk(large_pdt[c], p) = Hooked(ExecuteFrame[p])
  PROVE  View(c, p) = Engine!ExecView
BY DEF View, Hooked, Engine!ExecView

(* The installation hands HookEngine what its handlers rely on: every page  *)
(* of a function mapped for execution on every processor, and one hook for  *)
(* every page, the first function's.                                        *)
THEOREM InstallStartsEngine == Spec => []EngineStarts
<1>1. Init => FirstHooks
  <2> SUFFICES ASSUME Init PROVE FirstHooks
    OBVIOUS
  <2>1. \A f \in Functions : ~(f < i)
    BY CountAssumption DEF Init, Functions
  <2> QED
    BY <2>1 DEF Init, FirstHooks
<1>2. FirstHooks /\ CodeInv /\ TablesInv /\ [Next]_vars => FirstHooks'
  BY FirstHooksNext DEF TablesInv
<1>3. FirstHooks /\ TablesInv => EngineStarts
  <2> SUFFICES ASSUME FirstHooks, TablesInv, at = "running" PROVE
          Engine!Init /\ \A f \in Functions : function_hooks[f] = Engine!FunctionHooks(f)
    BY DEF EngineStarts
  <2>1. \A c \in Processors, p \in HookedPages : View(c, p) = Engine!ExecView
    BY HooksAll, HookedView DEF AllHooked
  <2>2. Engine!HookedPages = HookedPages
    BY DEF Engine!HookedPages, Engine!Indices, HookedPages, Functions
  <2>3. Engine!Init
    BY <2>1, <2>2 DEF Engine!Init
  <2>4. \A f \in Functions : f < i
    BY FunctionFacts DEF TablesInv, Counters, Functions
  <2> QED
    BY <2>3, <2>4 DEF FirstHooks
<1> QED
  BY <1>1, <1>2, <1>3, CodeInvariant, TablesInvariant, PTL DEF Spec

-----------------------------------------------------------------------------
(* A thread g, once the hooks are installed. *)

Fields == {"rip", "stack", "rdi", "trace", "started", "processor"}
Words == Addrs \cup {None, "argument"}

(* What is below the frame of function f when it was called at o: the       *)
(* caller, and for a call of the whole function the callback.               *)
Below(f, o) == IF o = layout.entry[f] THEN <<Addr("returned", f, 0)>> \o <<None>>
                                      ELSE <<None>>
Seen(f) == <<"callback", f, "argument">>
Expected(f, o) ==
  LET original == Native(FunctionPage[f], o)
  IN  IF o = layout.entry[f] THEN <<Seen(f)>> \o original ELSE original

(* In the patch at off, that leads to dest. *)
InPatch(g, area, n, off, dest, rest) ==
  \E k \in {0, 1, 11, 15} :
    /\ g.rip = Addr(area, n, off + k)
    /\ g.rdi = IF k = 11 THEN dest ELSE "argument"
    /\ g.stack = IF k = 0 THEN rest
                 ELSE <<IF k = 15 THEN dest ELSE "argument">> \o rest

(* At the instruction that begins at q in the function, or is a copy of it. *)
AtInsn(g, area, n, off, f, o, q) ==
  /\ g.rip = Addr(area, n, off)
  /\ g.rdi = "argument" /\ g.stack = Below(f, o)
  /\ g.trace \o Native(FunctionPage[f], q) = Expected(f, o)

AtEntry(g, f) ==
  /\ g.trace = <<>>
  /\ InPatch(g, "page", FunctionPage[f], layout.entry[f], Addr("callback", f, 0), <<None>>)
InCallback(g, f) ==
  /\ g.trace = <<>>
  /\ g.rip = Addr("callback", f, 0) /\ g.rdi = "argument" /\ g.stack = <<None>>
InStub(g, f, n) ==
  \E q \in Starts(f) :
    /\ q < layout.entry[f] + n
    /\ AtInsn(g, "stub", f, q - layout.entry[f], f, layout.entry[f], q)
StubEnds(g, f, n) ==
  /\ g.trace \o Native(FunctionPage[f], layout.entry[f] + n) = Expected(f, layout.entry[f])
  /\ InPatch(g, "stub", f, n, Behind(Entry(f), n), Below(f, layout.entry[f]))
InFunction(g, f, o) ==
  \E q \in Starts(f) :
    /\ q >= layout.entry[f] + PatchLength
    /\ AtInsn(g, "page", FunctionPage[f], q, f, o, q)
Returning(g, f) ==
  /\ g.trace = Expected(f, layout.entry[f])
  /\ g.rip = Addr("returned", f, 0) /\ g.rdi = "argument" /\ g.stack = <<None>>
Ended(g, f, o) ==
  /\ g.trace = Expected(f, o)
  /\ g.rip = None /\ g.rdi = "argument" /\ g.stack = <<>>

(* A thread that began at o is somewhere on its way, and what is left of    *)
(* the original is what is missing from its trace.                          *)
OnItsWay(g, f, o) ==
  /\ g.started = [function |-> f, off |-> o]
  /\ o = layout.entry[f] \/ o >= layout.entry[f] + PatchLength
  /\ \/ InFunction(g, f, o)
     \/ Ended(g, f, o)
     \/ /\ o = layout.entry[f]
        /\ \/ AtEntry(g, f)
           \/ InCallback(g, f)
           \/ \E n \in Nat : StubMade(f, n) /\ (InStub(g, f, n) \/ StubEnds(g, f, n))
           \/ Returning(g, f)

Thread(g) ==
  /\ DOMAIN g = Fields
  /\ g.processor \in Processors
  /\ g.trace \in Seq(Facts)
  /\ \/ g.rip = None /\ g.started = None
     \/ \E f \in Functions : \E o \in Starts(f) : OnItsWay(g, f, o)

ThreadInv ==
  /\ Thread(guest)
  /\ at # "running" => guest.rip = None /\ guest.started = None

(* What is pushed is what is popped. *)
LEMMA PushAndPop ==
  ASSUME NEW S, NEW s \in Seq(S), NEW x \in S
  PROVE  /\ <<x>> \o s \in Seq(S) /\ <<x>> \o s # <<>>
         /\ Head(<<x>> \o s) = x /\ Tail(<<x>> \o s) = s
<1>1. <<x>> \in Seq(S) /\ Len(<<x>>) = 1 /\ <<x>>[1] = x /\ Len(s) \in Nat
  OBVIOUS
<1> DEFINE c == <<x>> \o s
<1>2. c \in Seq(S) /\ Len(c) = 1 + Len(s) /\ c[1] = x
      /\ \A k \in 1 .. Len(s) : c[k + 1] = s[k]
  BY <1>1, ConcatProperties
<1> HIDE DEF c
<1>3. c # <<>> /\ Head(c) = x
  BY <1>2, <1>1
<1>4. Tail(c) \in Seq(S) /\ Len(Tail(c)) = Len(s) /\ \A k \in 1 .. Len(s) : Tail(c)[k] = c[k + 1]
  BY <1>1, <1>2, <1>3
<1>5. Tail(c) = s
  BY <1>2, <1>4, SeqEqual
<1> QED
  BY <1>2, <1>3, <1>5 DEF c

LEMMA PatchInsns ==
  ASSUME NEW dest
  PROVE  /\ HookPatch(dest)[0].insn = Insn("push_rdi", 1, None)
         /\ HookPatch(dest)[1].insn = Insn("mov_rdi", 10, dest)
         /\ HookPatch(dest)[11].insn = Insn("xchg_rsp_rdi", 4, None)
         /\ HookPatch(dest)[15].insn = Insn("ret", 1, None)
BY DEF HookPatch, Byte, PatchLength

(* One instruction of a patch: in the end the thread is where it leads,     *)
(* and its stack and registers are what they were.                          *)
LEMMA PatchStep ==
  ASSUME NEW dest \in Words, NEW rest \in Seq(Words), NEW area, NEW n, NEW off \in Nat,
         NEW insn, InPatch(guest, area, n, off, dest, rest), DOMAIN guest = Fields,
         \A k \in 0 .. (PatchLength - 1) :
           guest.rip.off = off + k => insn = HookPatch(dest)[k].insn,
         guest' = Step(guest.rip, insn)
  PROVE  /\ DOMAIN guest' = Fields
         /\ guest'.processor = guest.processor
         /\ guest'.started = guest.started
         /\ guest'.trace = guest.trace
         /\ \/ InPatch(guest', area, n, off, dest, rest)
            \/ guest'.rip = dest /\ guest'.rdi = "argument" /\ guest'.stack = rest
<1>1. PICK k \in {0, 1, 11, 15} :
        /\ guest.rip = Addr(area, n, off + k)
        /\ guest.rdi = IF k = 11 THEN dest ELSE "argument"
        /\ guest.stack = IF k = 0 THEN rest
                         ELSE <<IF k = 15 THEN dest ELSE "argument">> \o rest
  BY DEF InPatch
<1>2. guest.rip.off = off + k /\ insn = HookPatch(dest)[k].insn
  BY <1>1 DEF Addr, PatchLength
<1>3. \A len : Behind(guest.rip, len) = Addr(area, n, (off + k) + len)
  BY <1>1 DEF Behind, Addr
<1>w. "argument" \in Words
  BY DEF Words
<1>4. CASE k = 0
  <2>1. insn = Insn("push_rdi", 1, None)
    BY <1>2, <1>4, PatchInsns
  <2>2. guest' = [guest EXCEPT !.rip = Behind(guest.rip, 1), !.stack = <<guest.rdi>> \o @]
    BY <2>1 DEF Step, Insn
  <2>3. Behind(guest.rip, 1) = Addr(area, n, off + 1)
    BY <1>3, <1>4
  <2>4. DOMAIN guest' = Fields /\ guest'.rip = Addr(area, n, off + 1) /\ guest'.rdi = "argument"
        /\ guest'.stack = <<"argument">> \o rest
        /\ guest'.processor = guest.processor /\ guest'.started = guest.started
        /\ guest'.trace = guest.trace
    BY <2>2, <2>3, <1>1, <1>4 DEF Fields
  <2> QED
    BY <2>4 DEF InPatch
<1>5. CASE k = 1
  <2>1. insn = Insn("mov_rdi", 10, dest)
    BY <1>2, <1>5, PatchInsns
  <2>2. guest' = [guest EXCEPT !.rip = Behind(guest.rip, 10), !.rdi = dest]
    BY <2>1 DEF Step, Insn
  <2>3. Behind(guest.rip, 10) = Addr(area, n, off + 11)
    BY <1>3, <1>5
  <2>4. DOMAIN guest' = Fields /\ guest'.rip = Addr(area, n, off + 11) /\ guest'.rdi = dest
        /\ guest'.stack = <<"argument">> \o rest
        /\ guest'.processor = guest.processor /\ guest'.started = guest.started
        /\ guest'.trace = guest.trace
    BY <2>2, <2>3, <1>1, <1>5 DEF Fields
  <2> QED
    BY <2>4 DEF InPatch
<1>6. CASE k = 11
  <2>1. insn = Insn("xchg_rsp_rdi", 4, None)
    BY <1>2, <1>6, PatchInsns
  <2>2. guest' = [guest EXCEPT !.rip = Behind(guest.rip, 4), !.rdi = Head(guest.stack),
                               !.stack = <<guest.rdi>> \o Tail(@)]
    BY <2>1 DEF Step, Insn
  <2>3. Behind(guest.rip, 4) = Addr(area, n, off + 15)
    BY <1>3, <1>6
  <2>4. guest.stack = <<"argument">> \o rest /\ guest.rdi = dest
    BY <1>1, <1>6
  <2>5. Head(guest.stack) = "argument" /\ Tail(guest.stack) = rest
    BY <2>4, <1>w, PushAndPop
  <2>6. DOMAIN guest' = Fields /\ guest'.rip = Addr(area, n, off + 15) /\ guest'.rdi = "argument"
        /\ guest'.stack = <<dest>> \o rest
        /\ guest'.processor = guest.processor /\ guest'.started = guest.started
        /\ guest'.trace = guest.trace
    BY <2>2, <2>3, <2>4, <2>5 DEF Fields
  <2> QED
    BY <2>6 DEF InPatch
<1>7. CASE k = 15
  <2>1. insn = Insn("ret", 1, None)
    BY <1>2, <1>7, PatchInsns
  <2>2. guest' = [guest EXCEPT !.rip = Head(guest.stack), !.stack = Tail(@)]
    BY <2>1 DEF Step, Insn
  <2>4. guest.stack = <<dest>> \o rest /\ guest.rdi = "argument"
    BY <1>1, <1>7
  <2>5. Head(guest.stack) = dest /\ Tail(guest.stack) = rest
    BY <2>4, PushAndPop
  <2>6. DOMAIN guest' = Fields /\ guest'.rip = dest /\ guest'.rdi = "argument"
        /\ guest'.stack = rest
        /\ guest'.processor = guest.processor /\ guest'.started = guest.started
        /\ guest'.trace = guest.trace
    BY <2>2, <2>4, <2>5 DEF Fields
  <2> QED
    BY <2>6
<1> QED
  BY <1>4, <1>5, <1>6, <1>7

(* What a fetch finds on a processor that runs with the hooks. *)
LEMMA Fetched ==
  ASSUME AllHooked, at = "running", guest.processor \in Processors, NEW a
  PROVE  /\ a.area = "stub" => Memory(a) = stubs[a.n]
         /\ a.area = "page" /\ a.n \in HookedPages => Memory(a) = execute_page[a.n]
<1>1. a.area = "stub" => Memory(a) = stubs[a.n]
  BY DEF Memory
<1>2. ASSUME a.area = "page", a.n \in HookedPages
      PROVE  Memory(a) = execute_page[a.n]
  <2> DEFINE fetched == Walk(large_pdt[guest.processor], a.n).frame
  <2>0. Walk(large_pdt[guest.processor], a.n) = Hooked(ExecuteFrame[a.n])
    BY <1>2 DEF AllHooked
  <2>1. fetched = ExecuteFrame[a.n]
    BY <2>0 DEF Hooked
  <2>2. ExecuteFrame[a.n] \notin HookedPages
    BY <1>2, PageAssumption
  <2> DEFINE page == CHOOSE p \in HookedPages : ExecuteFrame[p] = fetched
  <2>3. page = a.n
    <3>1. page \in HookedPages /\ ExecuteFrame[page] = fetched
      BY <1>2, <2>1
    <3> HIDE DEF page, fetched
    <3> QED
      BY <1>2, <2>1, <3>1, PageAssumption
  <2> HIDE DEF fetched
  <2>4. fetched # a.n
    BY <2>1, <2>2, <1>2
  <2>5. Memory(a) = execute_page[page]
    BY <2>4, <1>2 DEF Memory, fetched
  <2> QED
    BY <2>3, <2>5
<1> QED
  BY <1>1, <1>2

(* What a thread is to do depends on nothing but the code. *)
LEMMA SameNative ==
  ASSUME UNCHANGED layout
  PROVE  \A p, o : Native(p, o)' = Native(p, o)
BY DEF Native

LEMMA SameCode ==
  ASSUME UNCHANGED layout
  PROVE  \A f, o :
           /\ Starts(f)' = Starts(f) /\ Original(f)' = Original(f)
           /\ Entry(f)' = Entry(f)
           /\ Below(f, o)' = Below(f, o)
           /\ Expected(f, o)' = Expected(f, o)
BY SameNative DEF Starts, Original, Entry, Below, Expected

LEMMA SameFacts ==
  ASSUME UNCHANGED layout
  PROVE  Facts' = Facts
BY DEF Facts, Fact

LEMMA WordsOfFunction ==
  ASSUME layout \in Layouts, NEW f \in Functions
  PROVE  /\ None \in Words /\ "argument" \in Words
         /\ \A n \in Nat : Addr("callback", f, n) \in Words /\ Addr("returned", f, n) \in Words
         /\ \A n \in Nat : Addr("stub", f, n) \in Words /\ Addr("page", FunctionPage[f], n) \in Words
         /\ \A n \in Nat : Behind(Entry(f), n) = Addr("page", FunctionPage[f], layout.entry[f] + n)
         /\ <<None>> \in Seq(Words)
         /\ \A o : Below(f, o) \in Seq(Words)
<1>1. None \in Words /\ "argument" \in Words /\ Addrs \subseteq Words
  BY DEF Words
<1>2. FunctionPage[f] \in HookedPages
  BY FunctionFacts
<1>3. \A n \in Nat : /\ Addr("callback", f, n) \in Addrs /\ Addr("returned", f, n) \in Addrs
                     /\ Addr("stub", f, n) \in Addrs /\ Addr("page", FunctionPage[f], n) \in Addrs
  BY <1>2 DEF Addr, Addrs
<1>4. \A n \in Nat : Behind(Entry(f), n) = Addr("page", FunctionPage[f], layout.entry[f] + n)
  BY DEF Behind, Entry, Addr
<1>5. <<None>> \in Seq(Words) /\ Addr("returned", f, 0) \in Words
  BY <1>1, <1>3
<1>6. \A o : Below(f, o) \in Seq(Words)
  BY <1>5, PushAndPop DEF Below
<1> QED
  BY <1>1, <1>3, <1>4, <1>5, <1>6

(* One instruction of the original, in the page or, if it does not refer to *)
(* its own address, in the stub.                                            *)
LEMMA InsnStep ==
  ASSUME layout \in Layouts, NEW f \in Functions, NEW o, NEW q \in Starts(f),
         NEW area, NEW n, NEW off,
         AtInsn(guest, area, n, off, f, o, q),
         DOMAIN guest = Fields, guest.trace \in Seq(Facts),
         \/ area = "page" /\ n = FunctionPage[f] /\ off = q
         \/ Original(f)[q].insn.op = "plain",
         guest' = Step(guest.rip, Original(f)[q].insn)
  PROVE  /\ DOMAIN guest' = Fields /\ guest'.trace \in Seq(Facts)
         /\ guest'.processor = guest.processor /\ guest'.started = guest.started
         /\ IF Original(f)[q].insn.op = "ret"
              THEN /\ guest'.rip = Head(guest.stack) /\ guest'.stack = Tail(guest.stack)
                   /\ guest'.rdi = "argument" /\ guest'.trace = Expected(f, o)
              ELSE LET len == Original(f)[q].insn.len
                   IN  AtInsn(guest', area, n, off + len, f, o, q + len)
<1> DEFINE insn == Original(f)[q].insn
           p == FunctionPage[f]
           next == Addr(area, n, off + insn.len)
<1>1. insn.op \in {"plain", "relative", "ret"}
  BY FunctionCode
<1>2. p \in HookedPages /\ q \in Offsets
  BY FunctionFacts, FunctionCode
<1>3. /\ Native(p, q) \in Seq(Facts)
      /\ Native(p, q) = IF insn.op = "ret" THEN <<>>
                        ELSE <<Fact(p, q)>> \o Native(p, q + insn.len)
  BY NativeUnfolds DEF NextOf, Original
<1>4. /\ guest.rip = Addr(area, n, off) /\ guest.rdi = "argument"
      /\ guest.stack = Below(f, o)
      /\ guest.trace \o Native(p, q) = Expected(f, o)
  BY DEF AtInsn
<1>5. Behind(guest.rip, insn.len) = next
  BY <1>4 DEF Behind, Addr
<1>6. CASE insn.op = "ret"
  <2>1. guest' = [guest EXCEPT !.rip = Head(guest.stack), !.stack = Tail(@)]
    BY <1>6 DEF Step
  <2>2. guest.trace = Expected(f, o)
    BY <1>3, <1>4, <1>6, ConcatEmptySeq
  <2> QED
    BY <1>4, <1>6, <2>1, <2>2 DEF Fields
<1>7. CASE insn.op # "ret"
  <2>1. guest' = [guest EXCEPT !.rip = next, !.trace = Append(@, Fact(p, q))]
    <3>1. CASE insn.op = "plain"
      <4>1. Fact(p, q) = <<insn.arg, guest.rdi>>
        BY <3>1, <1>4 DEF Fact, Original
      <4> QED
        BY <3>1, <4>1, <1>5 DEF Step
    <3>2. CASE insn.op = "relative"
      <4>1. next = Addr("page", p, q + insn.len)
        BY <3>2
      <4>2. Fact(p, q) = <<insn.arg, guest.rdi, next>>
        BY <3>2, <1>4, <4>1 DEF Fact, Original
      <4> QED
        BY <3>2, <4>2, <1>5 DEF Step
    <3> QED
      BY <1>1, <1>7, <3>1, <3>2
  <2>2. Fact(p, q) \in Facts
    BY <1>2, SomeFacts
  <2>3. Native(p, q + insn.len) \in Seq(Facts)
    <3>1. q + insn.len \in Offsets
      BY <1>7, FunctionCode
    <3> QED
      BY <3>1, <1>2, NativeTyped
  <2>4. Append(guest.trace, Fact(p, q)) \o Native(p, q + insn.len) = Expected(f, o)
    <3> DEFINE trace == guest.trace
               x == Fact(p, q)
               rest == Native(p, q + insn.len)
    <3>1. trace \o (<<x>> \o rest) = Expected(f, o)
      BY <1>3, <1>4, <1>7
    <3>2. trace \in Seq(Facts) /\ x \in Facts /\ rest \in Seq(Facts)
      BY <2>2, <2>3
    <3> HIDE DEF trace, x, rest
    <3>3. Append(trace, x) \o rest = trace \o (<<x>> \o rest)
      BY <3>2, SeenAndLeft
    <3>4. Append(trace, x) \o rest = Expected(f, o)
      BY <3>1, <3>3
    <3> QED
      BY <3>4 DEF trace, x, rest
  <2>5. /\ DOMAIN guest' = Fields /\ guest'.trace = Append(guest.trace, Fact(p, q))
        /\ guest'.processor = guest.processor /\ guest'.started = guest.started
        /\ guest'.rip = next /\ guest'.rdi = "argument" /\ guest'.stack = Below(f, o)
    BY <2>1, <1>4 DEF Fields
  <2>6. guest'.trace \in Seq(Facts)
    BY <2>2, <2>5
  <2> QED
    BY <1>7, <2>4, <2>5, <2>6 DEF AtInsn
<1> QED
  BY <1>6, <1>7

(* The whole code of a function, when the processors run with the hooks.    *)
LEMMA CodeOfFunction ==
  ASSUME CodeInv, Counters, at = "running", NEW f \in Functions
  PROVE  /\ PatchedIn(f) /\ \E n \in Nat : StubMade(f, n)
         /\ LookupJumpStub(Entry(f)) = Addr("stub", f, 0)
<1>0. layout \in Layouts /\ Registered
  BY DEF CodeInv
<1>1. \A g \in Functions : Done(g)
  BY LoopFacts DEF Counters, Done, Functions
<1>2. /\ \A g \in Functions : registry[g].first = Entry(g)
      /\ registry[f].second = Addr("stub", f, 0)
  BY <1>0, <1>1 DEF Registered
<1>3. \A g \in Functions : registry[g].first = Entry(f) <=> g = f
  BY <1>0, <1>2, EntriesDiffer
<1>4. LookupJumpStub(Entry(f)) = registry[f].second
  <2> DEFINE matches == {g \in Functions : registry[g].first = Entry(f)}
             found == CHOOSE h \in matches : \A g \in matches : h <= g
  <2>1. f \in Nat
    BY LoopFacts
  <2>2. matches = {f}
    BY <1>3
  <2>3. found = f
    BY <2>1, <2>2
  <2>4. \E g \in Functions : registry[g].first = Entry(f)
    BY <1>3
  <2> QED
    BY <2>3, <2>4 DEF LookupJumpStub
<1>5. PatchedIn(f) /\ \E n \in Nat : StubMade(f, n)
  BY <1>1 DEF CodeInv
<1> QED
  BY <1>2, <1>4, <1>5

(* The parts of a thread that no step of it changes, and its trace.         *)
Kept == DOMAIN guest = Fields /\ guest.processor \in Processors /\ guest.trace \in Seq(Facts)
Runs == CodeInv /\ Counters /\ AllHooked /\ at = "running" /\ Kept
Same == /\ DOMAIN guest' = Fields
        /\ guest'.processor = guest.processor /\ guest'.started = guest.started
        /\ guest'.trace \in Seq(Facts)

LEMMA Fetches ==
  ASSUME Runs, Execute
  PROVE  /\ guest.rip.area \in {"page", "stub"}
         /\ guest.rip.area = "stub" =>
              guest' = Step(guest.rip, stubs[guest.rip.n][guest.rip.off].insn)
         /\ guest.rip.area = "page" /\ guest.rip.n \in HookedPages =>
              guest' = Step(guest.rip, execute_page[guest.rip.n][guest.rip.off].insn)
<1>1. /\ guest.rip.area \in {"page", "stub"}
      /\ guest' = Step(guest.rip, Memory(guest.rip)[guest.rip.off].insn)
  BY DEF Execute
<1>2. /\ guest.rip.area = "stub" => Memory(guest.rip) = stubs[guest.rip.n]
      /\ guest.rip.area = "page" /\ guest.rip.n \in HookedPages =>
           Memory(guest.rip) = execute_page[guest.rip.n]
  BY Fetched DEF Runs, Kept
<1> QED
  BY <1>1, <1>2

LEMMA FromEntry ==
  ASSUME Runs, Execute, NEW f \in Functions, AtEntry(guest, f)
  PROVE  Same /\ (AtEntry(guest', f) \/ InCallback(guest', f))
<1> DEFINE p == FunctionPage[f]
           entry == layout.entry[f]
           dest == Addr("callback", f, 0)
           insn == execute_page[p][guest.rip.off].insn
<1>1. layout \in Layouts /\ Kept
  BY DEF Runs, CodeInv
<1>2. p \in HookedPages /\ entry \in Nat
  BY <1>1, FunctionFacts, FunctionCode
<1>3. guest.trace = <<>> /\ InPatch(guest, "page", p, entry, dest, <<None>>)
  BY DEF AtEntry
<1>4. guest.rip.area = "page" /\ guest.rip.n = p
  BY <1>3 DEF InPatch, Addr
<1>5. guest' = Step(guest.rip, insn)
  BY <1>2, <1>4, Fetches
<1>6. \A k \in 0 .. (PatchLength - 1) :
        guest.rip.off = entry + k => insn = HookPatch(dest)[k].insn
  BY CodeOfFunction DEF Runs, PatchedIn, PageOfF
<1>7. dest \in Words /\ <<None>> \in Seq(Words)
  BY <1>1, WordsOfFunction
<1> HIDE DEF insn, dest, p, entry
<1>8. /\ DOMAIN guest' = Fields
      /\ guest'.processor = guest.processor /\ guest'.started = guest.started
      /\ guest'.trace = guest.trace
      /\ \/ InPatch(guest', "page", p, entry, dest, <<None>>)
         \/ guest'.rip = dest /\ guest'.rdi = "argument" /\ guest'.stack = <<None>>
  BY <1>1, <1>2, <1>3, <1>5, <1>6, <1>7, PatchStep DEF Kept
<1> QED
  BY <1>1, <1>3, <1>8 DEF p, entry, dest, Same, Kept, AtEntry, InCallback

LEMMA FromCallback ==
  ASSUME Runs, CallStub, NEW f \in Functions, InCallback(guest, f)
  PROVE  Same /\ \E n \in Nat : StubMade(f, n) /\ InStub(guest', f, n)
<1> DEFINE p == FunctionPage[f]
           entry == layout.entry[f]
<1>1. layout \in Layouts /\ Kept
  BY DEF Runs, CodeInv
<1>2. entry \in Starts(f) /\ entry \in Nat /\ entry \in Offsets /\ p \in HookedPages
  BY <1>1, FunctionFacts, FunctionCode
<1>3. /\ guest.trace = <<>> /\ guest.rdi = "argument" /\ guest.stack = <<None>>
      /\ guest.rip.n = f
  BY DEF InCallback, Addr
<1>4. LookupJumpStub(Entry(f)) = Addr("stub", f, 0)
  BY CodeOfFunction DEF Runs
<1>5. guest' = [guest EXCEPT !.rip = Addr("stub", f, 0),
                             !.stack = <<Addr("returned", f, 0)>> \o @,
                             !.trace = Append(@, <<"callback", f, guest.rdi>>)]
  BY <1>3, <1>4 DEF CallStub
<1>6. /\ DOMAIN guest' = Fields
      /\ guest'.processor = guest.processor /\ guest'.started = guest.started
      /\ guest'.rip = Addr("stub", f, 0) /\ guest'.rdi = "argument"
      /\ guest'.stack = <<Addr("returned", f, 0)>> \o <<None>>
      /\ guest'.trace = Append(<<>>, Seen(f))
  BY <1>1, <1>3, <1>5 DEF Kept, Fields, Seen
<1>7. Seen(f) \in Facts
  BY DEF Facts, Seen
<1>8. /\ guest'.trace \in Seq(Facts)
      /\ guest'.trace \o Native(p, entry) = Expected(f, entry)
  <2> DEFINE x == Seen(f)
             rest == Native(p, entry)
  <2>1. x \in Facts /\ rest \in Seq(Facts)
    BY <1>1, <1>2, <1>7, NativeTyped
  <2>2. Expected(f, entry) = <<x>> \o rest
    BY DEF Expected
  <2> HIDE DEF x, rest
  <2>3. Append(<<>>, x) = <<x>>
    OBVIOUS
  <2>4. <<x>> \in Seq(Facts)
    BY <2>1
  <2> QED
    BY <1>6, <2>2, <2>3, <2>4 DEF x, rest
<1>9. PICK n \in Nat : StubMade(f, n)
  BY CodeOfFunction DEF Runs
<1>10. entry < entry + n /\ entry - entry = 0
  BY <1>2, <1>9 DEF StubMade, PatchLength
<1>11. AtInsn(guest', "stub", f, entry - entry, f, entry, entry)
  BY <1>6, <1>8, <1>10 DEF AtInsn, Below
<1>12. InStub(guest', f, n)
  BY <1>2, <1>10, <1>11 DEF InStub
<1> QED
  BY <1>6, <1>8, <1>9, <1>12 DEF Same

LEMMA FromStub ==
  ASSUME Runs, Execute, NEW f \in Functions, NEW n \in Nat, StubMade(f, n),
         InStub(guest, f, n)
  PROVE  Same /\ (InStub(guest', f, n) \/ StubEnds(guest', f, n))
<1> DEFINE entry == layout.entry[f]
<1>1. layout \in Layouts /\ Kept
  BY DEF Runs, CodeInv
<1>2. PICK q \in Starts(f) :
        /\ q < entry + n
        /\ AtInsn(guest, "stub", f, q - entry, f, entry, q)
  BY DEF InStub
<1> DEFINE insn == Original(f)[q].insn
<1>3. /\ entry \in Nat /\ q \in Nat /\ q >= entry
      /\ insn.len \in Nat \ {0}
      /\ insn.op # "ret" => q + insn.len \in Starts(f)
      /\ q < entry + PatchLength => insn.op = "plain"
  BY <1>1, FunctionCode
<1>4. stubs[f][q - entry] = Original(f)[q] /\ entry + n \in Starts(f) /\ insn.op = "plain"
  BY <1>2, <1>3 DEF StubMade, Cut
<1>5. guest.rip.area = "stub" /\ guest.rip.n = f /\ guest.rip.off = q - entry
  BY <1>2 DEF AtInsn, Addr
<1>6. guest' = Step(guest.rip, insn)
  BY <1>4, <1>5, Fetches
<1>7. Same /\ AtInsn(guest', "stub", f, (q - entry) + insn.len, f, entry, q + insn.len)
  BY <1>1, <1>2, <1>4, <1>6, InsnStep DEF Kept, Same
<1>8. q + insn.len <= entry + n
  BY <1>1, <1>2, <1>4, NextStart
<1> HIDE DEF insn
<1>9. (q - entry) + insn.len = (q + insn.len) - entry /\ q + insn.len \in Starts(f)
  BY <1>3, <1>4
<1>10. CASE q + insn.len < entry + n
  BY <1>7, <1>9, <1>10 DEF InStub
<1>11. CASE q + insn.len = entry + n
  <2>1. (q - entry) + insn.len = n + 0
    BY <1>3, <1>11
  <2>2. /\ guest'.rip = Addr("stub", f, n + 0) /\ guest'.rdi = "argument"
        /\ guest'.stack = Below(f, entry)
        /\ guest'.trace \o Native(FunctionPage[f], entry + n) = Expected(f, entry)
    BY <1>7, <1>11, <2>1 DEF AtInsn
  <2>4. InPatch(guest', "stub", f, n, Behind(Entry(f), n), Below(f, entry))
    BY <2>2 DEF InPatch
  <2>3. StubEnds(guest', f, n)
    BY <2>2, <2>4 DEF StubEnds
  <2> QED
    BY <1>7, <2>3
<1> QED
  BY <1>3, <1>8, <1>10, <1>11

LEMMA FromStubEnd ==
  ASSUME Runs, Execute, NEW f \in Functions, NEW n \in Nat, StubMade(f, n),
         StubEnds(guest, f, n)
  PROVE  Same /\ (StubEnds(guest', f, n) \/ InFunction(guest', f, layout.entry[f]))
<1> DEFINE entry == layout.entry[f]
           p == FunctionPage[f]
           dest == Behind(Entry(f), n)
           rest == Below(f, entry)
           insn == stubs[f][guest.rip.off].insn
<1>1. layout \in Layouts /\ Kept
  BY DEF Runs, CodeInv
<1>2. entry \in Nat
  BY <1>1, FunctionCode
<1>3. /\ guest.trace \o Native(p, entry + n) = Expected(f, entry)
      /\ InPatch(guest, "stub", f, n, dest, rest)
  BY DEF StubEnds
<1>4. guest.rip.area = "stub" /\ guest.rip.n = f
  BY <1>3 DEF InPatch, Addr
<1>5. guest' = Step(guest.rip, insn)
  BY <1>4, Fetches
<1>6. \A k \in 0 .. (PatchLength - 1) :
        guest.rip.off = n + k => insn = HookPatch(dest)[k].insn
  BY DEF StubMade
<1>7. dest = Addr("page", p, entry + n) /\ dest \in Words /\ rest \in Seq(Words)
  <2>1. dest = Addr("page", p, entry + n) /\ entry + n \in Nat
    BY <1>1, <1>2, WordsOfFunction
  <2> QED
    BY <1>1, <2>1, WordsOfFunction
<1> HIDE DEF insn, dest, rest
<1>8. /\ DOMAIN guest' = Fields
      /\ guest'.processor = guest.processor /\ guest'.started = guest.started
      /\ guest'.trace = guest.trace
      /\ \/ InPatch(guest', "stub", f, n, dest, rest)
         \/ guest'.rip = dest /\ guest'.rdi = "argument" /\ guest'.stack = rest
  BY <1>1, <1>3, <1>5, <1>6, <1>7, PatchStep DEF Kept
<1>9. Same
  BY <1>1, <1>8 DEF Same, Kept
<1>10. CASE InPatch(guest', "stub", f, n, dest, rest)
  BY <1>3, <1>8, <1>9, <1>10 DEF StubEnds, dest, rest
<1>11. CASE guest'.rip = dest /\ guest'.rdi = "argument" /\ guest'.stack = rest
  <2>1. entry + n \in Starts(f) /\ entry + n >= entry + PatchLength
    BY <1>2 DEF StubMade, Cut, PatchLength
  <2>2. AtInsn(guest', "page", p, entry + n, f, entry, entry + n)
    BY <1>3, <1>7, <1>8, <1>11 DEF AtInsn, rest
  <2>3. InFunction(guest', f, entry)
    BY <2>1, <2>2 DEF InFunction
  <2> QED
    BY <1>9, <2>3
<1> QED
  BY <1>8, <1>10, <1>11

LEMMA FromFunction ==
  ASSUME Runs, Execute, NEW f \in Functions, NEW o \in Starts(f), InFunction(guest, f, o)
  PROVE  /\ Same
         /\ \/ InFunction(guest', f, o)
            \/ o # layout.entry[f] /\ Ended(guest', f, o)
            \/ o = layout.entry[f] /\ Returning(guest', f)
<1> DEFINE entry == layout.entry[f]
           p == FunctionPage[f]
<1>1. layout \in Layouts /\ Kept
  BY DEF Runs, CodeInv
<1>2. PICK q \in Starts(f) :
        /\ q >= entry + PatchLength
        /\ AtInsn(guest, "page", p, q, f, o, q)
  BY DEF InFunction
<1> DEFINE insn == Original(f)[q].insn
<1>3. /\ entry \in Nat /\ q \in Nat /\ p \in HookedPages
      /\ insn.len \in Nat \ {0}
      /\ insn.op # "ret" => q + insn.len \in Starts(f)
  BY <1>1, FunctionCode, FunctionFacts
<1>4. execute_page[p][q] = Original(f)[q]
  BY <1>2, CodeOfFunction DEF Runs, PatchedIn, PageOfF
<1>5. guest.rip.area = "page" /\ guest.rip.n = p /\ guest.rip.off = q
  BY <1>2 DEF AtInsn, Addr
<1>6. guest' = Step(guest.rip, insn)
  BY <1>3, <1>4, <1>5, Fetches
<1>7. /\ Same
      /\ IF insn.op = "ret"
           THEN /\ guest'.rip = Head(guest.stack) /\ guest'.stack = Tail(guest.stack)
                /\ guest'.rdi = "argument" /\ guest'.trace = Expected(f, o)
           ELSE AtInsn(guest', "page", p, q + insn.len, f, o, q + insn.len)
  BY <1>1, <1>2, <1>6, InsnStep DEF Kept, Same
<1> HIDE DEF insn
<1>8. CASE insn.op # "ret"
  <2>1. q + insn.len \in Starts(f) /\ q + insn.len >= entry + PatchLength
    BY <1>2, <1>3, <1>8 DEF PatchLength
  <2> QED
    BY <1>7, <1>8, <2>1 DEF InFunction
<1>9. CASE insn.op = "ret"
  <2>1. guest.stack = Below(f, o)
    BY <1>2 DEF AtInsn
  <2>2. CASE o = entry
    <3>1. guest.stack = <<Addr("returned", f, 0)>> \o <<None>>
      BY <2>1, <2>2 DEF Below
    <3>2. Addr("returned", f, 0) \in Words /\ <<None>> \in Seq(Words)
      BY <1>1, WordsOfFunction
    <3>3. Head(guest.stack) = Addr("returned", f, 0) /\ Tail(guest.stack) = <<None>>
      BY <3>1, <3>2, PushAndPop
    <3> QED
      BY <1>7, <1>9, <2>2, <3>3 DEF Returning
  <2>3. CASE o # entry
    <3>1. guest.stack = <<None>>
      BY <2>1, <2>3 DEF Below
    <3>2. Head(guest.stack) = None /\ Tail(guest.stack) = <<>>
      BY <3>1
    <3> QED
      BY <1>7, <1>9, <2>3, <3>2 DEF Ended
  <2> QED
    BY <2>2, <2>3
<1> QED
  BY <1>8, <1>9

LEMMA FromReturn ==
  ASSUME Runs, CallbackReturns, NEW f \in Functions, Returning(guest, f)
  PROVE  Same /\ Ended(guest', f, layout.entry[f])
<1>1. guest' = [guest EXCEPT !.rip = Head(guest.stack), !.stack = Tail(@)]
  BY DEF CallbackReturns
<1>2. /\ guest.trace = Expected(f, layout.entry[f]) /\ guest.rdi = "argument"
      /\ guest.stack = <<None>>
  BY DEF Returning
<1>3. Head(guest.stack) = None /\ Tail(guest.stack) = <<>>
  BY <1>2
<1> QED
  BY <1>1, <1>2, <1>3 DEF Runs, Kept, Same, Ended, Fields

(* Where a thread is on its way depends on it and on the code alone.        *)
LEMMA SameWay ==
  ASSUME UNCHANGED <<layout, stubs>>, NEW f, NEW o, OnItsWay(guest', f, o)
  PROVE  OnItsWay(guest, f, o)'
<1>1. /\ layout' = layout /\ Starts(f)' = Starts(f) /\ Entry(f)' = Entry(f)
      /\ \A q : Below(f, q)' = Below(f, q) /\ Expected(f, q)' = Expected(f, q)
      /\ \A p, q : Native(p, q)' = Native(p, q)
      /\ \A n : StubMade(f, n)' <=> StubMade(f, n)
  BY SameCode, SameNative DEF StubMade, Cut, Original, Entry, Starts
<1>2. InFunction(guest', f, o) => InFunction(guest, f, o)'
  BY <1>1 DEF InFunction, AtInsn
<1>3. Ended(guest', f, o) => Ended(guest, f, o)'
  BY <1>1 DEF Ended
<1>4. AtEntry(guest', f) => AtEntry(guest, f)'
  BY <1>1 DEF AtEntry, InPatch
<1>5. InCallback(guest', f) => InCallback(guest, f)'
  BY <1>1 DEF InCallback
<1>6. ASSUME NEW n \in Nat, StubMade(f, n), InStub(guest', f, n)
      PROVE  StubMade(f, n)' /\ InStub(guest, f, n)'
  BY <1>1, <1>6 DEF InStub, AtInsn
<1>7. ASSUME NEW n \in Nat, StubMade(f, n), StubEnds(guest', f, n)
      PROVE  StubMade(f, n)' /\ StubEnds(guest, f, n)'
  BY <1>1, <1>7 DEF StubEnds, InPatch
<1>8. Returning(guest', f) => Returning(guest, f)'
  BY <1>1 DEF Returning
<1> QED
  BY <1>1, <1>2, <1>3, <1>4, <1>5, <1>6, <1>7, <1>8 DEF OnItsWay

LEMMA ThreadGoesOn ==
  ASSUME UNCHANGED <<layout, stubs>>, Same, guest.processor \in Processors,
         NEW f \in Functions, NEW o \in Starts(f), OnItsWay(guest', f, o)
  PROVE  Thread(guest)'
<1>1. OnItsWay(guest, f, o)'
  BY SameWay
<1>2. Facts' = Facts /\ Starts(f)' = Starts(f)
  BY SameFacts, SameCode
<1> QED
  BY <1>1, <1>2 DEF Thread, Same

(* A thread that starts. *)
LEMMA ThreadBegins ==
  ASSUME CodeInv, NEW f \in Functions, NEW o, NEW c \in Processors, Begin(f, o, c)
  PROVE  Thread(guest)'
<1> DEFINE entry == layout.entry[f]
           p == FunctionPage[f]
<1>1. layout \in Layouts /\ p \in HookedPages
  BY FunctionFacts DEF CodeInv
<1>2. /\ UNCHANGED <<layout, stubs>>
      /\ o \in Starts(f) /\ (o = entry \/ o >= entry + PatchLength)
      /\ guest' = [Idle EXCEPT !.rip = Addr("page", p, o), !.stack = <<None>>,
                               !.started = [function |-> f, off |-> o],
                               !.processor = c]
  BY DEF Begin, install, Starts, Original
<1>3. /\ DOMAIN guest' = Fields /\ guest'.rip = Addr("page", p, o)
      /\ guest'.stack = <<None>> /\ guest'.rdi = "argument" /\ guest'.trace = <<>>
      /\ guest'.started = [function |-> f, off |-> o] /\ guest'.processor = c
  BY <1>2 DEF Idle, Fields
<1>4. entry \in Nat /\ o \in Nat /\ Native(p, o) \in Seq(Facts)
  BY <1>1, <1>2, FunctionCode, NativeTyped
<1>5. OnItsWay(guest', f, o)
  <2>1. CASE o = entry
    <3>1. guest'.rip = Addr("page", p, entry + 0)
      BY <1>3, <1>4, <2>1
    <3>2. InPatch(guest', "page", p, entry, Addr("callback", f, 0), <<None>>)
      BY <1>3, <3>1 DEF InPatch
    <3>3. AtEntry(guest', f)
      BY <1>3, <3>2 DEF AtEntry
    <3> QED
      BY <1>3, <2>1, <3>3 DEF OnItsWay
  <2>2. CASE o # entry
    <3>1. o >= entry + PatchLength /\ Below(f, o) = <<None>> /\ Expected(f, o) = Native(p, o)
      BY <1>2, <2>2 DEF Below, Expected
    <3>2. guest'.trace \o Native(p, o) = Native(p, o)
      BY <1>3, <1>4, ConcatEmptySeq
    <3>3. AtInsn(guest', "page", p, o, f, o, o)
      BY <1>3, <3>1, <3>2 DEF AtInsn
    <3>4. InFunction(guest', f, o)
      BY <1>2, <3>1, <3>3 DEF InFunction
    <3> QED
      BY <1>2, <1>3, <3>4 DEF OnItsWay
  <2> QED
    BY <2>1, <2>2
<1>6. OnItsWay(guest, f, o)'
  BY <1>2, <1>5, SameWay
<1>7. Starts(f)' = Starts(f)
  BY <1>2, SameCode
<1>8. (guest.trace \in Seq(Facts))'
  BY <1>3
<1> QED
  BY <1>2, <1>3, <1>6, <1>7, <1>8 DEF Thread

(* Which of the places on its way a thread can leave by which step.         *)
LEMMA AreasOnTheWay ==
  ASSUME NEW f \in Functions, NEW o, NEW n
  PROVE  /\ InFunction(guest, f, o) \/ AtEntry(guest, f) => guest.rip.area = "page"
         /\ InStub(guest, f, n) \/ StubEnds(guest, f, n) => guest.rip.area = "stub"
         /\ InCallback(guest, f) => guest.rip.area = "callback"
         /\ Returning(guest, f) => guest.rip.area = "returned"
         /\ Ended(guest, f, o) => guest.rip = None
<1>1. \A area, m, off, dest, rest :
        InPatch(guest, area, m, off, dest, rest) => guest.rip.area = area
  BY DEF InPatch, Addr
<1>2. \A area, m, off, q : AtInsn(guest, area, m, off, f, o, q) => guest.rip.area = area
  BY DEF AtInsn, Addr
<1>3. \A off, q : AtInsn(guest, "stub", f, off, f, layout.entry[f], q) => guest.rip.area = "stub"
  BY DEF AtInsn, Addr
<1>4. InFunction(guest, f, o) \/ AtEntry(guest, f) => guest.rip.area = "page"
  BY <1>1, <1>2 DEF InFunction, AtEntry
<1>5. InStub(guest, f, n) \/ StubEnds(guest, f, n) => guest.rip.area = "stub"
  BY <1>1, <1>3 DEF InStub, StubEnds
<1>6. /\ InCallback(guest, f) => guest.rip.area = "callback"
      /\ Returning(guest, f) => guest.rip.area = "returned"
      /\ Ended(guest, f, o) => guest.rip = None
  BY DEF InCallback, Returning, Ended, Addr
<1> QED
  BY <1>4, <1>5, <1>6

(* Before it has returned a thread is at some address. *)
LEMMA NotReturned ==
  ASSUME layout \in Layouts, NEW f \in Functions, guest.rip = None
  PROVE  /\ \A o : ~InFunction(guest, f, o)
         /\ ~AtEntry(guest, f) /\ ~InCallback(guest, f) /\ ~Returning(guest, f)
         /\ \A n \in Nat : ~InStub(guest, f, n) /\ ~StubEnds(guest, f, n)
<1>1. \A area \in {"page", "stub", "callback", "returned"},
         n \in Functions \cup HookedPages, off \in Nat : Addr(area, n, off) # None
  BY NoneAssumption DEF Addrs, Addr
<1>2. /\ f \in Functions \cup HookedPages /\ FunctionPage[f] \in Functions \cup HookedPages
      /\ layout.entry[f] \in Nat
      /\ \A q \in Starts(f) : q \in Nat /\ q - layout.entry[f] \in Nat
  BY FunctionFacts, FunctionCode
<1>3. ASSUME NEW area \in {"page", "stub"}, NEW n \in Functions \cup HookedPages,
             NEW off \in Nat, NEW dest, NEW rest
      PROVE  ~InPatch(guest, area, n, off, dest, rest)
  <2>1. \A k \in {0, 1, 11, 15} : Addr(area, n, off + k) # None
    BY <1>1
  <2> QED
    BY <2>1 DEF InPatch
<1>4. \A o : ~InFunction(guest, f, o)
  BY <1>1, <1>2 DEF InFunction, AtInsn
<1>5. ~AtEntry(guest, f)
  BY <1>2, <1>3 DEF AtEntry
<1>6. ~InCallback(guest, f) /\ ~Returning(guest, f)
  BY <1>1, <1>2 DEF InCallback, Returning
<1>7. \A n \in Nat : ~InStub(guest, f, n)
  BY <1>1, <1>2 DEF InStub, AtInsn
<1>8. \A n \in Nat : ~StubEnds(guest, f, n)
  BY <1>2, <1>3 DEF StubEnds
<1> QED
  BY <1>4, <1>5, <1>6, <1>7, <1>8

LEMMA ThreadRuns ==
  ASSUME Runs, Run, ThreadInv
  PROVE  Thread(guest)'
<1>1. guest.rip # None /\ UNCHANGED <<layout, stubs>>
  BY DEF Run, Execute, CallStub, CallbackReturns, install
<1>a. PICK f \in Functions : \E o \in Starts(f) : OnItsWay(guest, f, o)
  BY <1>1 DEF ThreadInv, Thread
<1>2. PICK o \in Starts(f) : OnItsWay(guest, f, o)
  BY <1>a
<1> DEFINE entry == layout.entry[f]
<1>3. /\ guest.started = [function |-> f, off |-> o]
      /\ o = entry \/ o >= entry + PatchLength
  BY <1>2 DEF OnItsWay
<1>4. Same /\ OnItsWay(guest', f, o)
  <2>1. CASE InFunction(guest, f, o)
    <3>1. Execute
      BY <2>1, AreasOnTheWay DEF Run, CallStub, CallbackReturns
    <3>2. /\ Same
          /\ \/ InFunction(guest', f, o)
             \/ Ended(guest', f, o)
             \/ o = entry /\ Returning(guest', f)
      BY <2>1, <3>1, FromFunction
    <3> QED
      BY <1>3, <3>2 DEF OnItsWay, Same
  <2>2. CASE Ended(guest, f, o)
    BY <1>1, <2>2 DEF Ended
  <2>3. CASE o = entry /\ AtEntry(guest, f)
    <3>1. Execute
      BY <2>3, AreasOnTheWay DEF Run, CallStub, CallbackReturns
    <3>2. Same /\ (AtEntry(guest', f) \/ InCallback(guest', f))
      BY <2>3, <3>1, FromEntry
    <3> QED
      BY <1>3, <2>3, <3>2 DEF OnItsWay, Same
  <2>4. CASE o = entry /\ InCallback(guest, f)
    <3>1. CallStub
      BY <2>4, AreasOnTheWay DEF Run, Execute, CallbackReturns
    <3>2. Same /\ \E n \in Nat : StubMade(f, n) /\ InStub(guest', f, n)
      BY <2>4, <3>1, FromCallback
    <3> QED
      BY <1>3, <2>4, <3>2 DEF OnItsWay, Same
  <2>5. ASSUME o = entry, NEW n \in Nat, StubMade(f, n),
               InStub(guest, f, n) \/ StubEnds(guest, f, n)
        PROVE  Same /\ OnItsWay(guest', f, o)
    <3>1. Execute
      BY <2>5, AreasOnTheWay DEF Run, CallStub, CallbackReturns
    <3>2. /\ Same
          /\ \/ InStub(guest', f, n)
             \/ StubEnds(guest', f, n)
             \/ InFunction(guest', f, o)
      BY <2>5, <3>1, FromStub, FromStubEnd
    <3> QED
      BY <1>3, <2>5, <3>2 DEF OnItsWay, Same
  <2>6. CASE o = entry /\ Returning(guest, f)
    <3>1. CallbackReturns
      BY <2>6, AreasOnTheWay DEF Run, Execute, CallStub
    <3>2. Same /\ Ended(guest', f, o)
      BY <2>6, <3>1, FromReturn
    <3> QED
      BY <1>3, <3>2 DEF OnItsWay, Same
  <2> QED
    BY <1>2, <2>1, <2>2, <2>3, <2>4, <2>5, <2>6 DEF OnItsWay
<1> QED
  BY <1>1, <1>4, ThreadGoesOn DEF Runs, Kept

LEMMA ThreadStutters ==
  ASSUME ThreadInv, UNCHANGED <<layout, stubs, guest>>
  PROVE  Thread(guest)'
<1>1. CASE guest.rip = None /\ guest.started = None
  BY <1>1, SameFacts DEF ThreadInv, Thread
<1>2. ASSUME NEW f \in Functions, NEW o \in Starts(f), OnItsWay(guest, f, o)
      PROVE  Thread(guest)'
  <2>1. OnItsWay(guest', f, o)
    BY <1>2
  <2>2. Same
    BY DEF ThreadInv, Thread, Same
  <2> QED
    BY <2>1, <2>2, ThreadGoesOn DEF ThreadInv, Thread
<1> QED
  BY <1>1, <1>2 DEF ThreadInv, Thread

LEMMA ThreadInvariant == Spec => []ThreadInv
<1>1. Init => ThreadInv
  <2> SUFFICES ASSUME Init PROVE ThreadInv
    OBVIOUS
  <2>1. guest = Idle /\ 0 \in Processors
    BY CountAssumption DEF Init, Processors
  <2> QED
    BY <2>1 DEF Idle, ThreadInv, Thread, Fields
<1>2. ThreadInv /\ CodeInv /\ TablesInv /\ [Next]_vars => ThreadInv'
  <2> SUFFICES ASSUME ThreadInv, CodeInv, TablesInv, [Next]_vars PROVE ThreadInv'
    OBVIOUS
  <2>1. Counters /\ AllHooked
    BY HooksAll DEF TablesInv
  <2>2. CASE Install
    <3>1. guest' = guest /\ layout' = layout /\ at # "running"
      BY <2>2 DEF Install, AddToHookedPage, NewEptHook, Scan, InstallPatch, MapOnProcessor,
                  HookMade, Installed
    <3>2. guest.rip = None /\ guest.started = None
      BY <3>1 DEF ThreadInv
    <3> QED
      BY <3>1, <3>2, SameFacts DEF ThreadInv, Thread
  <2>3. CASE Run
    <3>1. guest.rip # None /\ at' = at
      BY <2>3 DEF Run, Execute, CallStub, CallbackReturns
    <3>2. at = "running"
      BY <3>1 DEF ThreadInv
    <3>3. Runs
      BY <2>1, <3>2 DEF Runs, Kept, ThreadInv, Thread
    <3> QED
      BY <2>3, <3>1, <3>2, <3>3, ThreadRuns DEF ThreadInv
  <2>4. CASE \E f \in Functions, o \in Offsets, c \in Processors : Begin(f, o, c)
    <3>1. at = "running" /\ at' = at
      BY <2>4 DEF Begin
    <3> QED
      BY <2>4, <3>1, ThreadBegins DEF ThreadInv
  <2>5. CASE UNCHANGED vars
    BY <2>5, ThreadStutters DEF vars, install, ThreadInv
  <2> QED
    BY <2>2, <2>3, <2>4, <2>5 DEF Next
<1> QED
  BY <1>1, <1>2, CodeInvariant, TablesInvariant, PTL DEF Spec

(* However many functions share a page, whatever their instructions and on  *)
(* whichever processor: a call of a hooked function runs its callback once  *)
(* with the caller's registers and then exactly the instructions of the     *)
(* original, through the stub of this very function and back behind the     *)
(* patch, and a thread interrupted in the middle goes on unaware.           *)
THEOREM HookedCallsComplete == Spec => []CallsIntercepted
<1>1. ThreadInv /\ CodeInv => CallsIntercepted
  <2> SUFFICES ASSUME ThreadInv, CodeInv, guest.rip = None, guest.started # None
               PROVE  LET f == guest.started.function
                          off == guest.started.off
                          original == Native(FunctionPage[f], off)
                      IN  /\ guest.stack = <<>>
                          /\ guest.rdi = "argument"
                          /\ guest.trace =
                               IF off = layout.entry[f]
                                 THEN <<<<"callback", f, "argument">>>> \o original
                                 ELSE original
    BY DEF CallsIntercepted
  <2>0. PICK f \in Functions : \E o \in Starts(f) : OnItsWay(guest, f, o)
    BY DEF ThreadInv, Thread
  <2>1. PICK o \in Starts(f) : OnItsWay(guest, f, o)
    BY <2>0
  <2>2. guest.started.function = f /\ guest.started.off = o
    BY <2>1 DEF OnItsWay
  <2>3. Ended(guest, f, o)
    BY <2>1, NotReturned DEF OnItsWay, CodeInv
  <2> QED
    BY <2>2, <2>3 DEF Ended, Expected, Seen
<1> QED
  BY <1>1, ThreadInvariant, CodeInvariant, PTL
=============================================================================
