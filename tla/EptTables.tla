----------------------------- MODULE EptTables -----------------------------
(***************************************************************************)
(* The extended page tables of one processor, as values: what setup_ept    *)
(* builds, what split_large_pdte makes of one entry, and where the         *)
(* processor's walk then leads.                                            *)
(*                                                                         *)
(* A guest physical page is its number, the address shifted right by 12.   *)
(* A table is large_pdt, a function of two indices; an entry maps a large  *)
(* page of as many small ones as a table has entries, or, once it is       *)
(* split, names a table of entries for small pages.                        *)
(***************************************************************************)
EXTENDS Integers

CONSTANT EptTableEntries  (* EPT_TABLE_ENTRIES and SPLIT_LARGE_PDE_PAGES,  *)
                          (* both 512.                                     *)

ASSUME EntriesAssumption == EptTableEntries \in Nat \ {0}

Index == 0 .. (EptTableEntries - 1)

(* What the tables map: 512 GB.  The page-map level 4 has one entry.        *)
MappedPages ==
  0 .. (EptTableEntries * EptTableEntries * EptTableEntries - 1)

LargePdtes == [large : {TRUE}, read : {TRUE}, write : {TRUE},
               execute : {TRUE}, type : {"WB"}, pfn : Nat]
Ptes == [read : BOOLEAN, write : BOOLEAN, execute : BOOLEAN, type : {"UC"},
         pfn : Nat]
Pdtes == [large : {FALSE}, pt : [Index -> Ptes]]
Tables == [Index -> [Index -> LargePdtes \cup Pdtes]]

(* setup_ept: every large page is mapped to itself. *)
SetupEpt ==
  [i \in Index |-> [j \in Index |->
     [large |-> TRUE, read |-> TRUE, write |-> TRUE, execute |-> TRUE,
      type |-> "WB", pfn |-> i * EptTableEntries + j]]]

(* The entry of a page in large_pdt, and the index below it. *)
LargeIndex(page) == page \div EptTableEntries
Pdpt(page) == LargeIndex(page) \div EptTableEntries
Pdt(page) == LargeIndex(page) % EptTableEntries
Pt(page) == page % EptTableEntries

(* Mutant: a split entry is split again, from the bits of a Pdte. *)
SplitAlways(pde) ==
  [large |-> FALSE,
   pt |-> [k \in Index |->
             [read |-> TRUE, write |-> TRUE, execute |-> TRUE, type |-> "UC",
              pfn |-> (IF pde.large THEN pde.pfn * EptTableEntries ELSE 0)
                        + k]]]

(* The memory type of the small pages is left zero, which is uncacheable.   *)
SplitLargePdte(pde) ==
  IF ~pde.large
    THEN pde
    ELSE [large |-> FALSE,
          pt |-> [k \in Index |->
                    [read |-> TRUE, write |-> TRUE, execute |-> TRUE,
                     type |-> "UC", pfn |-> pde.pfn * EptTableEntries + k]]]

SplitAt(table, page) ==
  [table EXCEPT ![Pdpt(page)][Pdt(page)] = SplitLargePdte(@)]

(* The four fields an EptHook gives the entry of its page. *)
ExecuteOnly(pte, frame) ==
  [pte EXCEPT !.read = FALSE, !.write = FALSE, !.execute = TRUE, !.pfn = frame]

(* The body of the loop over the processors in EptHook's constructor. *)
HookPage(table, page, frame) ==
  [SplitAt(table, page) EXCEPT
     ![Pdpt(page)][Pdt(page)].pt[Pt(page)] = ExecuteOnly(@, frame)]

(* The walk of the processor for a page: its rights and the frame it gets.  *)
Walk(table, page) ==
  LET entry == table[Pdpt(page)][Pdt(page)]
      leaf == IF entry.large THEN entry ELSE entry.pt[Pt(page)]
  IN  [read |-> leaf.read, write |-> leaf.write, execute |-> leaf.execute,
       frame |-> IF entry.large
                   THEN entry.pfn * EptTableEntries + Pt(page)
                   ELSE leaf.pfn]

(* The view a page has without a hook, and with one. *)
Identity(page) == [read |-> TRUE, write |-> TRUE, execute |-> TRUE,
                   frame |-> page]
Hooked(frame) == [read |-> FALSE, write |-> FALSE, execute |-> TRUE,
                  frame |-> frame]
=============================================================================
