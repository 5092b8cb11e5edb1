----------------------- MODULE MonitoredDriversProofs -----------------------
(***************************************************************************)
(* Proofs about MonitoredDrivers: with any number of copies of             *)
(* KernelMon.exe, hooked calls, slots and names, a search without a lock   *)
(* finds what stays in the table; and with one copy no block is leaked.    *)
(***************************************************************************)
EXTENDS MonitoredDrivers, FiniteSetTheorems, FunctionTheorems, SequenceTheorems,
        WellFoundedInduction, TLAPS

-----------------------------------------------------------------------------
(* Types. *)

(* Where an actor is about to use its slot, its pointer or the name in its  *)
(* request, it has one.                                                     *)
UsesSlot ==
  {"add_store", "add_copy", "remove_free", "remove_null", "reset_null", "compare"}
Adding == {"add_scan", "add_store", "add_copy"}
InRange ==
  /\ \A x \in Actors : pc[x] \in UsesSlot => slot[x] \in Slots
  /\ \A h \in Hooks : pc[h] = "compare" => held[h] \in Blocks
  /\ \A c \in Clients : pc[c] \in Adding => request[c].name \in Names

(* All of TypeOK but the window's list, which has a proof of its own below. *)
TablesTyped ==
  /\ table \in [Slots -> Blocks \cup {Null}]
  /\ memory \in [Blocks -> Names \cup {Unwritten, Freed}]
  /\ pc \in [Actors -> ClientPlaces \cup HookPlaces]
  /\ slot \in [Actors -> 0 .. MaxMonitored]
  /\ session \in [Clients -> {"none", "gui", "console"}]
  /\ request \in [Clients -> Requests]
  /\ caller \in [Hooks -> Names]
  /\ held \in [Hooks -> Blocks \cup {Null}]
  /\ kept \in [Hooks -> SUBSET Slots]
TypeInv == TablesTyped /\ InRange

LEMMA SlotFacts ==
  /\ MaxMonitored \in Nat /\ MaxMonitored > 0
  /\ Slots \subseteq 0 .. MaxMonitored
  /\ 0 \in 0 .. MaxMonitored
  /\ \A i \in Slots : i + 1 \in 0 .. MaxMonitored
  /\ \A i \in 0 .. MaxMonitored : i # MaxMonitored => i \in Slots
  /\ Clients \subseteq Actors /\ Hooks \subseteq Actors
BY MaxAssumption DEF Slots, Actors

LEMMA TypeInit == Init => TypeInv
<1> SUFFICES ASSUME Init PROVE TypeInv
  OBVIOUS
<1>1. TablesTyped
  BY SlotFacts DEF Init, TablesTyped, Requests, ClientPlaces, HookPlaces
<1>2. InRange
  BY SlotFacts DEF Init, InRange, UsesSlot, Adding
<1> QED
  BY <1>1, <1>2 DEF TypeInv

(* A step of an actor that goes from one place to another.                  *)
LEMMA GoesTyped ==
  ASSUME TypeInv, NEW x \in Actors, NEW from, NEW to \in ClientPlaces \cup HookPlaces,
         Goto(x, from, to),
         slot' \in [Actors -> 0 .. MaxMonitored],
         \A y \in Actors \ {x} : slot'[y] = slot[y],
         to \in UsesSlot => slot'[x] \in Slots,
         \A h \in Hooks \ {x} : held'[h] = held[h],
         x \in Hooks /\ to = "compare" => held'[x] \in Blocks,
         \A c \in Clients \ {x} : request'[c] = request[c],
         x \in Clients /\ to \in Adding => request'[x].name \in Names
  PROVE  /\ pc' \in [Actors -> ClientPlaces \cup HookPlaces]
         /\ InRange'
<1>1. pc \in [Actors -> ClientPlaces \cup HookPlaces]
  BY DEF TypeInv, TablesTyped
<1>2. pc' \in [Actors -> ClientPlaces \cup HookPlaces]
  BY <1>1 DEF Goto
<1>3. ASSUME NEW y \in Actors, pc'[y] \in UsesSlot
      PROVE  slot'[y] \in Slots
  <2>1. CASE y = x
    BY <2>1, <1>1, <1>3 DEF Goto
  <2>2. CASE y # x
    BY <2>2, <1>1, <1>3 DEF Goto, TypeInv, InRange
  <2> QED
    BY <2>1, <2>2
<1>4. ASSUME NEW h \in Hooks, pc'[h] = "compare"
      PROVE  held'[h] \in Blocks
  <2>1. CASE h = x
    BY <2>1, <1>1, <1>4, SlotFacts DEF Goto
  <2>2. CASE h # x
    BY <2>2, <1>1, <1>4, SlotFacts DEF Goto, TypeInv, InRange
  <2> QED
    BY <2>1, <2>2
<1>5. ASSUME NEW c \in Clients, pc'[c] \in Adding
      PROVE  request'[c].name \in Names
  <2>1. CASE c = x
    BY <2>1, <1>1, <1>5, SlotFacts DEF Goto
  <2>2. CASE c # x
    BY <2>2, <1>1, <1>5, SlotFacts DEF Goto, TypeInv, InRange
  <2> QED
    BY <2>1, <2>2
<1> QED
  BY <1>2, <1>3, <1>4, <1>5 DEF InRange

(* What a step of a request does to the rest of the state.                  *)
PoolTyped ==
  /\ table' \in [Slots -> Blocks \cup {Null}]
  /\ memory' \in [Blocks -> Names \cup {Unwritten, Freed}]
  /\ kept' \in [Hooks -> SUBSET Slots]
OthersTyped ==
  /\ session' \in [Clients -> {"none", "gui", "console"}]
  /\ request' \in [Clients -> Requests]
  /\ caller' \in [Hooks -> Names]
  /\ held' \in [Hooks -> Blocks \cup {Null}]

LEMMA ChangeTyped ==
  ASSUME TypeInv, ChangePool
  PROVE  /\ OthersTyped
         /\ kept' \in [Hooks -> SUBSET Slots]
         /\ held' = held
BY DEF ChangePool, Remember, TypeInv, TablesTyped, OthersTyped, client

LEMMA AtTyped ==
  ASSUME TypeInv, NEW x \in Actors, NEW i \in 0 .. MaxMonitored, At(x, i)
  PROVE  /\ slot' \in [Actors -> 0 .. MaxMonitored]
         /\ \A y \in Actors \ {x} : slot'[y] = slot[y]
         /\ slot'[x] = i
BY DEF TypeInv, TablesTyped, At

LEMMA IoctlTyped ==
  ASSUME TypeInv, NEW c \in Clients, Ioctl(c)
  PROVE  TypeInv'
<1> USE SlotFacts
<1>a. \A h \in Hooks : h # c
  BY ActorAssumption
<1>b. TablesTyped /\ InRange /\ c \in Actors
  BY DEF TypeInv
<1>c. {"returning", "add_scan", "add_store", "add_copy", "remove_check",
       "remove_free", "remove_null", "reset_free", "reset_null"} \subseteq ClientPlaces
  BY DEF ClientPlaces
<1>d. ASSUME NEW from, NEW to \in ClientPlaces, Goto(c, from, to),
             slot' \in [Actors -> 0 .. MaxMonitored],
             \A y \in Actors \ {c} : slot'[y] = slot[y],
             to \in UsesSlot => slot'[c] \in Slots,
             to \in Adding => from \in Adding,
             held' = held, request' = request, PoolTyped, OthersTyped
      PROVE  TypeInv'
  <2>1. pc[c] = from
    BY <1>d DEF Goto
  <2>2. to \in Adding => request'[c].name \in Names
    BY <2>1, <1>b, <1>d DEF InRange
  <2> QED
    BY <2>2, <1>a, <1>d, GoesTyped DEF TypeInv, TablesTyped, PoolTyped, OthersTyped
<1>e. ASSUME UNCHANGED <<pool, client, search>>
      PROVE  PoolTyped /\ OthersTyped /\ held' = held /\ request' = request
  BY <1>b, <1>e DEF TablesTyped, PoolTyped, OthersTyped, pool, client, search
<1>f. UNCHANGED slot => /\ slot' \in [Actors -> 0 .. MaxMonitored]
                        /\ \A y \in Actors \ {c} : slot'[y] = slot[y]
  BY <1>b DEF TablesTyped
<1>g. ChangePool => OthersTyped /\ kept' \in [Hooks -> SUBSET Slots]
                      /\ held' = held /\ request' = request
  BY ChangeTyped DEF ChangePool, client
<1>1. CASE AddScan(c)
  BY <1>1, <1>c, <1>d, <1>e, AtTyped DEF AddScan, UsesSlot, Adding
<1>2. CASE AddFound(c)
  BY <1>2, <1>c, <1>d, <1>e, <1>f DEF AddFound, Adding
<1>3. CASE AddStore(c)
  <2>1. /\ Goto(c, "add_store", "add_copy") /\ slot[c] \in Slots
        /\ ChangePool /\ slot' = slot
    BY <1>3, <1>b DEF AddStore, InRange, UsesSlot, Goto
  <2>2. PoolTyped
    BY <1>3, <1>b, <2>1, <1>g DEF AddStore, TablesTyped, PoolTyped
  <2> QED
    BY <2>1, <2>2, <1>c, <1>d, <1>f, <1>g DEF Adding
<1>4. CASE AddCopy(c)
  <2>1. /\ Goto(c, "add_copy", "returning") /\ slot[c] \in Slots
        /\ ChangePool /\ slot' = slot /\ request[c].name \in Names
    BY <1>4, <1>b DEF AddCopy, InRange, UsesSlot, Adding, Goto
  <2>2. PoolTyped
    BY <1>4, <1>b, <2>1, <1>g DEF AddCopy, TablesTyped, PoolTyped
  <2> QED
    BY <2>1, <2>2, <1>c, <1>d, <1>f, <1>g DEF UsesSlot, Adding
<1>5. CASE RemovePass(c)
  BY <1>5, <1>c, <1>d, <1>e, AtTyped DEF RemovePass, UsesSlot, Adding
<1>6. CASE RemoveMatch(c)
  BY <1>6, <1>c, <1>d, <1>e, <1>f DEF RemoveMatch, Adding
<1>h. ASSUME Delete(c), slot[c] \in Slots
      PROVE  PoolTyped /\ OthersTyped /\ held' = held /\ request' = request /\ slot' = slot
  <2>1. ChangePool /\ slot' = slot
    BY <1>h DEF Delete
  <2>2. PoolTyped
    BY <1>h, <1>b, <2>1, <1>g DEF Delete, TablesTyped, PoolTyped
  <2> QED
    BY <2>1, <2>2, <1>g
<1>i. ASSUME Clear(c), slot[c] \in Slots
      PROVE  /\ PoolTyped /\ OthersTyped /\ held' = held /\ request' = request
             /\ At(c, slot[c] + 1)
  <2>1. ChangePool /\ At(c, slot[c] + 1)
    BY <1>i DEF Clear
  <2>2. PoolTyped
    BY <1>i, <1>b, <2>1, <1>g DEF Clear, TablesTyped, PoolTyped
  <2> QED
    BY <2>1, <2>2, <1>g
<1>7. CASE RemoveFree(c)
  <2>1. Goto(c, "remove_free", "remove_null") /\ slot[c] \in Slots
    BY <1>7, <1>b DEF RemoveFree, InRange, UsesSlot, Goto
  <2> QED
    BY <1>7, <2>1, <1>c, <1>d, <1>f, <1>h DEF RemoveFree, Adding
<1>8. CASE RemoveNull(c)
  <2>1. Goto(c, "remove_null", "remove_check") /\ slot[c] \in Slots
    BY <1>8, <1>b DEF RemoveNull, InRange, UsesSlot, Goto
  <2> QED
    BY <1>8, <2>1, <1>c, <1>d, <1>i, AtTyped DEF RemoveNull, UsesSlot, Adding
<1>9. CASE ResetFree(c)
  BY <1>9, <1>c, <1>d, <1>f, <1>h DEF ResetFree, Adding
<1>10. CASE ResetNull(c)
  <2>1. Goto(c, "reset_null", "reset_free") /\ slot[c] \in Slots
    BY <1>10, <1>b DEF ResetNull, InRange, UsesSlot, Goto
  <2> QED
    BY <1>10, <2>1, <1>c, <1>d, <1>i, AtTyped DEF ResetNull, UsesSlot, Adding
<1>11. CASE LoopEnds(c)
  BY <1>11, <1>c, <1>d, <1>e, <1>f DEF LoopEnds, UsesSlot, Adding
<1> QED
  BY <1>1, <1>2, <1>3, <1>4, <1>5, <1>6, <1>7, <1>8, <1>9, <1>10, <1>11 DEF Ioctl

LEMMA UserTyped ==
  ASSUME TypeInv, NEW c \in Clients, User(c)
  PROVE  TypeInv'
<1> USE SlotFacts
<1>a. \A h \in Hooks : h # c
  BY ActorAssumption
<1>b. TablesTyped /\ InRange /\ c \in Actors
  BY DEF TypeInv
<1>c. {"idle", "add_scan", "remove_check", "reset_free"} \subseteq ClientPlaces
  BY DEF ClientPlaces
<1>d. ASSUME NEW to \in {"add_scan", "remove_check", "reset_free"}, NEW op, NEW n,
             Send(c, to, op, n), to \in Adding => n \in Names,
             [op |-> op, name |-> n] \in Requests,
             session' \in [Clients -> {"none", "gui", "console"}]
      PROVE  TypeInv'
  <2>1. /\ Goto(c, "idle", to) /\ At(c, 0)
        /\ request' = [request EXCEPT ![c] = [op |-> op, name |-> n]]
        /\ table' = table /\ memory' = memory
        /\ caller' = caller /\ held' = held /\ kept' = kept
    BY <1>d DEF Send, pool, search
  <2>2. request' \in [Clients -> Requests] /\ request'[c].name = n
        /\ \A d \in Clients \ {c} : request'[d] = request[d]
    BY <2>1, <1>b, <1>d DEF TablesTyped
  <2>3. to \notin UsesSlot
    BY DEF UsesSlot
  <2> QED
    BY <2>1, <2>2, <2>3, <1>a, <1>b, <1>c, <1>d, GoesTyped, AtTyped
    DEF TypeInv, TablesTyped
<1>1. CASE \E mode \in {"gui", "console"} : Start(c, mode)
  <2>1. [op |-> "reset", name |-> Null] \in Requests
    BY DEF Requests
  <2> QED
    BY <1>1, <2>1, <1>b, <1>d DEF Start, TablesTyped, Adding
<1>2. CASE \E n \in Names : ClickAdd(c, n) \/ ConsoleAdd(c, n) \/ ClickRemove(c, n)
  <2>1. PICK n \in Names : ClickAdd(c, n) \/ ConsoleAdd(c, n) \/ ClickRemove(c, n)
    BY <1>2
  <2>2. [op |-> "add", name |-> n] \in Requests /\ [op |-> "remove", name |-> n] \in Requests
    BY DEF Requests
  <2>3. session' = session
    BY <2>1 DEF ClickAdd, ConsoleAdd, ClickRemove
  <2> QED
    BY <2>1, <2>2, <2>3, <1>b, <1>d DEF ClickAdd, ConsoleAdd, ClickRemove, TablesTyped
<1>3. CASE Returned(c)
  <2>1. Goto(c, "returning", "idle")
        /\ UNCHANGED <<table, memory, slot, session, request, caller, held, kept>>
    BY <1>3 DEF Returned, pool, search
  <2> QED
    BY <2>1, <1>a, <1>b, <1>c, GoesTyped DEF TypeInv, TablesTyped, UsesSlot, Adding
<1>4. CASE Exit(c)
  BY <1>4, <1>b DEF Exit, TypeInv, TablesTyped, InRange, pool, search
<1> QED
  BY <1>1, <1>2, <1>3, <1>4 DEF User

LEMMA HookTyped ==
  ASSUME TypeInv, NEW h \in Hooks, Hook(h)
  PROVE  TypeInv'
<1> USE SlotFacts
<1>a. h \notin Clients
  BY ActorAssumption
<1>b. TablesTyped /\ InRange /\ h \in Actors
  BY DEF TypeInv
<1>c. {"idle", "original", "load", "compare", "found", "missed"} \subseteq HookPlaces
  BY DEF HookPlaces
<1>d. ASSUME NEW from, NEW to \in HookPlaces, Goto(h, from, to),
             slot' \in [Actors -> 0 .. MaxMonitored],
             \A y \in Actors \ {h} : slot'[y] = slot[y],
             to \in UsesSlot => slot'[h] \in Slots,
             held' \in [Hooks -> Blocks \cup {Null}],
             \A g \in Hooks \ {h} : held'[g] = held[g],
             to = "compare" => held'[h] \in Blocks,
             caller' \in [Hooks -> Names], kept' \in [Hooks -> SUBSET Slots],
             UNCHANGED <<pool, client>>
      PROVE  TypeInv'
  <2>1. UNCHANGED <<table, memory, session, request>>
    BY <1>d DEF pool, client
  <2> QED
    BY <2>1, <1>a, <1>b, <1>d, GoesTyped DEF TypeInv, TablesTyped
<1>e. UNCHANGED search => /\ held' = held /\ held' \in [Hooks -> Blocks \cup {Null}]
                          /\ caller' \in [Hooks -> Names]
                          /\ kept' \in [Hooks -> SUBSET Slots]
  BY <1>b DEF TablesTyped, search
<1>f. UNCHANGED slot => /\ slot' \in [Actors -> 0 .. MaxMonitored]
                        /\ \A y \in Actors \ {h} : slot'[y] = slot[y]
  BY <1>b DEF TablesTyped
<1>1. CASE \E n \in Names : HookCalled(h, n)
  BY <1>1, <1>b, <1>c, <1>d, <1>f DEF HookCalled, TablesTyped, UsesSlot
<1>2. CASE SearchBegins(h)
  BY <1>2, <1>b, <1>c, <1>d, AtTyped DEF SearchBegins, TablesTyped, UsesSlot
<1>3. CASE Load(h)
  <2>1. /\ held' \in [Hooks -> Blocks \cup {Null}] /\ held'[h] = table[slot[h]]
        /\ \A g \in Hooks \ {h} : held'[g] = held[g]
        /\ caller' = caller /\ kept' = kept /\ UNCHANGED <<pool, client>>
    BY <1>3, <1>b DEF Load, TablesTyped
  <2>2. CASE table[slot[h]] = Null
    BY <1>3, <2>1, <2>2, <1>b, <1>c, <1>d, AtTyped DEF Load, TablesTyped, UsesSlot
  <2>3. CASE table[slot[h]] # Null
    BY <1>3, <2>1, <2>3, <1>b, <1>c, <1>d, <1>f DEF Load, TablesTyped
  <2> QED
    BY <2>2, <2>3
<1>4. CASE Match(h)
  BY <1>4, <1>c, <1>d, <1>e, <1>f DEF Match, UsesSlot
<1>5. CASE Differ(h)
  <2>1. slot[h] \in Slots
    BY <1>5, <1>b DEF Differ, Goto, InRange, UsesSlot
  <2> QED
    BY <1>5, <2>1, <1>c, <1>d, <1>e, AtTyped DEF Differ, UsesSlot
<1>6. CASE Miss(h)
  BY <1>6, <1>c, <1>d, <1>e, <1>f DEF Miss, UsesSlot
<1>7. CASE HookReturns(h)
  BY <1>7, <1>c, <1>d, <1>e, <1>f DEF HookReturns, UsesSlot
<1> QED
  BY <1>1, <1>2, <1>3, <1>4, <1>5, <1>6, <1>7 DEF Hook

LEMMA TypeStep == TypeInv /\ [Next]_vars => TypeInv'
<1> SUFFICES ASSUME TypeInv, [Next]_vars PROVE TypeInv'
  OBVIOUS
<1>1. CASE Next
  BY <1>1, IoctlTyped, UserTyped, HookTyped DEF Next
<1>2. CASE UNCHANGED vars
  BY <1>2 DEF TypeInv, TablesTyped, InRange, vars, pool, client, search
<1> QED
  BY <1>1, <1>2

(* Every variable but the window's list has its type, whatever the number   *)
(* of clients, hooked calls, slots and blocks; a request or a search only   *)
(* uses a slot of the table, and wcscmp only a pointer that is not null.    *)
LEMMA TypeInvariant == Spec => []TypeInv
BY TypeInit, TypeStep, PTL DEF Spec

-----------------------------------------------------------------------------
(* The search. *)

(* What is kept is held, and lies where the search has not yet been; if it  *)
(* is in the slot the search is at, it is what the search has loaded.       *)
Searching(h) ==
  /\ \A i \in kept[h] : Holds(i, caller[h])
  /\ pc[h] \in {"load", "compare"} => \A i \in kept[h] : i >= slot[h]
  /\ pc[h] = "compare" /\ slot[h] \in kept[h] =>
       held[h] = table[slot[h]] /\ memory[held[h]] = caller[h]
  /\ pc[h] = "missed" => kept[h] = {}
SearchInv == \A h \in Hooks : Searching(h)

(* A slot that holds a name before and after a step points to the same      *)
(* block: a new block is unwritten at first.                                *)
LEMMA HoldersStay ==
  ASSUME TypeInv, [Next]_vars, NEW i \in Slots, NEW n \in Names, Holds(i, n)'
  PROVE  table'[i] = table[i]
<1>a. TablesTyped
  BY DEF TypeInv
<1>1. ASSUME NEW c \in Clients, AddStore(c)
      PROVE  table'[i] = table[i]
  <2>1. PICK b \in Blocks :
          /\ memory' = [memory EXCEPT ![b] = Unwritten]
          /\ table' = [table EXCEPT ![slot[c]] = b]
    BY <1>1 DEF AddStore
  <2>2. memory'[b] = Unwritten
    BY <2>1, <1>a DEF TablesTyped
  <2>3. table'[i] # b
    BY <2>2, BlockAssumption DEF Holds
  <2> QED
    BY <2>1, <2>3, <1>a DEF TablesTyped
<1>2. ASSUME NEW c \in Clients, Clear(c)
      PROVE  table'[i] = table[i]
  <2>1. table' = [table EXCEPT ![slot[c]] = Null]
    BY <1>2 DEF Clear
  <2>2. table'[i] # Null
    BY DEF Holds
  <2> QED
    BY <2>1, <2>2, <1>a DEF TablesTyped
<1>3. ASSUME NEW c \in Clients, Ioctl(c), ~AddStore(c), ~Clear(c)
      PROVE  table' = table
  BY <1>3 DEF Ioctl, AddScan, AddFound, AddCopy, RemovePass, RemoveMatch, RemoveFree,
              RemoveNull, ResetFree, ResetNull, LoopEnds, Delete, pool
<1>4. ASSUME NEW c \in Clients, User(c)
      PROVE  table' = table
  BY <1>4 DEF User, Start, ClickAdd, ConsoleAdd, ClickRemove, Send, Returned, Exit, pool
<1>5. ASSUME NEW h \in Hooks, Hook(h)
      PROVE  table' = table
  BY <1>5 DEF Hook, HookCalled, SearchBegins, Load, Match, Differ, Miss, HookReturns, pool
<1>6. CASE UNCHANGED vars
  BY <1>6 DEF vars, pool
<1> QED
  BY <1>1, <1>2, <1>3, <1>4, <1>5, <1>6 DEF Next

(* A step of anyone else: the search is where it was, and keeps no more.    *)
LEMMA OthersStep ==
  ASSUME TypeInv, [Next]_vars, NEW h \in Hooks, Searching(h),
         pc'[h] = pc[h], slot'[h] = slot[h], caller'[h] = caller[h], held'[h] = held[h],
         kept'[h] \subseteq kept[h],
         \A i \in kept'[h] : Holds(i, caller[h])'
  PROVE  Searching(h)'
<1>1. kept[h] \subseteq Slots /\ caller[h] \in Names
  BY DEF TypeInv, TablesTyped
<1>2. ASSUME NEW i \in kept'[h]
      PROVE  table'[i] = table[i] /\ memory'[table'[i]] = caller'[h] /\ table'[i] # Null
  <2>1. i \in Slots /\ Holds(i, caller[h])'
    BY <1>1, <1>2
  <2>2. table'[i] = table[i]
    BY <2>1, <1>1, HoldersStay
  <2> QED
    BY <2>1, <2>2 DEF Holds
<1>3. pc'[h] = "compare" /\ slot'[h] \in kept'[h] =>
        held'[h] = table'[slot'[h]] /\ memory'[held'[h]] = caller'[h]
  BY <1>2 DEF Searching
<1> QED
  BY <1>2, <1>3 DEF Searching, Holds

(* A step of a client leaves every search where it was.                     *)
LEMMA ClientSearch ==
  ASSUME TypeInv, SearchInv, NEW c \in Clients, Ioctl(c) \/ User(c), [Next]_vars,
         NEW h \in Hooks
  PROVE  Searching(h)'
<1>a. TablesTyped /\ h # c /\ h \in Actors /\ c \in Actors /\ Searching(h)
  BY ActorAssumption, SlotFacts DEF TypeInv, SearchInv
<1>b. ASSUME NEW from, NEW to, Goto(c, from, to) PROVE pc'[h] = pc[h]
  BY <1>a, <1>b DEF Goto, TablesTyped
<1>c. ASSUME NEW i, At(c, i) PROVE slot'[h] = slot[h]
  BY <1>a, <1>c DEF At, TablesTyped
<1>d. ASSUME ChangePool
      PROVE  /\ caller'[h] = caller[h] /\ held'[h] = held[h]
             /\ kept'[h] \subseteq kept[h]
             /\ \A i \in kept'[h] : Holds(i, caller[h])'
  BY <1>d DEF ChangePool, Remember
<1>e. ASSUME UNCHANGED <<pool, search>>
      PROVE  /\ caller'[h] = caller[h] /\ held'[h] = held[h]
             /\ kept'[h] \subseteq kept[h]
             /\ \A i \in kept'[h] : Holds(i, caller[h])'
  BY <1>a, <1>e DEF pool, search, Searching, Holds
<1>1. pc'[h] = pc[h] /\ slot'[h] = slot[h]
  <2>1. CASE Ioctl(c)
    BY <2>1, <1>b, <1>c
    DEF Ioctl, AddScan, AddFound, AddStore, AddCopy, RemovePass, RemoveMatch, RemoveFree,
        RemoveNull, ResetFree, ResetNull, LoopEnds, Delete, Clear
  <2>2. CASE User(c)
    BY <2>2, <1>b, <1>c
    DEF User, Start, ClickAdd, ConsoleAdd, ClickRemove, Send, Returned, Exit
  <2> QED
    BY <2>1, <2>2
<1>2. ChangePool \/ UNCHANGED <<pool, search>>
  <2>1. CASE Ioctl(c)
    BY <2>1
    DEF Ioctl, AddScan, AddFound, AddStore, AddCopy, RemovePass, RemoveMatch, RemoveFree,
        RemoveNull, ResetFree, ResetNull, LoopEnds, Delete, Clear
  <2>2. CASE User(c)
    BY <2>2 DEF User, Start, ClickAdd, ConsoleAdd, ClickRemove, Send, Returned, Exit
  <2> QED
    BY <2>1, <2>2
<1> QED
  BY <1>a, <1>1, <1>2, <1>d, <1>e, OthersStep

(* A step of another search does nothing to this one.                       *)
LEMMA OtherSearch ==
  ASSUME TypeInv, SearchInv, NEW g \in Hooks, Hook(g), [Next]_vars,
         NEW h \in Hooks, h # g
  PROVE  Searching(h)'
<1>a. TablesTyped /\ h \in Actors /\ g \in Actors /\ Searching(h)
  BY SlotFacts DEF TypeInv, SearchInv
<1>b. ASSUME NEW from, NEW to, Goto(g, from, to) PROVE pc'[h] = pc[h]
  BY <1>a, <1>b DEF Goto, TablesTyped
<1>c. ASSUME NEW i, At(g, i) PROVE slot'[h] = slot[h]
  BY <1>a, <1>c DEF At, TablesTyped
<1>1. pc'[h] = pc[h] /\ slot'[h] = slot[h]
  BY <1>b, <1>c
  DEF Hook, HookCalled, SearchBegins, Load, Match, Differ, Miss, HookReturns
<1>2. caller'[h] = caller[h] /\ held'[h] = held[h] /\ kept'[h] = kept[h] /\ UNCHANGED pool
  BY <1>a
  DEF Hook, HookCalled, SearchBegins, Load, Match, Differ, Miss, HookReturns, search,
      TablesTyped
<1>3. \A i \in kept'[h] : Holds(i, caller[h])'
  BY <1>a, <1>2 DEF Searching, Holds, pool
<1> QED
  BY <1>a, <1>1, <1>2, <1>3, OthersStep

(* The steps of the search itself.                                          *)
LEMMA OwnSearch ==
  ASSUME TypeInv, SearchInv, NEW h \in Hooks, Hook(h)
  PROVE  Searching(h)'
<1>a. /\ TablesTyped /\ InRange /\ h \in Actors /\ Searching(h)
      /\ kept[h] \subseteq Slots /\ caller[h] \in Names
      /\ \A i \in Slots : i \in Nat
      /\ MaxMonitored \in Nat
  BY SlotFacts DEF TypeInv, TablesTyped, SearchInv, Slots
<1>b. ASSUME NEW from, NEW to, Goto(h, from, to) PROVE pc[h] = from /\ pc'[h] = to
  BY <1>a, <1>b DEF Goto, TablesTyped
<1>c. ASSUME NEW i, At(h, i) PROVE slot'[h] = i
  BY <1>a, <1>c DEF At, TablesTyped
<1>d. UNCHANGED <<pool, search>> =>
        /\ table' = table /\ memory' = memory
        /\ caller' = caller /\ held' = held /\ kept' = kept
  BY DEF pool, search
<1>e. (slot[h] \in kept[h]) => table[slot[h]] # Null /\ memory[table[slot[h]]] = caller[h]
  BY <1>a DEF Searching, Holds
<1>1. CASE \E n \in Names : HookCalled(h, n)
  <2>1. pc'[h] = "original" /\ kept'[h] = {}
    BY <1>1, <1>a, <1>b DEF HookCalled, TablesTyped
  <2> QED
    BY <2>1 DEF Searching
<1>2. CASE SearchBegins(h)
  <2>1. /\ pc'[h] = "load" /\ slot'[h] = 0
        /\ kept'[h] = {i \in Slots : Holds(i, caller[h])}
        /\ caller' = caller /\ table' = table /\ memory' = memory
    BY <1>2, <1>a, <1>b, <1>c DEF SearchBegins, TablesTyped, pool
  <2>2. \A i \in Slots : i >= 0
    BY DEF Slots
  <2> QED
    BY <2>1, <2>2 DEF Searching, Holds
<1>3. CASE Load(h)
  <2>1. /\ table' = table /\ memory' = memory /\ caller' = caller /\ kept' = kept
        /\ held'[h] = table[slot[h]] /\ pc[h] = "load" /\ slot[h] \in Slots
    BY <1>3, <1>a, <1>b DEF Load, TablesTyped, pool
  <2>2. CASE table[slot[h]] = Null
    <3>1. pc'[h] = "load" /\ slot'[h] = slot[h] + 1
      BY <1>3, <2>2, <1>b, <1>c DEF Load
    <3>2. \A i \in kept[h] : i # slot[h] /\ i >= slot[h] /\ i \in Nat
      BY <2>1, <2>2, <1>a, <1>e DEF Searching
    <3>3. \A i \in kept[h] : i >= slot[h] + 1
      BY <3>2, <2>1, <1>a
    <3> QED
      BY <3>1, <3>3, <2>1, <1>a DEF Searching, Holds
  <2>3. CASE table[slot[h]] # Null
    <3>1. pc'[h] = "compare" /\ slot'[h] = slot[h]
      BY <1>3, <2>3, <1>b DEF Load
    <3> QED
      BY <3>1, <2>1, <1>a, <1>e DEF Searching, Holds
  <2> QED
    BY <2>2, <2>3
<1>4. CASE Match(h)
  <2>1. pc'[h] = "found" /\ UNCHANGED <<pool, search>>
    BY <1>4, <1>b DEF Match
  <2> QED
    BY <2>1, <1>a, <1>d DEF Searching, Holds
<1>5. CASE Differ(h)
  <2>1. /\ pc[h] = "compare" /\ pc'[h] = "load" /\ slot'[h] = slot[h] + 1
        /\ UNCHANGED <<pool, search>> /\ slot[h] \in Slots
    BY <1>5, <1>a, <1>b, <1>c DEF Differ, InRange, UsesSlot
  <2>2. memory[held[h]] # caller[h]
    BY <1>5, <1>a DEF Differ, Compare
  <2>3. \A i \in kept[h] : i # slot[h] /\ i >= slot[h] /\ i \in Nat
    BY <2>1, <2>2, <1>a DEF Searching
  <2>4. \A i \in kept[h] : i >= slot[h] + 1
    BY <2>1, <2>3, <1>a
  <2> QED
    BY <2>1, <2>4, <1>a, <1>d DEF Searching, Holds
<1>6. CASE Miss(h)
  <2>1. /\ pc[h] = "load" /\ pc'[h] = "missed" /\ slot[h] = MaxMonitored
        /\ UNCHANGED <<pool, search>>
    BY <1>6, <1>b DEF Miss
  <2>2. \A i \in Slots : ~(i >= MaxMonitored)
    BY <1>a DEF Slots
  <2>3. kept[h] = {}
    BY <2>1, <2>2, <1>a DEF Searching
  <2> QED
    BY <2>1, <2>3, <1>d DEF Searching
<1>7. CASE HookReturns(h)
  <2>1. pc'[h] = "idle" /\ UNCHANGED <<pool, search>>
    BY <1>7, <1>b DEF HookReturns
  <2> QED
    BY <2>1, <1>a, <1>d DEF Searching, Holds
<1> QED
  BY <1>1, <1>2, <1>3, <1>4, <1>5, <1>6, <1>7 DEF Hook

LEMMA SearchStep == TypeInv /\ SearchInv /\ [Next]_vars => SearchInv'
<1> SUFFICES ASSUME TypeInv, SearchInv, [Next]_vars, NEW h \in Hooks
             PROVE  Searching(h)'
  BY DEF SearchInv
<1>1. CASE \E c \in Clients : Ioctl(c) \/ User(c)
  BY <1>1, ClientSearch
<1>2. CASE \E g \in Hooks : Hook(g)
  BY <1>2, OtherSearch, OwnSearch
<1>3. CASE UNCHANGED vars
  BY <1>3 DEF vars, pool, search, SearchInv, Searching, Holds
<1> QED
  BY <1>1, <1>2, <1>3 DEF Next

(* However many copies of KernelMon.exe change the table meanwhile, a       *)
(* search that misses has not passed over a driver that was there all the   *)
(* time.                                                                    *)
THEOREM StayingDriversFound == Spec => []StayingFound
<1>1. Init => SearchInv
  BY SlotFacts DEF Init, SearchInv, Searching
<1>2. SearchInv => StayingFound
  BY DEF SearchInv, Searching, StayingFound
<1> QED
  BY <1>1, <1>2, TypeInvariant, SearchStep, PTL DEF Spec

-----------------------------------------------------------------------------
(* The blocks, while one copy of KernelMon.exe runs. *)

OneClient == \A c, d \in Clients : c = d

(* The slot whose block the client has not written yet, or has deleted.     *)
ChangePlaces == {"add_copy", "remove_null", "reset_null"}
Changing(i) == \E c \in Clients : pc[c] \in ChangePlaces /\ slot[c] = i

(* What the client knows of its slot. *)
Holding(c) ==
  LET b == table[slot[c]]
  IN  /\ pc[c] = "add_store" => b = Null
      /\ pc[c] = "add_copy" => b # Null /\ memory[b] = Unwritten
      /\ pc[c] = "remove_free" => b # Null /\ memory[b] \in Names
      /\ pc[c] \in {"remove_null", "reset_null"} => b = Null \/ memory[b] = Freed

OneOwner == \A i, j \in Slots : table[i] # Null /\ table[i] = table[j] => i = j
NoneLeaked == \A b \in Blocks : memory[b] # Freed => \E i \in Slots : table[i] = b
Named ==
  \A i \in Slots : table[i] # Null /\ ~Changing(i) => memory[table[i]] \in Names
OwnInv == OneOwner /\ NoneLeaked /\ Named /\ \A c \in Clients : Holding(c)

LEMMA OwnInvImplies == OwnInv /\ TypeInv => BlocksOwned
<1> SUFFICES ASSUME OwnInv, TypeInv PROVE BlocksOwned
  OBVIOUS
<1>1. ASSUME NEW b \in Blocks, memory[b] # Freed
      PROVE  /\ \E i \in Slots : table[i] = b
             /\ \A i, j \in Slots : table[i] = b /\ table[j] = b => i = j
  BY <1>1, BlockAssumption DEF OwnInv, OneOwner, NoneLeaked
<1>2. ASSUME NEW i \in Slots, table[i] # Null
      PROVE  \/ memory[table[i]] \in Names
             \/ memory[table[i]] = Freed /\ Dangling(i)
             \/ memory[table[i]] = Unwritten /\ Unnamed(i)
  <2>1. CASE Changing(i)
    <3>1. PICK c \in Clients : pc[c] \in ChangePlaces /\ slot[c] = i
      BY <2>1 DEF Changing
    <3>2. Holding(c)
      BY DEF OwnInv
    <3> QED
      BY <3>1, <3>2, <1>2 DEF Holding, ChangePlaces, Dangling, Unnamed
  <2>2. CASE ~Changing(i)
    BY <2>2, <1>2 DEF OwnInv, Named
  <2> QED
    BY <2>1, <2>2
<1> QED
  BY <1>1, <1>2 DEF BlocksOwned

(* Steps that leave the pool alone. *)
LEMMA OwnStutter ==
  ASSUME OwnInv, UNCHANGED pool,
         \A c \in Clients : pc'[c] = pc[c] /\ slot'[c] = slot[c]
  PROVE  OwnInv'
<1>1. \A i : Changing(i)' <=> Changing(i)
  BY DEF Changing
<1>2. \A c \in Clients : Holding(c)'
  BY DEF OwnInv, Holding, pool
<1> QED
  BY <1>1, <1>2 DEF OwnInv, OneOwner, NoneLeaked, Named, pool

LEMMA OwnQuiet ==
  ASSUME OwnInv, TypeInv, OneClient, UNCHANGED pool, NEW c \in Clients,
         NEW from, NEW to, Goto(c, from, to),
         from \notin ChangePlaces, to \notin ChangePlaces,
         to = "add_store" => table[slot'[c]] = Null,
         to = "remove_free" =>
           table[slot'[c]] # Null /\ memory[table[slot'[c]]] \in Names
  PROVE  OwnInv'
<1>1. \A i : ~Changing(i) /\ ~Changing(i)'
  BY SlotFacts DEF Changing, Goto, OneClient, TypeInv, TablesTyped
<1>2. pc'[c] = to
  BY SlotFacts DEF Goto, TypeInv, TablesTyped
<1>3. ASSUME NEW d \in Clients PROVE Holding(d)'
  <2>1. d = c
    BY DEF OneClient
  <2> QED
    BY <1>2, <2>1 DEF Holding, pool, ChangePlaces
<1> QED
  BY <1>1, <1>3 DEF OwnInv, OneOwner, NoneLeaked, Named, pool

(* Steps that change it.  The client's slot is i.                           *)
LEMMA OwnAddStore ==
  ASSUME OwnInv, TypeInv, OneClient, NEW c \in Clients, AddStore(c)
  PROVE  OwnInv'
<1> DEFINE i == slot[c]
<1>1. /\ pc[c] = "add_store" /\ pc'[c] = "add_copy" /\ i \in Slots /\ slot' = slot
      /\ table \in [Slots -> Blocks \cup {Null}]
      /\ memory \in [Blocks -> Names \cup {Unwritten, Freed}]
  BY SlotFacts DEF AddStore, Goto, TypeInv, TablesTyped, InRange, UsesSlot
<1>2. PICK b \in Blocks : /\ memory[b] = Freed
                          /\ memory' = [memory EXCEPT ![b] = Unwritten]
                          /\ table' = [table EXCEPT ![i] = b]
  BY DEF AddStore
<1>3. table[i] = Null /\ b # Null
  BY <1>1, BlockAssumption DEF OwnInv, Holding
<1>4. \A j : ~Changing(j)
  BY <1>1 DEF Changing, OneClient, ChangePlaces
<1>5. \A j \in Slots : table[j] # b
  BY <1>1, <1>2, <1>3, <1>4, BlockAssumption DEF OwnInv, Named
<1> HIDE DEF i
<1>6. OneOwner'
  BY <1>1, <1>2, <1>5 DEF OwnInv, OneOwner
<1>7. NoneLeaked'
  <2> SUFFICES ASSUME NEW a \in Blocks, memory'[a] # Freed
               PROVE  \E j \in Slots : table'[j] = a
    BY DEF NoneLeaked
  <2>1. CASE a = b
    BY <2>1, <1>1, <1>2
  <2>2. CASE a # b
    <3>1. PICK j \in Slots : table[j] = a
      BY <2>2, <1>1, <1>2 DEF OwnInv, NoneLeaked
    <3>2. j # i
      BY <3>1, <1>3, BlockAssumption
    <3> QED
      BY <3>1, <3>2, <1>1, <1>2
  <2> QED
    BY <2>1, <2>2
<1>8. Named'
  <2> SUFFICES ASSUME NEW j \in Slots, table'[j] # Null, ~Changing(j)'
               PROVE  memory'[table'[j]] \in Names
    BY DEF Named
  <2>1. j # i
    BY <1>1 DEF Changing, ChangePlaces, i
  <2>2. table'[j] = table[j] /\ table[j] # Null /\ table[j] # b
    BY <2>1, <1>1, <1>2, <1>5
  <2>3. memory[table[j]] \in Names
    BY <2>2, <1>4 DEF OwnInv, Named
  <2> QED
    BY <2>2, <2>3, <1>1, <1>2
<1>9. ASSUME NEW d \in Clients PROVE Holding(d)'
  <2>1. d = c
    BY DEF OneClient
  <2>2. table'[slot'[d]] = b /\ memory'[b] = Unwritten
    BY <2>1, <1>1, <1>2 DEF i
  <2> QED
    BY <2>1, <2>2, <1>1, <1>3 DEF Holding
<1> QED
  BY <1>6, <1>7, <1>8, <1>9 DEF OwnInv

LEMMA OwnAddCopy ==
  ASSUME OwnInv, TypeInv, OneClient, NEW c \in Clients, AddCopy(c)
  PROVE  OwnInv'
<1> DEFINE b == table[slot[c]]
           n == request[c].name
<1>1. /\ pc[c] = "add_copy" /\ pc'[c] = "returning" /\ slot[c] \in Slots
      /\ table' = table /\ b # Null /\ n \in Names
      /\ table \in [Slots -> Blocks \cup {Null}]
      /\ memory \in [Blocks -> Names \cup {Unwritten, Freed}]
      /\ memory' = [memory EXCEPT ![b] = n]
  BY SlotFacts DEF AddCopy, Goto, TypeInv, TablesTyped, InRange, UsesSlot, Adding
<1>2. memory[b] = Unwritten /\ b \in Blocks
  BY <1>1 DEF OwnInv, Holding
<1>3. \A j : Changing(j) => j = slot[c]
  BY DEF Changing, OneClient
<1> HIDE DEF b, n
<1>4. OneOwner' /\ NoneLeaked'
  <2>1. OneOwner'
    BY <1>1 DEF OwnInv, OneOwner
  <2>2. ASSUME NEW a \in Blocks, memory'[a] # Freed
        PROVE  \E j \in Slots : table[j] = a
    <3>1. CASE a = b
      BY <3>1, <1>1 DEF b
    <3>2. CASE a # b
      BY <3>2, <2>2, <1>1 DEF OwnInv, NoneLeaked
    <3> QED
      BY <3>1, <3>2
  <2> QED
    BY <2>1, <2>2, <1>1 DEF NoneLeaked
<1>5. Named'
  <2> SUFFICES ASSUME NEW j \in Slots, table[j] # Null
               PROVE  memory'[table[j]] \in Names
    BY <1>1 DEF Named
  <2>1. CASE table[j] = b
    BY <2>1, <1>1, <1>2
  <2>2. CASE table[j] # b
    BY <2>2, <1>1, <1>2, <1>3 DEF OwnInv, Named, b
  <2> QED
    BY <2>1, <2>2
<1>6. ASSUME NEW d \in Clients PROVE Holding(d)'
  <2>1. d = c
    BY DEF OneClient
  <2> QED
    BY <2>1, <1>1 DEF Holding
<1> QED
  BY <1>4, <1>5, <1>6 DEF OwnInv

LEMMA OwnDelete ==
  ASSUME OwnInv, TypeInv, OneClient, NEW c \in Clients,
         RemoveFree(c) \/ ResetFree(c)
  PROVE  OwnInv'
<1> DEFINE i == slot[c]
<1>1. /\ pc[c] \notin ChangePlaces /\ pc'[c] \in {"remove_null", "reset_null"}
      /\ i \in Slots /\ slot' = slot /\ table' = table
      /\ table \in [Slots -> Blocks \cup {Null}]
      /\ memory \in [Blocks -> Names \cup {Unwritten, Freed}]
      /\ memory' = IF table[i] = Null THEN memory
                   ELSE [memory EXCEPT ![table[i]] = Freed]
  BY SlotFacts DEF RemoveFree, ResetFree, Delete, Goto, TypeInv, TablesTyped,
                   InRange, UsesSlot, ChangePlaces
<1>2. \A j : ~Changing(j)
  BY <1>1 DEF Changing, OneClient
<1> HIDE DEF i
<1>3. OneOwner'
  BY <1>1 DEF OwnInv, OneOwner
<1>4. \A a \in Blocks : memory'[a] # Freed => memory[a] # Freed
  BY <1>1
<1>5. NoneLeaked'
  BY <1>1, <1>4 DEF OwnInv, NoneLeaked
<1>6. Named'
  <2> SUFFICES ASSUME NEW j \in Slots, table[j] # Null, ~Changing(j)'
               PROVE  memory'[table[j]] \in Names
    BY <1>1 DEF Named
  <2>1. j # i
    BY <1>1 DEF Changing, ChangePlaces, i
  <2>2. table[j] # table[i]
    BY <2>1, <1>1 DEF OwnInv, OneOwner
  <2>3. memory[table[j]] \in Names
    BY <1>2 DEF OwnInv, Named
  <2> QED
    BY <2>2, <2>3, <1>1
<1>7. ASSUME NEW d \in Clients PROVE Holding(d)'
  <2>1. d = c
    BY DEF OneClient
  <2>2. table'[slot'[d]] = Null \/ memory'[table'[slot'[d]]] = Freed
    BY <2>1, <1>1 DEF i
  <2> QED
    BY <2>1, <2>2, <1>1 DEF Holding
<1> QED
  BY <1>3, <1>5, <1>6, <1>7 DEF OwnInv

LEMMA OwnClear ==
  ASSUME OwnInv, TypeInv, OneClient, NEW c \in Clients,
         RemoveNull(c) \/ ResetNull(c)
  PROVE  OwnInv'
<1> DEFINE i == slot[c]
<1>1. /\ pc[c] \in {"remove_null", "reset_null"}
      /\ pc'[c] \in {"remove_check", "reset_free"}
      /\ i \in Slots /\ memory' = memory
      /\ table \in [Slots -> Blocks \cup {Null}]
      /\ table' = [table EXCEPT ![i] = Null]
  BY SlotFacts DEF RemoveNull, ResetNull, Clear, Goto, TypeInv, TablesTyped,
                   InRange, UsesSlot
<1>2. \A j : Changing(j) => j = i
  BY DEF Changing, OneClient
<1>3. table[i] = Null \/ memory[table[i]] = Freed
  BY <1>1 DEF OwnInv, Holding
<1> HIDE DEF i
<1>4. OneOwner'
  BY <1>1 DEF OwnInv, OneOwner
<1>5. NoneLeaked'
  <2> SUFFICES ASSUME NEW b \in Blocks, memory[b] # Freed
               PROVE  \E j \in Slots : table'[j] = b
    BY <1>1 DEF NoneLeaked
  <2>1. PICK j \in Slots : table[j] = b
    BY DEF OwnInv, NoneLeaked
  <2>2. j # i
    BY <2>1, <1>3, BlockAssumption
  <2> QED
    BY <2>1, <2>2, <1>1
<1>6. Named'
  BY <1>1, <1>2 DEF OwnInv, Named
<1>7. ASSUME NEW d \in Clients PROVE Holding(d)'
  <2>1. d = c
    BY DEF OneClient
  <2> QED
    BY <2>1, <1>1 DEF Holding
<1> QED
  BY <1>4, <1>5, <1>6, <1>7 DEF OwnInv

LEMMA OwnIoctl ==
  ASSUME OwnInv, TypeInv, OneClient, NEW c \in Clients, Ioctl(c)
  PROVE  OwnInv'
<1> USE DEF ChangePlaces
<1>1. CASE AddScan(c)
  BY <1>1, OwnQuiet DEF AddScan, pool
<1>2. CASE AddFound(c)
  BY <1>2, OwnQuiet DEF AddFound, pool
<1>3. CASE RemovePass(c)
  BY <1>3, OwnQuiet DEF RemovePass, pool
<1>4. CASE RemoveMatch(c)
  <2>1. /\ Goto(c, "remove_check", "remove_free") /\ UNCHANGED pool /\ slot' = slot
        /\ slot[c] \in Slots /\ table[slot[c]] # Null
    BY <1>4 DEF RemoveMatch
  <2>2. ~Changing(slot[c])
    BY <2>1 DEF Changing, OneClient, Goto
  <2>3. memory[table[slot[c]]] \in Names
    BY <2>1, <2>2 DEF OwnInv, Named
  <2> QED
    BY <2>1, <2>3, OwnQuiet
<1>5. CASE LoopEnds(c)
  <2>1. PICK loop \in {"add_scan", "remove_check", "reset_free"} :
          Goto(c, loop, "returning")
    BY <1>5 DEF LoopEnds
  <2> QED
    BY <1>5, <2>1, OwnQuiet DEF LoopEnds
<1> QED
  BY <1>1, <1>2, <1>3, <1>4, <1>5, OwnAddStore, OwnAddCopy, OwnDelete, OwnClear
  DEF Ioctl

LEMMA OwnUser ==
  ASSUME OwnInv, TypeInv, OneClient, NEW c \in Clients, User(c)
  PROVE  OwnInv'
<1>1. CASE Exit(c)
  BY <1>1, OwnStutter DEF Exit
<1>2. CASE Returned(c)
  BY <1>2, OwnQuiet DEF Returned, ChangePlaces
<1>3. ASSUME NEW to \in {"add_scan", "remove_check", "reset_free"}, NEW op, NEW n,
             Send(c, to, op, n)
      PROVE  OwnInv'
  BY <1>3, OwnQuiet DEF Send, ChangePlaces
<1> QED
  BY <1>1, <1>2, <1>3 DEF User, Start, ClickAdd, ConsoleAdd, ClickRemove

LEMMA OwnHook ==
  ASSUME OwnInv, TypeInv, NEW h \in Hooks, Hook(h)
  PROVE  OwnInv'
<1>1. UNCHANGED pool
  BY DEF Hook, HookCalled, SearchBegins, Load, Match, Differ, Miss, HookReturns
<1>2. \A x \in Actors \ {h} : pc'[x] = pc[x] /\ slot'[x] = slot[x]
  BY DEF Hook, HookCalled, SearchBegins, Load, Match, Differ, Miss, HookReturns,
         Goto, At, TypeInv, TablesTyped
<1>3. \A c \in Clients : c \in Actors \ {h}
  BY ActorAssumption DEF Actors
<1> QED
  BY <1>1, <1>2, <1>3, OwnStutter

LEMMA OwnInit == Init => OwnInv
BY SlotFacts DEF Init, OwnInv, OneOwner, NoneLeaked, Named, Holding

LEMMA OwnStep ==
  ASSUME OneClient
  PROVE  OwnInv /\ TypeInv /\ [Next]_vars => OwnInv'
<1> SUFFICES ASSUME OwnInv, TypeInv, [Next]_vars PROVE OwnInv'
  OBVIOUS
<1>1. CASE Next
  BY <1>1, OwnIoctl, OwnUser, OwnHook DEF Next
<1>2. CASE UNCHANGED vars
  BY <1>2, OwnStutter DEF vars
<1> QED
  BY <1>1, <1>2

(* While one KernelMon.exe runs at a time, whatever it sends and whenever   *)
(* it ends, each block belongs to one slot: none is leaked, none is freed   *)
(* twice, and a slot holds a name except where the request is just changing *)
(* it.  (Two at once may find the same empty slot.)                         *)
THEOREM BlocksOwnedByOne ==
  ASSUME OneClient
  PROVE  Spec => []BlocksOwned
BY OwnInit, OwnStep, OwnInvImplies, TypeInvariant, PTL DEF Spec

-----------------------------------------------------------------------------
(* What removing a name leaves of a list. *)

(* The order of the numbers, and induction over them. *)
Before == {ss \in Nat \X Nat : ss[1] < ss[2]}

LEMMA SetInduction ==
  ASSUME NEW S, 0 \in S, \A k \in Nat : k \in S => k + 1 \in S
  PROVE  Nat \subseteq S
<1> SUFFICES ASSUME Nat \ S # {} PROVE FALSE
  OBVIOUS
<1>1. IsWellFoundedOn(Before, Nat)
  BY NatLessThanWellFounded DEF Before, OpToRel
<1>2. PICK m \in Nat \ S : \A k \in Nat \ S : ~(<<k, m>> \in Before)
  BY <1>1, WFMin
<1>3. m - 1 \in Nat /\ <<m - 1, m>> \in Before
  <2>1. m # 0
    BY <1>2
  <2>2. m - 1 \in Nat /\ m - 1 < m
    BY <1>2, <2>1
  <2> QED
    BY <1>2, <2>2 DEF Before
<1>4. m - 1 \in S
  BY <1>2, <1>3
<1>5. (m - 1) + 1 = m
  BY <1>2
<1> QED
  BY <1>2, <1>3, <1>4, <1>5

(* What Without has kept of the first elements of a list. *)
Kept(s, n, k, before) ==
  IF k = 0 THEN <<>> ELSE IF s[k] = n THEN before ELSE Append(before, s[k])

Computes(g, s, n, m) == g = [k \in 0 .. m |-> Kept(s, n, k, g[k - 1])]

LEMMA WithoutExists ==
  ASSUME NEW s, NEW n, NEW m \in Nat
  PROVE  \E g : Computes(g, s, n, m)
<1> USE DEF Computes
<1> DEFINE Found == {j \in Nat : \E g : Computes(g, s, n, j)}
<1>1. 0 \in Found
  <2> DEFINE g == [k \in 0 .. 0 |-> <<>>]
  <2>1. g = [k \in 0 .. 0 |-> Kept(s, n, k, g[k - 1])]
    BY DEF Kept
  <2> QED
    BY <2>1
<1>2. ASSUME NEW j \in Nat, j \in Found
      PROVE  j + 1 \in Found
  <2>1. PICK g : g = [k \in 0 .. j |-> Kept(s, n, k, g[k - 1])]
    BY <1>2
  <2> DEFINE h == [k \in 0 .. (j + 1) |->
                     IF k = j + 1 THEN Kept(s, n, k, g[j]) ELSE g[k]]
  <2>2. ASSUME NEW k \in 0 .. (j + 1)
        PROVE  h[k] = Kept(s, n, k, h[k - 1])
    <3>1. CASE k = j + 1
      BY <3>1
    <3>2. CASE k \in 1 .. j
      <4>1. h[k] = g[k] /\ h[k - 1] = g[k - 1]
        BY <3>2
      <4>2. g[k] = Kept(s, n, k, g[k - 1])
        BY <2>1, <3>2
      <4> QED
        BY <4>1, <4>2
    <3>3. CASE k = 0
      <4>1. g[0] = Kept(s, n, 0, g[0 - 1])
        BY <2>1
      <4> QED
        BY <3>3, <4>1 DEF Kept
    <3> QED
      BY <3>1, <3>2, <3>3
  <2>3. h = [k \in 0 .. (j + 1) |-> Kept(s, n, k, h[k - 1])]
    <3> HIDE DEF h
    <3>1. DOMAIN h = 0 .. (j + 1) /\ h = [k \in DOMAIN h |-> h[k]]
      BY DEF h
    <3> QED
      BY <2>2, <3>1
  <2> HIDE DEF h
  <2> QED
    BY <2>3
<1> HIDE DEF Found
<1>3. Nat \subseteq Found
  BY <1>1, <1>2, SetInduction
<1> QED
  BY <1>3 DEF Found

LEMMA WithoutUpto ==
  ASSUME NEW s, Len(s) \in Nat, NEW n
  PROVE  \E upto : /\ \A k \in 0 .. Len(s) : upto[k] = Kept(s, n, k, upto[k - 1])
                   /\ Without(s, n) = upto[Len(s)]
<1> DEFINE upto == CHOOSE g : Computes(g, s, n, Len(s))
<1>1. Computes(upto, s, n, Len(s))
  BY WithoutExists
<1>2. Without(s, n) = upto[Len(s)]
  BY DEF Without, Kept, Computes
<1> HIDE DEF upto
<1> QED
  BY <1>1, <1>2 DEF Computes

(* The names that stay are those of the result, each in a place of its own. *)
SameNames(s, S, t) ==
  \E f \in Bijection(S, DOMAIN t) : \A k \in S : t[f[k]] = s[k]

LEMMA SameNamesAppend ==
  ASSUME NEW T, NEW t \in Seq(T), NEW x \in T, NEW s, NEW S, NEW k,
         SameNames(s, S, t), k \notin S, s[k] = x
  PROVE  SameNames(s, S \cup {k}, Append(t, x))
<1> DEFINE u == Append(t, x)
<1>1. /\ u \in Seq(T) /\ DOMAIN u = DOMAIN t \cup {Len(t) + 1}
      /\ Len(t) \in Nat /\ DOMAIN t = 1 .. Len(t) /\ u[Len(t) + 1] = x
      /\ \A l \in DOMAIN t : u[l] = t[l]
  OBVIOUS
<1>2. PICK f \in Bijection(S, DOMAIN t) : \A l \in S : t[f[l]] = s[l]
  BY DEF SameNames
<1>3. /\ f \in [S -> DOMAIN t] /\ \A a, b \in S : f[a] = f[b] => a = b
      /\ \A l \in DOMAIN t : \E a \in S : f[a] = l
  BY <1>2, Fun_BijectionProperties
<1> HIDE DEF u
<1> DEFINE g == [l \in S \cup {k} |-> IF l = k THEN Len(t) + 1 ELSE f[l]]
<1>4. g[k] = Len(t) + 1 /\ \A l \in S : g[l] = f[l]
  OBVIOUS
<1>5. g \in [S \cup {k} -> DOMAIN u]
  BY <1>1, <1>3
<1> HIDE DEF g
<1>6. ASSUME NEW a \in S \cup {k}, NEW b \in S \cup {k}, g[a] = g[b]
      PROVE  a = b
  BY <1>1, <1>3, <1>4, <1>6
<1>7. ASSUME NEW l \in DOMAIN u
      PROVE  \E a \in S \cup {k} : g[a] = l
  <2>1. CASE l \in DOMAIN t
    BY <2>1, <1>3, <1>4
  <2>2. CASE l = Len(t) + 1
    BY <2>2, <1>4
  <2> QED
    BY <2>1, <2>2, <1>1
<1>8. g \in Bijection(S \cup {k}, DOMAIN u)
  BY <1>5, <1>6, <1>7, Fun_IsBij
<1>9. \A l \in S \cup {k} : u[g[l]] = s[l]
  BY <1>1, <1>2, <1>3, <1>4
<1> QED
  BY <1>8, <1>9 DEF SameNames, u

LEMMA WithoutKeepsOthers ==
  ASSUME NEW T, NEW s \in Seq(T), NEW n
  PROVE  /\ Without(s, n) \in Seq(T)
         /\ SameNames(s, {k \in DOMAIN s : s[k] # n}, Without(s, n))
<1> DEFINE Others(j) == {k \in 1 .. j : s[k] # n}
<1>1. PICK upto : /\ \A k \in 0 .. Len(s) : upto[k] = Kept(s, n, k, upto[k - 1])
                  /\ Without(s, n) = upto[Len(s)]
  <2>1. Len(s) \in Nat
    OBVIOUS
  <2> QED
    BY <2>1, WithoutUpto
<1> DEFINE Good == {j \in Nat : j <= Len(s) =>
                      upto[j] \in Seq(T) /\ SameNames(s, Others(j), upto[j])}
<1>2. 0 \in Good
  <2>1. upto[0] = <<>>
    BY <1>1 DEF Kept
  <2>2. Others(0) = {} /\ DOMAIN <<>> = {}
    OBVIOUS
  <2> DEFINE f == [k \in {} |-> k]
  <2>3. f \in Bijection({}, {})
    BY Fun_IsBij
  <2>4. SameNames(s, Others(0), <<>>)
    BY <2>2, <2>3 DEF SameNames
  <2>5. upto[0] \in Seq(T)
    BY <2>1
  <2> HIDE DEF Others, f
  <2> QED
    BY <2>1, <2>4, <2>5
<1>3. ASSUME NEW j \in Nat, j \in Good
      PROVE  j + 1 \in Good
  <2> SUFFICES ASSUME j + 1 <= Len(s)
               PROVE  upto[j + 1] \in Seq(T) /\ SameNames(s, Others(j + 1), upto[j + 1])
    OBVIOUS
  <2>1. upto[j] \in Seq(T) /\ SameNames(s, Others(j), upto[j])
    BY <1>3
  <2>2. upto[j + 1] = IF s[j + 1] = n THEN upto[j] ELSE Append(upto[j], s[j + 1])
    <3>1. upto[j + 1] = Kept(s, n, j + 1, upto[(j + 1) - 1])
      BY <1>1
    <3>2. (j + 1) - 1 = j /\ j + 1 # 0
      OBVIOUS
    <3> QED
      BY <3>1, <3>2 DEF Kept
  <2>3. s[j + 1] \in T
    OBVIOUS
  <2>4. CASE s[j + 1] = n
    <3>1. Others(j + 1) = Others(j)
      BY <2>4
    <3> QED
      BY <3>1, <2>1, <2>2, <2>4
  <2>5. CASE s[j + 1] # n
    <3>1. Others(j + 1) = Others(j) \cup {j + 1} /\ j + 1 \notin Others(j)
      BY <2>5
    <3> HIDE DEF Others
    <3>2. SameNames(s, Others(j) \cup {j + 1}, Append(upto[j], s[j + 1]))
      BY <3>1, <2>1, <2>3, SameNamesAppend
    <3>3. upto[j + 1] = Append(upto[j], s[j + 1])
      BY <2>2, <2>5
    <3>4. upto[j + 1] \in Seq(T)
      BY <3>3, <2>1, <2>3
    <3>5. SameNames(s, Others(j + 1), upto[j + 1])
      BY <3>1, <3>2, <3>3
    <3> QED
      BY <3>4, <3>5
  <2> QED
    BY <2>4, <2>5
<1> HIDE DEF Good
<1>4. Len(s) \in Good
  BY <1>2, <1>3, SetInduction
<1>5. Others(Len(s)) = {k \in DOMAIN s : s[k] # n} /\ Len(s) <= Len(s)
  OBVIOUS
<1>6. upto[Len(s)] \in Seq(T) /\ SameNames(s, Others(Len(s)), upto[Len(s)])
  BY <1>4, <1>5 DEF Good
<1> HIDE DEF Others
<1> QED
  BY <1>1, <1>5, <1>6

LEMMA WithoutFilters ==
  ASSUME NEW T, NEW t \in Seq(T), NEW n, NEW s, NEW S, SameNames(s, S, t)
  PROVE  SameNames(s, {k \in S : s[k] # n}, Without(t, n))
<1> DEFINE R == {k \in S : s[k] # n}
           K == {k \in DOMAIN t : t[k] # n}
           w == Without(t, n)
<1>1. PICK f \in Bijection(S, DOMAIN t) : \A k \in S : t[f[k]] = s[k]
  BY DEF SameNames
<1>2. /\ f \in [S -> DOMAIN t] /\ \A a, b \in S : f[a] = f[b] => a = b
      /\ \A l \in DOMAIN t : \E a \in S : f[a] = l
  BY <1>1, Fun_BijectionProperties
<1> DEFINE g == [k \in R |-> f[k]]
<1>3. g \in [R -> K]
  BY <1>1, <1>2
<1>4. /\ \A a, b \in R : g[a] = g[b] => a = b
      /\ \A l \in K : \E a \in R : g[a] = l
  BY <1>1, <1>2
<1>5. \A k \in R : t[g[k]] = s[k]
  BY <1>1
<1> HIDE DEF R, K, g
<1>6. g \in Bijection(R, K)
  BY <1>3, <1>4, Fun_IsBij
<1>a. SameNames(t, K, w)
  BY WithoutKeepsOthers DEF K
<1> HIDE DEF w
<1>7. PICK h \in Bijection(K, DOMAIN w) : \A k \in K : w[h[k]] = t[k]
  BY <1>a DEF SameNames
<1> DEFINE c == [k \in R |-> h[g[k]]]
<1>8. c \in Bijection(R, DOMAIN w)
  BY <1>6, <1>7, Fun_BijTransitive
<1>9. \A k \in R : w[c[k]] = s[k]
  <2> TAKE k \in R
  <2>1. g[k] \in K /\ c[k] = h[g[k]]
    BY <1>3
  <2> QED
    BY <2>1, <1>5, <1>7
<1> HIDE DEF c
<1> QED
  BY <1>8, <1>9 DEF SameNames, R, w

(* Only what the function is on the set matters. *)
LEMMA SameNamesElsewhere ==
  ASSUME NEW s, NEW r, NEW S, NEW t, SameNames(s, S, t), \A k \in S : r[k] = s[k]
  PROVE  SameNames(r, S, t)
BY DEF SameNames

LEMMA SameNamesEmpty == \A s : SameNames(s, {}, <<>>)
<1> DEFINE f == [k \in {} |-> k]
<1>1. DOMAIN <<>> = {} /\ f \in [{} -> {}]
  OBVIOUS
<1>2. f \in Bijection({}, {})
  BY <1>1, Fun_IsBij
<1> QED
  BY <1>1, <1>2 DEF SameNames

(* A set and a list with the same names have each as often. *)
LEMMA SameNamesCount ==
  ASSUME NEW s, NEW S, NEW t, SameNames(s, S, t), IsFiniteSet(S), NEW n
  PROVE  Cardinality({k \in S : s[k] = n}) = Cardinality({k \in DOMAIN t : t[k] = n})
<1> DEFINE A == {k \in S : s[k] = n}
           B == {k \in DOMAIN t : t[k] = n}
<1>1. PICK f \in Bijection(S, DOMAIN t) : \A k \in S : t[f[k]] = s[k]
  BY DEF SameNames
<1>2. /\ f \in [S -> DOMAIN t] /\ \A a, b \in S : f[a] = f[b] => a = b
      /\ \A l \in DOMAIN t : \E a \in S : f[a] = l
  BY <1>1, Fun_BijectionProperties
<1> DEFINE g == [k \in A |-> f[k]]
<1>3. g \in [A -> B]
  BY <1>1, <1>2
<1>4. /\ \A a, b \in A : g[a] = g[b] => a = b
      /\ \A l \in B : \E a \in A : g[a] = l
  BY <1>1, <1>2
<1>5. IsFiniteSet(A)
  BY FS_Subset
<1> HIDE DEF A, B, g
<1>6. g \in Bijection(A, B)
  BY <1>3, <1>4, Fun_IsBij
<1>7. Cardinality(B) = Cardinality(A)
  BY <1>5, <1>6, FS_Bijection, Fun_ExistsBij
<1> QED
  BY <1>7 DEF A, B

LEMMA SameNamesLength ==
  ASSUME NEW T, NEW s, NEW S, NEW t \in Seq(T), SameNames(s, S, t), IsFiniteSet(S)
  PROVE  Cardinality(S) = Len(t)
<1>1. PICK f \in Bijection(S, DOMAIN t) : TRUE
  BY DEF SameNames
<1>2. Cardinality(DOMAIN t) = Cardinality(S)
  BY <1>1, FS_Bijection, Fun_ExistsBij
<1>3. DOMAIN t = 1 .. Len(t) /\ Len(t) \in Nat
  OBVIOUS
<1>4. Cardinality(1 .. Len(t)) = Len(t)
  BY <1>3, FS_Interval
<1> QED
  BY <1>2, <1>3, <1>4

(* The window shows names.                                                  *)
ListTyped == list \in [Clients -> Seq(Names)]

LEMMA ListStep == TypeInv /\ ListTyped /\ [Next]_vars => ListTyped'
<1> SUFFICES ASSUME TypeInv, ListTyped, [Next]_vars PROVE ListTyped'
  OBVIOUS
<1>1. ASSUME NEW c \in Clients, Ioctl(c) PROVE list' = list
  BY <1>1 DEF Ioctl, AddScan, AddFound, AddStore, AddCopy, RemovePass, RemoveMatch,
              RemoveFree, RemoveNull, ResetFree, ResetNull, LoopEnds, Delete, Clear,
              ChangePool, client
<1>2. ASSUME NEW c \in Clients, User(c) PROVE ListTyped'
  <2>1. CASE Returned(c)
    <3>1. request[c] \in Requests /\ list[c] \in Seq(Names)
      BY DEF TypeInv, TablesTyped, ListTyped
    <3>2. request[c].op = "add" => request[c].name \in Names
      BY <3>1 DEF Requests
    <3>3. Without(list[c], request[c].name) \in Seq(Names)
      BY <3>1, WithoutKeepsOthers
    <3>4. request[c].op = "add" => Append(list[c], request[c].name) \in Seq(Names)
      BY <3>1, <3>2
    <3>5. PICK shown \in Seq(Names) : list' = [list EXCEPT ![c] = shown]
      BY <2>1, <3>1, <3>3, <3>4 DEF Returned
    <3> QED
      BY <3>5 DEF ListTyped
  <2>2. CASE \E mode \in {"gui", "console"} : Start(c, mode)
    <3>1. <<>> \in Seq(Names)
      OBVIOUS
    <3> QED
      BY <2>2, <3>1 DEF Start, ListTyped
  <2>3. CASE \/ \E n \in Names : ClickAdd(c, n) \/ ConsoleAdd(c, n) \/ ClickRemove(c, n)
             \/ Exit(c)
    BY <2>3 DEF ClickAdd, ConsoleAdd, ClickRemove, Exit, ListTyped
  <2> QED
    BY <1>2, <2>1, <2>2, <2>3 DEF User
<1>3. ASSUME NEW h \in Hooks, Hook(h) PROVE list' = list
  BY <1>3 DEF Hook, HookCalled, SearchBegins, Load, Match, Differ, Miss, HookReturns,
              client
<1>4. CASE UNCHANGED vars
  BY <1>4 DEF vars, client, ListTyped
<1> QED
  BY <1>1, <1>2, <1>3, <1>4 DEF Next, ListTyped

(* Every variable has its type, for every number of clients, hooked calls,  *)
(* slots, names and blocks: in particular no loop over the table leaves it, *)
(* and what the window shows is always a list of names.                     *)
THEOREM Types == Spec => []TypeOK
<1>1. Init => ListTyped
  <2>1. <<>> \in Seq(Names)
    OBVIOUS
  <2> QED
    BY <2>1 DEF Init, ListTyped
<1>2. TypeInv /\ ListTyped => TypeOK
  BY DEF TypeInv, TablesTyped, ListTyped, TypeOK
<1> QED
  BY <1>1, <1>2, ListStep, TypeInvariant, PTL DEF Spec

-----------------------------------------------------------------------------
(* The window's list. *)

(* The slots that hold a name, and which. *)
Full == {i \in Slots : table[i] # Null /\ memory[table[i]] \in Names}
Contents == [i \in Full |-> memory[table[i]]]
FullBut(n) == {i \in Full : Contents[i] # n}

(* The table is as the window will show it: while a request is under way,   *)
(* what the window will make of its list when the request returns; where a  *)
(* loop has been, it has done its work.                                     *)
Mirrored(c) ==
  LET n == request[c].name
      shown == list[c]
      at == slot[c]
  IN  /\ pc[c] = "idle" => SameNames(Contents, Full, shown)
      /\ pc[c] \in {"add_scan", "add_store", "add_copy"} =>
           /\ request[c].op = "add"
           /\ SameNames(Contents, Full, shown)
      /\ pc[c] = "add_scan" =>
           /\ Len(shown) < MaxMonitored
           /\ \A i \in Slots : i < at => table[i] # Null
      /\ pc[c] \in {"remove_check", "remove_free", "remove_null"} =>
           /\ request[c].op = "remove"
           /\ SameNames(Contents, FullBut(n), Without(shown, n))
           /\ \A i \in Full : i < at => Contents[i] # n
      /\ pc[c] = "remove_free" => at \in Full /\ Contents[at] = n
      /\ pc[c] \in {"reset_free", "reset_null"} =>
           /\ request[c].op = "reset"
           /\ shown = <<>>
           /\ \A i \in Slots : i < at => table[i] = Null
      /\ pc[c] = "returning" =>
           SameNames(Contents, Full,
             CASE request[c].op = "add" -> Append(shown, n)
               [] request[c].op = "remove" -> Without(shown, n)
               [] request[c].op = "reset" -> shown)
MirrorInv == \A c \in Clients : session[c] = "gui" => Mirrored(c)

(* Only what the slots that hold a name hold matters. *)
LEMMA FullSame ==
  ASSUME \A i \in Slots :
           /\ i \in Full' <=> i \in Full
           /\ i \in Full => memory'[table'[i]] = memory[table[i]]
  PROVE  Full' = Full /\ Contents' = Contents /\ \A n : FullBut(n)' = FullBut(n)
<1>1. Full' = Full
  BY DEF Full
<1>2. Contents' = Contents
  <2>1. \A i \in Full : memory'[table'[i]] = memory[table[i]]
    BY DEF Full
  <2> QED
    BY <1>1, <2>1 DEF Contents
<1> QED
  BY <1>1, <1>2 DEF FullBut

LEMMA PoolSame ==
  UNCHANGED pool =>
    Full' = Full /\ Contents' = Contents /\ \A n : FullBut(n)' = FullBut(n)
<1>1. UNCHANGED pool => Full' = Full
  BY DEF Full, pool
<1> QED
  BY <1>1 DEF Contents, FullBut, pool

LEMMA InFull ==
  \A i : i \in Full <=>
    i \in Slots /\ table[i] # Null /\ memory[table[i]] \in Names
BY DEF Full

LEMMA ContentsOf == \A i \in Full : Contents[i] = memory[table[i]]
BY DEF Contents

(* A step of anyone else. *)
LEMMA MirrorStutter ==
  ASSUME MirrorInv, UNCHANGED pool, UNCHANGED client,
         \A c \in Clients : pc'[c] = pc[c] /\ slot'[c] = slot[c]
  PROVE  MirrorInv'
<1> SUFFICES ASSUME NEW c \in Clients, session'[c] = "gui" PROVE Mirrored(c)'
  BY DEF MirrorInv
<1>1. Mirrored(c) /\ request' = request /\ list' = list /\ table' = table
  BY DEF MirrorInv, client, pool
<1> QED
  BY <1>1, PoolSame DEF Mirrored

(* The steps of an add request. *)
LEMMA MirrorAdd ==
  ASSUME MirrorInv, OwnInv, TypeInv, OneClient, NEW c \in Clients, session[c] = "gui",
         AddScan(c) \/ AddFound(c) \/ AddStore(c) \/ AddCopy(c),
         list \in [Clients -> Seq(Names)]
  PROVE  Mirrored(c)'
<1> DEFINE at == slot[c]
           n == request[c].name
           shown == list[c]
<1>a. /\ Mirrored(c) /\ at \in Slots /\ at \in Int
      /\ request' = request /\ list' = list
      /\ table \in [Slots -> Blocks \cup {Null}]
      /\ memory \in [Blocks -> Names \cup {Unwritten, Freed}]
  BY SlotFacts DEF MirrorInv, TypeInv, TablesTyped, InRange, UsesSlot, AddScan, AddFound,
        AddStore, AddCopy, Goto, ChangePool, client, Slots
<1>b. \A from, to : Goto(c, from, to) => pc[c] = from /\ pc'[c] = to
  BY SlotFacts DEF Goto, TypeInv, TablesTyped
<1>1. CASE AddScan(c)
  <2>1. /\ pc[c] = "add_scan" /\ pc'[c] = "add_scan" /\ UNCHANGED pool
        /\ slot'[c] = at + 1 /\ table[at] # Null /\ table' = table
    BY <1>1, <1>b, SlotFacts DEF AddScan, At, TypeInv, TablesTyped, pool
  <2>2. \A i \in Slots : i < at + 1 => table'[i] # Null
    BY <1>a, <2>1 DEF Mirrored, Slots
  <2> QED
    BY <1>a, <2>1, <2>2, PoolSame DEF Mirrored
<1>2. CASE AddFound(c)
  <2>1. pc[c] = "add_scan" /\ pc'[c] = "add_store" /\ UNCHANGED pool
    BY <1>2, <1>b DEF AddFound
  <2> QED
    BY <1>a, <2>1, PoolSame DEF Mirrored
<1>3. CASE AddStore(c)
  <2>1. pc[c] = "add_store" /\ pc'[c] = "add_copy" /\ table[at] = Null
    BY <1>3, <1>b DEF AddStore, OwnInv, Holding
  <2>2. PICK b \in Blocks : /\ memory[b] = Freed
                            /\ memory' = [memory EXCEPT ![b] = Unwritten]
                            /\ table' = [table EXCEPT ![at] = b]
    BY <1>3 DEF AddStore
  <2>3. ASSUME NEW i \in Slots
        PROVE  /\ i \in Full' <=> i \in Full
               /\ i \in Full => memory'[table'[i]] = memory[table[i]]
    <3>1. i \in Full' <=> table'[i] # Null /\ memory'[table'[i]] \in Names
      BY DEF Full
    <3>2. CASE i = at
      BY <3>1, <3>2, <2>1, <2>2, <1>a, InFull, BlockAssumption
    <3>3. CASE i # at
      BY <3>1, <3>3, <2>2, <1>a, InFull, BlockAssumption
    <3> QED
      BY <3>2, <3>3
  <2>4. Full' = Full /\ Contents' = Contents
    BY <2>3, FullSame
  <2> QED
    BY <1>a, <2>1, <2>4 DEF Mirrored
<1>4. CASE AddCopy(c)
  <2> DEFINE b == table[at]
  <2>1. /\ pc[c] = "add_copy" /\ pc'[c] = "returning" /\ table' = table
        /\ b \in Blocks /\ memory[b] = Unwritten /\ n \in Names
        /\ memory' = [memory EXCEPT ![b] = n]
    BY <1>4, <1>a, <1>b DEF AddCopy, OwnInv, Holding, TypeInv, InRange, Adding
  <2>2. at \notin Full
    BY <2>1, InFull, BlockAssumption
  <2>3. ASSUME NEW i \in Slots
        PROVE  /\ i \in Full' <=> i \in Full \/ i = at
               /\ i \in Full => memory'[table'[i]] = memory[table[i]]
    <3>1. i \in Full' <=> table'[i] # Null /\ memory'[table'[i]] \in Names
      BY DEF Full
    <3>2. CASE i = at
      BY <3>1, <3>2, <2>1, <2>2, <1>a, BlockAssumption
    <3>3. CASE table[i] # b
      BY <3>1, <3>3, <2>1, <1>a, InFull
    <3>4. CASE table[i] = b /\ i # at
      BY <3>4, <2>1, <1>a, BlockAssumption DEF OwnInv, OneOwner
    <3> QED
      BY <3>2, <3>3, <3>4
  <2>4. Full' = Full \cup {at}
    BY <2>3, <1>a DEF Full
  <2>5. \A i \in Full' : Contents'[i] = memory'[table'[i]]
    BY DEF Contents
  <2>6. Contents'[at] = n /\ \A i \in Full : Contents'[i] = Contents[i]
    <3>1. Contents'[at] = n
      BY <2>1, <2>4, <2>5, <1>a
    <3>2. ASSUME NEW i \in Full PROVE Contents'[i] = Contents[i]
      <4>1. i \in Slots /\ i \in Full'
        BY <2>4, InFull
      <4> QED
        BY <4>1, <2>3, <2>5, ContentsOf
    <3> QED
      BY <3>1, <3>2
  <2>7. SameNames(Contents', Full, shown)
    <3>1. SameNames(Contents, Full, shown)
      BY <1>a, <2>1 DEF Mirrored
    <3> QED
      BY <2>6, <3>1, SameNamesElsewhere
  <2>8. SameNames(Contents', Full \cup {at}, Append(shown, n))
    <3>1. shown \in Seq(Names) /\ n \in Names
      BY <2>1
    <3> QED
      BY <3>1, <2>2, <2>6, <2>7, SameNamesAppend
  <2> QED
    BY <1>a, <2>1, <2>4, <2>8 DEF Mirrored
<1> QED
  BY <1>1, <1>2, <1>3, <1>4

(* The steps of a remove request. *)
LEMMA MirrorRemove ==
  ASSUME MirrorInv, OwnInv, TypeInv, OneClient, NEW c \in Clients, session[c] = "gui",
         RemovePass(c) \/ RemoveMatch(c) \/ RemoveFree(c) \/ RemoveNull(c)
  PROVE  Mirrored(c)'
<1> DEFINE at == slot[c]
           n == request[c].name
<1>a. /\ Mirrored(c) /\ at \in Slots
      /\ request' = request /\ list' = list
      /\ table \in [Slots -> Blocks \cup {Null}]
      /\ memory \in [Blocks -> Names \cup {Unwritten, Freed}]
  BY SlotFacts DEF MirrorInv, TypeInv, TablesTyped, InRange, UsesSlot, RemovePass,
        RemoveMatch, RemoveFree, RemoveNull, Delete, Clear, Goto, ChangePool, client
<1>b. \A from, to : Goto(c, from, to) => pc[c] = from /\ pc'[c] = to
  BY SlotFacts DEF Goto, TypeInv, TablesTyped
<1>c. \A i : At(c, i) => slot'[c] = i
  BY SlotFacts DEF At, TypeInv, TablesTyped
<1>d. Full \subseteq Slots /\ Slots \subseteq Int
  BY DEF Full, Slots
<1>1. CASE RemovePass(c)
  <2>1. /\ pc[c] = "remove_check" /\ pc'[c] = "remove_check" /\ UNCHANGED pool
        /\ slot'[c] = at + 1
        /\ table[at] # Null => FALSE \in Compare(table[at], n)
    BY <1>1, <1>b, <1>c DEF RemovePass
  <2>2. at \in Full => Contents[at] # n
    BY <2>1, InFull, ContentsOf DEF Compare
  <2>3. \A i \in Full : i < at + 1 => Contents[i] # n
    <3> SUFFICES ASSUME NEW i \in Full, i < at + 1 PROVE Contents[i] # n
      OBVIOUS
    <3>1. i = at \/ i < at
      <4>1. i \in Int /\ at \in Int
        BY <1>a, <1>d
      <4> QED
        BY <4>1
    <3> QED
      BY <3>1, <2>1, <2>2, <1>a DEF Mirrored
  <2> QED
    BY <1>a, <2>1, <2>3, PoolSame DEF Mirrored
<1>2. CASE RemoveMatch(c)
  <2>1. /\ pc[c] = "remove_check" /\ pc'[c] = "remove_free" /\ UNCHANGED pool
        /\ slot' = slot /\ table[at] # Null /\ TRUE \in Compare(table[at], n)
    BY <1>2, <1>b DEF RemoveMatch
  <2>2. ~Changing(at)
    BY <2>1 DEF Changing, OneClient, ChangePlaces
  <2>3. memory[table[at]] \in Names
    BY <2>1, <2>2, <1>a DEF OwnInv, Named
  <2>4. at \in Full /\ Contents[at] = n
    BY <2>1, <2>3, <1>a, InFull, ContentsOf DEF Compare
  <2> QED
    BY <1>a, <2>1, <2>4, PoolSame DEF Mirrored
<1>3. CASE RemoveFree(c)
  <2> DEFINE b == table[at]
  <2>1. /\ pc[c] = "remove_free" /\ pc'[c] = "remove_null" /\ slot' = slot
        /\ table' = table
        /\ memory' = IF b = Null THEN memory ELSE [memory EXCEPT ![b] = Freed]
    BY <1>3, <1>b DEF RemoveFree, Delete
  <2>2. at \in Full /\ Contents[at] = n
    BY <1>a, <2>1 DEF Mirrored
  <2>3. b \in Blocks /\ b # Null /\ memory' = [memory EXCEPT ![b] = Freed]
    BY <2>1, <2>2, <1>a, InFull
  <2>4. ASSUME NEW i \in Slots
        PROVE  /\ i \in Full' <=> i \in Full /\ i # at
               /\ i \in Full /\ i # at => memory'[table'[i]] = memory[table[i]]
    <3>1. i \in Full' <=> table'[i] # Null /\ memory'[table'[i]] \in Names
      BY DEF Full
    <3>2. CASE i = at
      BY <3>1, <3>2, <2>1, <2>3, <1>a, BlockAssumption
    <3>3. CASE i # at
      <4>1. table[i] # b
        BY <3>3, <2>3, <1>a DEF OwnInv, OneOwner
      <4> QED
        BY <3>1, <3>3, <4>1, <2>1, <2>3, <1>a, InFull
    <3> QED
      BY <3>2, <3>3
  <2>5. Full' = Full \ {at}
    BY <2>4 DEF Full
  <2>6. \A i \in Full' : Contents'[i] = Contents[i]
    <3> SUFFICES ASSUME NEW i \in Full' PROVE Contents'[i] = Contents[i]
      OBVIOUS
    <3>1. i \in Full /\ i # at /\ i \in Slots
      BY <2>5, <1>d
    <3>2. Contents'[i] = memory'[table'[i]]
      BY DEF Contents
    <3> QED
      BY <3>1, <3>2, <2>4, ContentsOf
  <2>7. FullBut(n)' = FullBut(n)
    <3>1. n' = n
      BY <1>a
    <3> QED
      BY <3>1, <2>2, <2>5, <2>6 DEF FullBut
  <2>8. SameNames(Contents', FullBut(n), Without(list[c], n))
    <3>1. SameNames(Contents, FullBut(n), Without(list[c], n))
      BY <1>a, <2>1 DEF Mirrored
    <3>2. \A i \in FullBut(n) : Contents'[i] = Contents[i]
      BY <2>6, <2>7 DEF FullBut
    <3> QED
      BY <3>1, <3>2, SameNamesElsewhere
  <2>9. \A i \in Full' : i < at => Contents'[i] # n
    BY <2>1, <2>5, <2>6, <1>a DEF Mirrored
  <2> QED
    BY <1>a, <2>1, <2>7, <2>8, <2>9 DEF Mirrored
<1>4. CASE RemoveNull(c)
  <2>1. /\ pc[c] = "remove_null" /\ pc'[c] = "remove_check" /\ slot'[c] = at + 1
        /\ memory' = memory /\ table' = [table EXCEPT ![at] = Null]
    BY <1>4, <1>b, <1>c DEF RemoveNull, Clear
  <2>2. at \notin Full
    <3>1. table[at] = Null \/ memory[table[at]] = Freed
      BY <2>1 DEF OwnInv, Holding
    <3> QED
      BY <3>1, InFull, BlockAssumption
  <2>3. ASSUME NEW i \in Slots
        PROVE  /\ i \in Full' <=> i \in Full
               /\ i \in Full => memory'[table'[i]] = memory[table[i]]
    <3>1. i \in Full' <=> table'[i] # Null /\ memory'[table'[i]] \in Names
      BY DEF Full
    <3> QED
      BY <3>1, <2>1, <2>2, <1>a, InFull
  <2>4. Full' = Full /\ Contents' = Contents /\ \A m : FullBut(m)' = FullBut(m)
    BY <2>3, FullSame
  <2>5. \A i \in Full : i < at + 1 => Contents[i] # n
    <3> SUFFICES ASSUME NEW i \in Full, i < at + 1 PROVE Contents[i] # n
      OBVIOUS
    <3>1. i < at
      <4>1. i \in Int /\ at \in Int /\ i # at
        BY <2>2, <1>a, <1>d
      <4> QED
        BY <4>1
    <3> QED
      BY <3>1, <2>1, <1>a DEF Mirrored
  <2> QED
    BY <1>a, <2>1, <2>4, <2>5 DEF Mirrored
<1> QED
  BY <1>1, <1>2, <1>3, <1>4

(* The steps of a reset. *)
LEMMA MirrorReset ==
  ASSUME MirrorInv, TypeInv, NEW c \in Clients, session[c] = "gui",
         ResetFree(c) \/ ResetNull(c)
  PROVE  Mirrored(c)'
<1>a. /\ Mirrored(c) /\ slot[c] \in Slots
      /\ request' = request /\ list' = list
      /\ table \in [Slots -> Blocks \cup {Null}]
  BY SlotFacts DEF MirrorInv, TypeInv, TablesTyped, InRange, UsesSlot, ResetFree,
        ResetNull, Delete, Clear, Goto, ChangePool, client
<1>b. \A from, to : Goto(c, from, to) => pc[c] = from /\ pc'[c] = to
  BY SlotFacts DEF Goto, TypeInv, TablesTyped
<1>1. CASE ResetFree(c)
  <2>1. /\ pc[c] = "reset_free" /\ pc'[c] = "reset_null"
        /\ slot' = slot /\ table' = table
    BY <1>1, <1>b DEF ResetFree, Delete
  <2> QED
    BY <1>a, <2>1 DEF Mirrored
<1>2. CASE ResetNull(c)
  <2>1. /\ pc[c] = "reset_null" /\ pc'[c] = "reset_free"
        /\ slot'[c] = slot[c] + 1 /\ table' = [table EXCEPT ![slot[c]] = Null]
    BY <1>2, <1>b, SlotFacts DEF ResetNull, Clear, At, TypeInv, TablesTyped
  <2>2. \A i \in Slots : i < slot[c] + 1 => table'[i] = Null
    BY <1>a, <2>1 DEF Mirrored, Slots
  <2> QED
    BY <1>a, <2>1, <2>2 DEF Mirrored
<1> QED
  BY <1>1, <1>2

(* The end of the loop: an add request from the window always finds a slot, *)
(* for the window shows fewer names than there are slots.                   *)
LEMMA MirrorLoopEnds ==
  ASSUME MirrorInv, OwnInv, TypeInv, OneClient, ListTyped, NEW c \in Clients,
         session[c] = "gui", LoopEnds(c)
  PROVE  Mirrored(c)'
<1> DEFINE n == request[c].name
           shown == list[c]
<1>a. /\ Mirrored(c) /\ slot[c] = MaxMonitored /\ UNCHANGED pool
      /\ request' = request /\ list' = list /\ shown \in Seq(Names)
  BY DEF MirrorInv, LoopEnds, client, ListTyped
<1>b. PICK loop \in {"add_scan", "remove_check", "reset_free"} :
        pc[c] = loop /\ pc'[c] = "returning"
  BY SlotFacts DEF LoopEnds, Goto, TypeInv, TablesTyped
<1>c. \A i \in Slots : i < MaxMonitored
  BY MaxAssumption DEF Slots
<1>1. CASE loop = "add_scan"
  <2>1. \A i \in Slots : table[i] # Null
    BY <1>1, <1>a, <1>b, <1>c DEF Mirrored
  <2>2. \A i : ~Changing(i)
    BY <1>1, <1>b DEF Changing, OneClient, ChangePlaces
  <2>3. Full = Slots
    BY <2>1, <2>2 DEF Full, OwnInv, Named
  <2>4. IsFiniteSet(Slots) /\ Cardinality(Slots) = MaxMonitored
    <3>1. 0 \in Int /\ MaxMonitored - 1 \in Int /\ 0 <= MaxMonitored - 1
      BY MaxAssumption
    <3>2. /\ IsFiniteSet(0 .. (MaxMonitored - 1))
          /\ Cardinality(0 .. (MaxMonitored - 1)) = (MaxMonitored - 1) - 0 + 1
      BY <3>1, FS_Interval
    <3> QED
      BY <3>2, MaxAssumption DEF Slots
  <2>5. SameNames(Contents, Slots, shown) /\ Len(shown) < MaxMonitored
    BY <1>1, <1>a, <1>b, <2>3 DEF Mirrored
  <2>6. Len(shown) = MaxMonitored
    BY <2>4, <2>5, <1>a, SameNamesLength
  <2> QED
    BY <2>5, <2>6, MaxAssumption
<1>2. CASE loop = "remove_check"
  <2>1. FullBut(n) = Full
    <3>1. \A i \in Full : Contents[i] # n
      BY <1>2, <1>a, <1>b, <1>c DEF Mirrored, Full
    <3> QED
      BY <3>1 DEF FullBut
  <2>2. SameNames(Contents, Full, Without(shown, n)) /\ request[c].op = "remove"
    BY <1>2, <1>a, <1>b, <2>1 DEF Mirrored
  <2> QED
    BY <1>a, <1>b, <2>2, PoolSame DEF Mirrored
<1>3. CASE loop = "reset_free"
  <2>1. /\ request[c].op = "reset" /\ shown = <<>>
        /\ \A i \in Slots : table[i] = Null
    BY <1>3, <1>a, <1>b, <1>c DEF Mirrored
  <2>2. Full = {}
    BY <2>1 DEF Full
  <2>3. SameNames(Contents, Full, shown)
    BY <2>1, <2>2, SameNamesEmpty
  <2> QED
    BY <1>a, <1>b, <2>1, <2>3, PoolSame DEF Mirrored
<1> QED
  BY <1>1, <1>2, <1>3

(* What the user does. *)
LEMMA MirrorUser ==
  ASSUME MirrorInv, TypeInv, ListTyped, NEW c \in Clients, User(c), session'[c] = "gui"
  PROVE  Mirrored(c)'
<1>a. /\ session \in [Clients -> {"none", "gui", "console"}]
      /\ request \in [Clients -> Requests] /\ list \in [Clients -> Seq(Names)]
      /\ UNCHANGED pool
  BY DEF TypeInv, TablesTyped, ListTyped, User, Start, ClickAdd, ConsoleAdd, ClickRemove,
         Send, Returned, Exit
<1>b. ASSUME NEW to, NEW op, NEW n, Send(c, to, op, n)
      PROVE  /\ pc[c] = "idle" /\ pc'[c] = to /\ slot'[c] = 0
             /\ request'[c].op = op /\ request'[c].name = n
  BY <1>a, <1>b, SlotFacts DEF Send, Goto, At, TypeInv, TablesTyped
<1>c. \A i \in Slots : ~(i < 0)
  BY DEF Slots
<1>d. Full \subseteq Slots /\ Full' = Full /\ Contents' = Contents
      /\ \A n : FullBut(n)' = FullBut(n)
  BY <1>a, PoolSame DEF Full
<1>1. CASE \E mode \in {"gui", "console"} : Start(c, mode)
  <2>1. /\ pc'[c] = "reset_free" /\ slot'[c] = 0 /\ request'[c].op = "reset"
        /\ list'[c] = <<>>
    BY <1>1, <1>a, <1>b DEF Start
  <2> QED
    BY <2>1, <1>c DEF Mirrored
<1>2. ASSUME NEW n \in Names, ClickAdd(c, n)
      PROVE  Mirrored(c)'
  <2>1. /\ session[c] = "gui" /\ Len(list[c]) < MaxMonitored /\ list' = list
        /\ pc[c] = "idle" /\ pc'[c] = "add_scan" /\ slot'[c] = 0
        /\ request'[c].op = "add"
    BY <1>2, <1>b DEF ClickAdd
  <2>2. SameNames(Contents, Full, list[c])
    BY <2>1 DEF MirrorInv, Mirrored
  <2> QED
    BY <2>1, <2>2, <1>c, <1>d DEF Mirrored
<1>3. ASSUME NEW n \in Names, ConsoleAdd(c, n)
      PROVE  Mirrored(c)'
  BY <1>3 DEF ConsoleAdd
<1>4. ASSUME NEW n \in Names, ClickRemove(c, n)
      PROVE  Mirrored(c)'
  <2>1. /\ session[c] = "gui" /\ list' = list
        /\ pc[c] = "idle" /\ pc'[c] = "remove_check" /\ slot'[c] = 0
        /\ request'[c].op = "remove" /\ request'[c].name = n
    BY <1>4, <1>b DEF ClickRemove
  <2>2. SameNames(Contents, Full, list[c]) /\ list[c] \in Seq(Names)
    BY <2>1, <1>a DEF MirrorInv, Mirrored
  <2>3. SameNames(Contents, FullBut(n), Without(list[c], n))
    <3>1. SameNames(Contents, {k \in Full : Contents[k] # n}, Without(list[c], n))
      BY <2>2, WithoutFilters
    <3> QED
      BY <3>1 DEF FullBut
  <2> QED
    BY <2>1, <2>3, <1>c, <1>d DEF Mirrored
<1>5. CASE Returned(c)
  <2>1. /\ session[c] = "gui" /\ pc[c] = "returning" /\ pc'[c] = "idle"
        /\ request[c].op \in {"add", "remove", "reset"}
    BY <1>5, <1>a, SlotFacts DEF Returned, Goto, TypeInv, TablesTyped, Requests
  <2>2. list'[c] = CASE request[c].op = "add" -> Append(list[c], request[c].name)
                     [] request[c].op = "remove" -> Without(list[c], request[c].name)
                     [] request[c].op = "reset" -> list[c]
    BY <1>5, <1>a, <2>1 DEF Returned
  <2>3. SameNames(Contents, Full, list'[c])
    BY <2>1, <2>2 DEF MirrorInv, Mirrored
  <2> QED
    BY <2>1, <2>3, <1>d DEF Mirrored
<1>6. CASE Exit(c)
  BY <1>6, <1>a DEF Exit
<1> QED
  BY <1>1, <1>2, <1>3, <1>4, <1>5, <1>6 DEF User

LEMMA MirrorStep ==
  ASSUME OneClient
  PROVE  MirrorInv /\ OwnInv /\ TypeInv /\ ListTyped /\ [Next]_vars => MirrorInv'
<1> SUFFICES ASSUME MirrorInv, OwnInv, TypeInv, ListTyped, [Next]_vars
             PROVE  MirrorInv'
  OBVIOUS
<1>1. ASSUME NEW c \in Clients, Ioctl(c), NEW d \in Clients, session'[d] = "gui"
      PROVE  Mirrored(d)'
  <2>1. d = c
    BY DEF OneClient
  <2>2. session' = session
    BY <1>1 DEF Ioctl, AddScan, AddFound, AddStore, AddCopy, RemovePass, RemoveMatch,
                RemoveFree, RemoveNull, ResetFree, ResetNull, LoopEnds, Delete, Clear,
                ChangePool, client
  <2> QED
    BY <1>1, <2>1, <2>2, MirrorAdd, MirrorRemove, MirrorReset, MirrorLoopEnds
    DEF Ioctl, ListTyped
<1>2. ASSUME NEW c \in Clients, User(c), NEW d \in Clients, session'[d] = "gui"
      PROVE  Mirrored(d)'
  BY <1>2, MirrorUser DEF OneClient
<1>3. ASSUME NEW h \in Hooks, Hook(h)
      PROVE  MirrorInv'
  <2>1. UNCHANGED pool /\ UNCHANGED client
    BY <1>3 DEF Hook, HookCalled, SearchBegins, Load, Match, Differ, Miss, HookReturns
  <2>2. \A x \in Actors \ {h} : pc'[x] = pc[x] /\ slot'[x] = slot[x]
    BY <1>3 DEF Hook, HookCalled, SearchBegins, Load, Match, Differ, Miss, HookReturns,
           Goto, At, TypeInv, TablesTyped
  <2>3. \A c \in Clients : c \in Actors \ {h}
    BY ActorAssumption DEF Actors
  <2> QED
    BY <2>1, <2>2, <2>3, MirrorStutter
<1>4. CASE UNCHANGED vars
  BY <1>4, MirrorStutter DEF vars
<1> QED
  BY <1>1, <1>2, <1>3, <1>4 DEF Next, MirrorInv

LEMMA MirrorInvImplies == MirrorInv => ListMirrorsTable
<1> SUFFICES ASSUME MirrorInv, NEW c \in Clients, session[c] = "gui", pc[c] = "idle",
                    NEW n \in Names
             PROVE  Cardinality({i \in Slots : Holds(i, n)}) =
                      Cardinality({k \in DOMAIN list[c] : list[c][k] = n})
  BY DEF ListMirrorsTable
<1>1. SameNames(Contents, Full, list[c])
  BY DEF MirrorInv, Mirrored
<1>2. IsFiniteSet(Full)
  <2>1. IsFiniteSet(Slots)
    BY MaxAssumption, FS_Interval DEF Slots
  <2> QED
    BY <2>1, FS_Subset DEF Full
<1>3. {i \in Slots : Holds(i, n)} = {i \in Full : Contents[i] = n}
  BY InFull, ContentsOf DEF Holds
<1> QED
  BY <1>1, <1>2, <1>3, SameNamesCount

(* With one KernelMon.exe, whatever is added, removed, ended and started    *)
(* again, its window shows the drivers that are monitored, each as often as *)
(* the table holds it: an add request never fails for want of a slot.       *)
THEOREM ListMirrors ==
  ASSUME OneClient
  PROVE  Spec => []ListMirrorsTable
<1>1. Init => MirrorInv /\ ListTyped
  <2> SUFFICES ASSUME Init PROVE MirrorInv /\ ListTyped
    OBVIOUS
  <2>1. <<>> \in Seq(Names)
    OBVIOUS
  <2>2. \A c \in Clients : session[c] = "none"
    BY DEF Init
  <2> QED
    BY <2>1, <2>2 DEF Init, MirrorInv, ListTyped
<1> QED
  BY <1>1, OwnInit, OwnStep, ListStep, MirrorStep, MirrorInvImplies, TypeInvariant, PTL
  DEF Spec
=============================================================================
