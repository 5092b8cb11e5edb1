-------------------------- MODULE MonitoredDrivers --------------------------
(***************************************************************************)
(* globals.monitored_drivers: the table of the names of the drivers whose  *)
(* calls are logged.  The add, remove and reset requests of KernelMon.exe  *)
(* change it, the hook callbacks search it (is_driver_monitored), and no   *)
(* lock protects it: each access to a slot, and each access to the pool    *)
(* block a slot points to, is a step of its own.                           *)
(*                                                                         *)
(* On the other side of the requests, the window of KernelMon.exe keeps a  *)
(* list of its own of the drivers it asked for (monitored_drivers_), which *)
(* it never reads back from the driver.                                    *)
(***************************************************************************)
EXTENDS Integers, Sequences, FiniteSets

CONSTANTS
  MaxMonitored,  (* MAX_MONITORED_DRIVERS                                  *)
  Names,         (* The names of drivers.                                  *)
  Clients,       (* The running copies of KernelMon.exe.                   *)
  Hooks,         (* The threads that call hooked functions.                *)
  Blocks,        (* The pool blocks the driver may be given.               *)
  Null,          (* The null pointer.                                      *)
  Unwritten,     (* The contents of a block nobody has written yet.        *)
  Freed          (* The contents of a block the pool owns.                 *)

Slots == 0 .. (MaxMonitored - 1)
Actors == Clients \cup Hooks

ASSUME MaxAssumption == MaxMonitored \in Nat \ {0}
ASSUME ActorAssumption == Clients \cap Hooks = {}
ASSUME BlockAssumption ==
  Null \notin Blocks /\ Unwritten \notin Names /\ Freed \notin Names

VARIABLES
  table,     (* globals.monitored_drivers                                  *)
  memory,    (* What each block holds.                                     *)
  pc,        (* Where each client and each hook callback is.               *)
  slot,      (* The slot its loop has come to.                             *)
  session,   (* How each copy of KernelMon.exe was started.                *)
  request,   (* The request it has sent.                                   *)
  list,      (* The names its window shows.                                *)
  caller,    (* The driver that called the hooked function.                *)
  held,      (* The pointer is_driver_monitored has loaded.                *)
  kept       (* History: the slots that have held the caller's name ever   *)
             (* since the search began.                                    *)

pool == <<table, memory>>
client == <<session, request, list>>
search == <<caller, held, kept>>
vars == <<pool, pc, slot, client, search>>

Requests == [op : {"add", "remove"}, name : Names]
              \cup [op : {"reset"}, name : {Null}]

Holds(i, n) == table[i] # Null /\ memory[table[i]] = n

(* What wcscmp of a block with a name may answer: anything, if the block is *)
(* not a written one.                                                       *)
Compare(b, n) == IF memory[b] \in Names THEN {memory[b] = n} ELSE BOOLEAN

Init ==
  /\ table = [i \in Slots |-> Null]
  /\ memory = [b \in Blocks |-> Freed]
  /\ pc = [x \in Actors |-> "idle"]
  /\ slot = [x \in Actors |-> 0]
  /\ session = [c \in Clients |-> "none"]
  /\ request = [c \in Clients |-> [op |-> "reset", name |-> Null]]
  /\ list = [c \in Clients |-> <<>>]
  /\ caller \in [Hooks -> Names]
  /\ held = [h \in Hooks |-> Null]
  /\ kept = [h \in Hooks |-> {}]

Goto(x, from, to) ==
  /\ pc[x] = from
  /\ pc' = [pc EXCEPT ![x] = to]

At(x, i) == slot' = [slot EXCEPT ![x] = i]

(* A slot that no longer holds the caller's name is not kept. *)
Remember ==
  kept' = [h \in Hooks |-> {i \in kept[h] : Holds(i, caller[h])'}]

ChangePool == UNCHANGED <<client, caller, held>> /\ Remember

-----------------------------------------------------------------------------
(* KernelMon.exe *)

Send(c, to, op, n) ==
  /\ Goto(c, "idle", to)
  /\ At(c, 0)
  /\ request' = [request EXCEPT ![c] = [op |-> op, name |-> n]]
  /\ UNCHANGED <<pool, search>>

(* The constructor of Application: an empty list, and reset_state(). *)
Start(c, mode) ==
  /\ session[c] = "none"
  /\ session' = [session EXCEPT ![c] = mode]
  /\ list' = [list EXCEPT ![c] = <<>>]
  /\ Send(c, "reset_free", "reset", Null)

(* "add driver" in the window, which stops at MAX_MONITORED_DRIVERS ...     *)
ClickAdd(c, n) ==
  /\ session[c] = "gui"
  /\ Len(list[c]) < MaxMonitored
  /\ Send(c, "add_scan", "add", n)
  /\ UNCHANGED <<session, list>>

(* ... which the console does not.                                          *)
ConsoleAdd(c, n) ==
  /\ session[c] = "console"
  /\ Send(c, "add_scan", "add", n)
  /\ UNCHANGED <<session, list>>

(* "remove driver" *)
ClickRemove(c, n) ==
  /\ session[c] = "gui"
  /\ list[c] # <<>>
  /\ Send(c, "remove_check", "remove", n)
  /\ UNCHANGED <<session, list>>

(* std::remove and erase: all the others, in their order.                   *)
Without(s, n) ==
  LET upto[k \in 0 .. Len(s)] ==
        IF k = 0 THEN <<>>
        ELSE IF s[k] = n THEN upto[k - 1] ELSE Append(upto[k - 1], s[k])
  IN  upto[Len(s)]

(* The request returns, and the window changes its own list whatever the    *)
(* answer was.                                                              *)
Returned(c) ==
  /\ Goto(c, "returning", "idle")
  /\ LET n == request[c].name
         shown == list[c]
     IN  list' = [list EXCEPT ![c] =
           CASE session[c] = "gui" /\ request[c].op = "add" -> Append(shown, n)
             [] session[c] = "gui" /\ request[c].op = "remove" ->
                  Without(shown, n)
             [] OTHER -> shown]
  /\ UNCHANGED <<pool, slot, session, request, search>>

(* KernelMon.exe ends, or is ended, between two requests. *)
Exit(c) ==
  /\ pc[c] = "idle"
  /\ session[c] # "none"
  /\ session' = [session EXCEPT ![c] = "none"]
  /\ UNCHANGED <<pool, pc, slot, request, list, search>>

-----------------------------------------------------------------------------
(* DriverDeviceControl *)

(* The loop has come to its end, and the request is completed. *)
LoopEnds(c) ==
  /\ \E loop \in {"add_scan", "remove_check", "reset_free"} :
       Goto(c, loop, "returning")
  /\ slot[c] = MaxMonitored
  /\ UNCHANGED <<pool, slot, client, search>>

(* AddDriver passes over a slot in use, *)
AddScan(c) ==
  /\ Goto(c, "add_scan", "add_scan")
  /\ slot[c] \in Slots
  /\ table[slot[c]] # Null
  /\ At(c, slot[c] + 1)
  /\ UNCHANGED <<pool, client, search>>

AddFound(c) ==
  /\ Goto(c, "add_scan", "add_store")
  /\ slot[c] \in Slots
  /\ table[slot[c]] = Null
  /\ UNCHANGED <<pool, slot, client, search>>

(* stores a new block into the first one that is not, *)
AddStore(c) ==
  /\ Goto(c, "add_store", "add_copy")
  /\ \E b \in Blocks :
       /\ memory[b] = Freed
       /\ memory' = [memory EXCEPT ![b] = Unwritten]
       /\ table' = [table EXCEPT ![slot[c]] = b]
  /\ ChangePool
  /\ UNCHANGED slot

(* and copies the name to where the slot points by then. *)
AddCopy(c) ==
  /\ Goto(c, "add_copy", "returning")
  /\ table[slot[c]] # Null
  /\ memory' = [memory EXCEPT ![table[slot[c]]] = request[c].name]
  /\ UNCHANGED <<table, slot>>
  /\ ChangePool

(* RemoveDriver passes over a slot that does not hold the name. *)
RemovePass(c) ==
  /\ Goto(c, "remove_check", "remove_check")
  /\ slot[c] \in Slots
  /\ table[slot[c]] # Null => FALSE \in Compare(table[slot[c]], request[c].name)
  /\ At(c, slot[c] + 1)
  /\ UNCHANGED <<pool, client, search>>

RemoveMatch(c) ==
  /\ Goto(c, "remove_check", "remove_free")
  /\ slot[c] \in Slots
  /\ table[slot[c]] # Null
  /\ TRUE \in Compare(table[slot[c]], request[c].name)
  /\ UNCHANGED <<pool, slot, client, search>>

(* delete driver *)
Delete(c) ==
  /\ memory' = IF table[slot[c]] = Null
                 THEN memory
                 ELSE [memory EXCEPT ![table[slot[c]]] = Freed]
  /\ UNCHANGED <<table, slot>>
  /\ ChangePool

(* driver = nullptr, and on to the next *)
Clear(c) ==
  /\ table' = [table EXCEPT ![slot[c]] = Null]
  /\ At(c, slot[c] + 1)
  /\ UNCHANGED memory
  /\ ChangePool

(* Mutant: the pointer to the freed block stays in the table. *)
LeaveDangling(c) ==
  /\ At(c, slot[c] + 1)
  /\ UNCHANGED pool
  /\ ChangePool

RemoveFree(c) == Goto(c, "remove_free", "remove_null") /\ Delete(c)

(* Mutant: the loop is left at the first match. *)
RemoveNullAndStop(c) ==
  /\ Goto(c, "remove_null", "returning")
  /\ Clear(c)

RemoveNull(c) == Goto(c, "remove_null", "remove_check") /\ Clear(c)

(* ResetState does both in every slot. *)
ResetFree(c) ==
  /\ slot[c] \in Slots
  /\ Goto(c, "reset_free", "reset_null")
  /\ Delete(c)

(* Mutant: the slot is not cleared. *)
ResetNoNull(c) == Goto(c, "reset_null", "reset_free") /\ LeaveDangling(c)

ResetNull(c) == Goto(c, "reset_null", "reset_free") /\ Clear(c)

-----------------------------------------------------------------------------
(* A hook callback. *)

(* A driver calls a hooked function, and the callback calls the original    *)
(* through the jump stub first.                                             *)
HookCalled(h, n) ==
  /\ Goto(h, "idle", "original")
  /\ caller' = [caller EXCEPT ![h] = n]
  /\ kept' = [kept EXCEPT ![h] = {}]
  /\ UNCHANGED <<pool, slot, client, held>>

(* The original has returned; the search of the table begins. *)
SearchBegins(h) ==
  /\ Goto(h, "original", "load")
  /\ At(h, 0)
  /\ kept' = [kept EXCEPT ![h] = {i \in Slots : Holds(i, caller[h])}]
  /\ UNCHANGED <<pool, client, caller, held>>

(* Mutant: a null slot is taken for the end of the table. *)
LoadStopsAtNull(h) ==
  /\ slot[h] \in Slots
  /\ held' = [held EXCEPT ![h] = table[slot[h]]]
  /\ Goto(h, "load", IF table[slot[h]] = Null THEN "missed" ELSE "compare")
  /\ UNCHANGED <<pool, slot, client, caller, kept>>

(* The loop copies the pointer and skips a null one. *)
Load(h) ==
  /\ slot[h] \in Slots
  /\ held' = [held EXCEPT ![h] = table[slot[h]]]
  /\ IF table[slot[h]] = Null
       THEN Goto(h, "load", "load") /\ At(h, slot[h] + 1)
       ELSE Goto(h, "load", "compare") /\ UNCHANGED slot
  /\ UNCHANGED <<pool, client, caller, kept>>

(* wcscmp through the copied pointer, whatever the table holds by then. *)
Match(h) ==
  /\ Goto(h, "compare", "found")
  /\ TRUE \in Compare(held[h], caller[h])
  /\ UNCHANGED <<pool, slot, client, search>>

Differ(h) ==
  /\ Goto(h, "compare", "load")
  /\ FALSE \in Compare(held[h], caller[h])
  /\ At(h, slot[h] + 1)
  /\ UNCHANGED <<pool, client, search>>

Miss(h) ==
  /\ Goto(h, "load", "missed")
  /\ slot[h] = MaxMonitored
  /\ UNCHANGED <<pool, slot, client, search>>

(* The callback logs the call if it found the caller, and returns. *)
HookReturns(h) ==
  /\ \E answer \in {"found", "missed"} : Goto(h, answer, "idle")
  /\ UNCHANGED <<pool, slot, client, search>>

-----------------------------------------------------------------------------
Ioctl(c) ==
  \/ AddScan(c) \/ AddFound(c) \/ AddStore(c) \/ AddCopy(c)
  \/ RemovePass(c) \/ RemoveMatch(c) \/ RemoveFree(c) \/ RemoveNull(c)
  \/ ResetFree(c) \/ ResetNull(c)
  \/ LoopEnds(c)

User(c) ==
  \/ \E mode \in {"gui", "console"} : Start(c, mode)
  \/ \E n \in Names : ClickAdd(c, n) \/ ConsoleAdd(c, n) \/ ClickRemove(c, n)
  \/ Returned(c)
  \/ Exit(c)

Hook(h) ==
  \/ \E n \in Names : HookCalled(h, n)
  \/ SearchBegins(h)
  \/ Load(h) \/ Match(h) \/ Differ(h) \/ Miss(h)
  \/ HookReturns(h)

Next ==
  \/ \E c \in Clients : Ioctl(c) \/ User(c)
  \/ \E h \in Hooks : Hook(h)

Spec == Init /\ [][Next]_vars

-----------------------------------------------------------------------------
(* Properties. *)

ClientPlaces == {"idle", "returning", "add_scan", "add_store", "add_copy",
                 "remove_check", "remove_free", "remove_null",
                 "reset_free", "reset_null"}
HookPlaces == {"idle", "original", "load", "compare", "found", "missed"}

(* Every variable has its type. *)
TypeOK ==
  /\ table \in [Slots -> Blocks \cup {Null}]
  /\ memory \in [Blocks -> Names \cup {Unwritten, Freed}]
  /\ pc \in [Actors -> ClientPlaces \cup HookPlaces]
  /\ slot \in [Actors -> 0 .. MaxMonitored]
  /\ session \in [Clients -> {"none", "gui", "console"}]
  /\ request \in [Clients -> Requests]
  /\ list \in [Clients -> Seq(Names)]
  /\ caller \in [Hooks -> Names]
  /\ held \in [Hooks -> Blocks \cup {Null}]
  /\ kept \in [Hooks -> SUBSET Slots]

(* The slot whose block a request has deleted but not yet cleared, or has   *)
(* not written yet.                                                         *)
Dangling(i) ==
  \E c \in Clients : pc[c] \in {"remove_null", "reset_null"} /\ slot[c] = i
Unnamed(i) == \E c \in Clients : pc[c] = "add_copy" /\ slot[c] = i

(* Every block taken from the pool belongs to exactly one slot, so none is  *)
(* leaked and none freed twice; and outside of the requests that are about  *)
(* to change it a slot is null or points to a written name.                 *)
BlocksOwned ==
  /\ \A b \in Blocks :
       memory[b] # Freed =>
         /\ \E i \in Slots : table[i] = b
         /\ \A i, j \in Slots : table[i] = b /\ table[j] = b => i = j
  /\ \A i \in Slots :
       table[i] # Null =>
         \/ memory[table[i]] \in Names
         \/ memory[table[i]] = Freed /\ Dangling(i)
         \/ memory[table[i]] = Unwritten /\ Unnamed(i)

(* The window, which never asks, shows the very drivers that are monitored, *)
(* each as often as the table holds it, also after KernelMon.exe was ended  *)
(* and started again.                                                       *)
ListMirrorsTable ==
  \A c \in Clients :
    session[c] = "gui" /\ pc[c] = "idle" =>
      \A n \in Names :
        Cardinality({i \in Slots : Holds(i, n)}) =
          Cardinality({k \in DOMAIN list[c] : list[c][k] = n})

(* A search without a lock still finds a driver that stays in its slot from *)
(* the search's first step to its last, whatever happens to other slots.    *)
StayingFound == \A h \in Hooks : pc[h] = "missed" => kept[h] = {}

=============================================================================
