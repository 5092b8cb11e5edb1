-------------------------- MODULE TransparentHooks --------------------------
(***************************************************************************)
(* What the hooking layer promises the guest, without the mechanism.       *)
(*                                                                         *)
(* Every processor runs instructions.  An instruction that fetches from a  *)
(* hooked page finds the patched copy of the page, and one that reads or   *)
(* writes a hooked page finds the original: the hook is never by-passed    *)
(* and never seen.  An interrupt may take an instruction away before it    *)
(* retires; it is then started again later.                                *)
(***************************************************************************)

CONSTANTS
  Cpus,          (* The logical processors.                                *)
  HookedPages,   (* The guest physical pages that hold a hooked function.  *)
  Instructions,  (* The instructions the guest may run.                    *)
  NoInsn         (* No instruction is being executed.                      *)

VARIABLES
  cur,           (* The instruction each processor is executing.           *)
  seen           (* What the last instruction each processor retired found *)
                 (* on the hooked pages it touched.                        *)

vars == <<cur, seen>>

(* The accesses of an instruction, one record per page and kind. *)
Accesses(i) ==
  {[page |-> i.fetch, kind |-> "execute"]}
    \cup {[page |-> p, kind |-> "read"] : p \in i.reads}
    \cup {[page |-> p, kind |-> "write"] : p \in i.writes}

HookedAccesses(i) == {a \in Accesses(i) : a.page \in HookedPages}

(* The copy of a hooked page an access of this kind must reach. *)
Promised(kind) ==
  IF kind = "execute" THEN "execute_page" ELSE "read_write_page"

Init ==
  /\ cur = [c \in Cpus |-> NoInsn]
  /\ seen = [c \in Cpus |-> {}]

Begin(c, i) ==
  /\ cur[c] = NoInsn
  /\ cur' = [cur EXCEPT ![c] = i]
  /\ UNCHANGED seen

Retire(c) ==
  /\ cur[c] # NoInsn
  /\ seen' = [seen EXCEPT ![c] =
                {[access |-> a, frame |-> Promised(a.kind)] :
                    a \in HookedAccesses(cur[c])}]
  /\ cur' = [cur EXCEPT ![c] = NoInsn]

Interrupted(c) ==
  /\ cur' = [cur EXCEPT ![c] = NoInsn]
  /\ UNCHANGED seen

Next ==
  \E c \in Cpus :
    \/ \E i \in Instructions : Begin(c, i)
    \/ Retire(c)
    \/ Interrupted(c)

Spec == Init /\ [][Next]_vars

=============================================================================
