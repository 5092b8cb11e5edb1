---------------------------- MODULE LogPipeline ----------------------------
(***************************************************************************)
(* The way of a log entry: a hook callback pushes it into the log buffer,  *)
(* a GetData request pops it, and KernelMon.exe adds it to the list its    *)
(* window shows (the console prints it instead).  The buffer is the queue  *)
(* LogQueue, which CyclicBuffer implements.                                *)
(*                                                                         *)
(* The window polls on a timer, one entry each time, from the thread that  *)
(* also draws it; it may be closed or killed, and be started again, while  *)
(* the driver stays.  ResetState, with which it starts, clears the table   *)
(* of monitored drivers and not the buffer.                                *)
(***************************************************************************)
EXTENDS Naturals, Sequences

CONSTANTS
  Producers,   (* The threads that call hooked functions.                  *)
  App,         (* KernelMon.exe.                                           *)
  Capacity,    (* MAX_PERRALLEL_BUF_ENTRIES                                *)
  MaxCalls,    (* Bound: the calls each thread makes.                      *)
  NoItem       (* An entry whose function is MonitoredFunctions::None.     *)

(* The n-th call of a thread. *)
Entries == [hook : Producers, n : 1 .. MaxCalls]

ASSUME CapacityAssumption == Capacity \in Nat \ {0}
ASSUME CallsAssumption == MaxCalls \in Nat
ASSUME AppAssumption == App \notin Producers
ASSUME EntryAssumption == NoItem \notin Entries

VARIABLES
  queue, call, status, reply,  (* The buffer: see LogQueue.                *)
  made,      (* How many calls each thread has made.                       *)
  stage,     (* Where each thread, and KernelMon.exe, is.                  *)
  log,       (* The LogEntry on the stack of driver_get_log.               *)
  logs,      (* logs_, what the window shows.                              *)
  accepted,  (* History: the entries the buffer accepted.                  *)
  opened     (* History: how many of them it had handed out when           *)
             (* KernelMon.exe was started.                                 *)

buffer == <<queue, call, status, reply>>
vars == <<buffer, made, stage, log, logs, accepted, opened>>

Buffer == INSTANCE LogQueue WITH
  MaxSize <- Capacity, Threads <- Producers \cup {App}, Items <- Entries

Init ==
  /\ Buffer!Init
  /\ made = [h \in Producers |-> 0]
  /\ stage = [x \in Producers \cup {App} |->
                IF x = App THEN "closed" ELSE "idle"]
  /\ log = NoItem
  /\ logs = <<>>
  /\ accepted = <<>>
  /\ opened = 0

Goto(x, from, to) ==
  /\ stage[x] = from
  /\ stage' = [stage EXCEPT ![x] = to]

Given == Len(accepted) - Len(queue)

-----------------------------------------------------------------------------
(* The hook callbacks. *)

(* The callback is entered and calls the original function. *)
Enter(h) ==
  /\ Goto(h, "idle", "original")
  /\ made[h] < MaxCalls
  /\ made' = [made EXCEPT ![h] = @ + 1]
  /\ UNCHANGED <<buffer, log, logs, accepted, opened>>

(* The caller is not a monitored driver. *)
NotMonitored(h) ==
  /\ Goto(h, "original", "idle")
  /\ UNCHANGED <<buffer, made, log, logs, accepted, opened>>

(* It is: the callback makes an entry and pushes it, *)
LogCall(h) ==
  /\ Goto(h, "original", "push")
  /\ Buffer!Invoke(h, [op |-> "push", item |-> [hook |-> h, n |-> made[h]]])
  /\ UNCHANGED <<made, log, logs, accepted, opened>>

(* which succeeds *)
Accepted(h) ==
  /\ Buffer!Push(h)
  /\ accepted' = Append(accepted, call[h].item)
  /\ UNCHANGED <<made, stage, log, logs, opened>>

(* or loses it, and nobody is told. *)
Lost(h) ==
  /\ Buffer!PushLost(h)
  /\ UNCHANGED <<made, stage, log, logs, accepted, opened>>

(* The callback returns to the caller. *)
Leave(h) ==
  /\ Goto(h, "push", "idle")
  /\ Buffer!Return(h)
  /\ UNCHANGED <<made, log, logs, accepted, opened>>

-----------------------------------------------------------------------------
(* KernelMon.exe and the GetData request. *)

Start ==
  /\ Goto(App, "closed", "idle")
  /\ logs' = <<>>
  /\ opened' = Given
  /\ UNCHANGED <<buffer, made, log, accepted>>

(* Mutant: the driver does not clear the entry before the pop. *)
GetDataUncleared ==
  /\ Goto(App, "idle", "get_data")
  /\ Buffer!Invoke(App, [op |-> "pop", item |-> NoItem])
  /\ UNCHANGED <<made, log, logs, accepted, opened>>

(* The timer sends GetData; the driver sets the function of the entry in    *)
(* the caller's memory to None and pops into it.                            *)
GetData ==
  /\ Goto(App, "idle", "get_data")
  /\ log' = NoItem
  /\ Buffer!Invoke(App, [op |-> "pop", item |-> NoItem])
  /\ UNCHANGED <<made, logs, accepted, opened>>

Popped ==
  /\ Buffer!Pop(App)
  /\ log' = Head(queue)
  /\ UNCHANGED <<made, stage, logs, accepted, opened>>

NothingToPop ==
  /\ Buffer!PopFailed(App)
  /\ UNCHANGED <<made, stage, log, logs, accepted, opened>>

Completed ==
  /\ Goto(App, "get_data", "got_data")
  /\ Buffer!Return(App)
  /\ UNCHANGED <<made, log, logs, accepted, opened>>

(* Mutant: only an empty window takes an entry. *)
ShowFirst ==
  /\ Goto(App, "got_data", "idle")
  /\ logs' = IF log = NoItem \/ logs # <<>> THEN logs ELSE Append(logs, log)
  /\ UNCHANGED <<buffer, made, log, accepted, opened>>

(* The window adds the entry, unless its function is still None. *)
Show ==
  /\ Goto(App, "got_data", "idle")
  /\ logs' = IF log = NoItem THEN logs ELSE Append(logs, log)
  /\ UNCHANGED <<buffer, made, log, accepted, opened>>

(* KernelMon.exe ends, perhaps with an entry it has not yet shown. *)
Close ==
  /\ \E from \in {"idle", "got_data"} : Goto(App, from, "closed")
  /\ UNCHANGED <<buffer, made, log, logs, accepted, opened>>

-----------------------------------------------------------------------------
Callback(h) ==
  NotMonitored(h) \/ LogCall(h) \/ Accepted(h) \/ Lost(h) \/ Leave(h)

Poll == GetData \/ Popped \/ NothingToPop \/ Completed \/ Show

Next ==
  \/ \E h \in Producers : Enter(h) \/ Callback(h)
  \/ Start \/ Poll \/ Close

Spec == Init /\ [][Next]_vars

(* The timer goes on firing and the requests are carried out. *)
FairSpec == Spec /\ WF_vars(Poll)

-----------------------------------------------------------------------------
(* Properties. *)

(* Every variable has its type. *)
TypeOK ==
  /\ queue \in Seq(Entries) /\ Len(queue) <= Capacity
  /\ status \in [Producers \cup {App} -> {"idle", "called", "answered"}]
  /\ made \in [Producers -> 0 .. MaxCalls]
  /\ stage \in [Producers \cup {App} ->
                 {"idle", "original", "push", "closed", "get_data", "got_data"}]
  /\ log \in Entries \cup {NoItem}
  /\ logs \in Seq(Entries)
  /\ accepted \in Seq(Entries)
  /\ opened \in 0 .. Len(accepted)

(* While it runs, KernelMon.exe shows exactly the entries that left the     *)
(* buffer since it was started, in the order in which they were accepted:   *)
(* the entry on the stack is never shown twice, and none is passed over.    *)
ShowsWhatLeft ==
  stage[App] = "idle" => logs = SubSeq(accepted, opened + 1, Given)

(* An accepted entry does not stay in the buffer: it is shown, unless       *)
(* KernelMon.exe is closed before.                                          *)
AcceptedShown ==
  \A e \in Entries :
    (\E k \in DOMAIN queue : queue[k] = e)
      ~> (stage[App] = "closed" \/ \E k \in DOMAIN logs : logs[k] = e)

=============================================================================
