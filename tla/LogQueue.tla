------------------------------ MODULE LogQueue ------------------------------
(***************************************************************************)
(* What the log buffer promises its callers: a first-in first-out queue of *)
(* at most MaxSize entries, in which every call takes effect at one moment *)
(* between its start and its return.  A push that finds the queue full     *)
(* loses its entry; a pop that finds it empty answers false.               *)
(***************************************************************************)
EXTENDS Naturals, Sequences

CONSTANTS
  MaxSize,   (* The capacity of the queue.                  *)
  Threads,   (* The callers.                                *)
  Items,     (* The log entries.                            *)
  NoItem     (* No entry: the answer of a pop that failed.  *)

VARIABLES
  queue,     (* The entries, the oldest first.              *)
  call,      (* The call each thread is making.             *)
  status,    (* How far it has come.                        *)
  reply      (* The entry its pop has obtained.             *)

vars == <<queue, call, status, reply>>

Calls == [op : {"push"}, item : Items]
           \cup [op : {"pop", "reset"}, item : {NoItem}]
NoCall == [op |-> "none", item |-> NoItem]

Init ==
  /\ queue = <<>>
  /\ call = [t \in Threads |-> NoCall]
  /\ status = [t \in Threads |-> "idle"]
  /\ reply = [t \in Threads |-> NoItem]

Invoke(t, request) ==
  /\ status[t] = "idle"
  /\ status' = [status EXCEPT ![t] = "called"]
  /\ call' = [call EXCEPT ![t] = request]
  /\ reply' = [reply EXCEPT ![t] = NoItem]
  /\ UNCHANGED queue

Answer(t, op) ==
  /\ status[t] = "called"
  /\ call[t].op = op
  /\ status' = [status EXCEPT ![t] = "answered"]
  /\ UNCHANGED call

Push(t) ==
  /\ Answer(t, "push")
  /\ Len(queue) < MaxSize
  /\ queue' = Append(queue, call[t].item)
  /\ UNCHANGED reply

PushLost(t) ==
  /\ Answer(t, "push")
  /\ Len(queue) = MaxSize
  /\ UNCHANGED <<queue, reply>>

Pop(t) ==
  /\ Answer(t, "pop")
  /\ queue # <<>>
  /\ reply' = [reply EXCEPT ![t] = Head(queue)]
  /\ queue' = Tail(queue)

PopFailed(t) ==
  /\ Answer(t, "pop")
  /\ queue = <<>>
  /\ UNCHANGED <<queue, reply>>

Reset(t) ==
  /\ Answer(t, "reset")
  /\ queue' = <<>>
  /\ UNCHANGED reply

Return(t) ==
  /\ status[t] = "answered"
  /\ status' = [status EXCEPT ![t] = "idle"]
  /\ UNCHANGED <<queue, call, reply>>

Next ==
  \E t \in Threads :
    \/ \E request \in Calls : Invoke(t, request)
    \/ Push(t) \/ PushLost(t)
    \/ Pop(t) \/ PopFailed(t)
    \/ Reset(t)
    \/ Return(t)

Spec == Init /\ [][Next]_vars

=============================================================================
