-------------------------- MODULE LogPipelineProofs --------------------------
(***************************************************************************)
(* Proofs about LogPipeline: for a buffer of any capacity and any number   *)
(* of threads and calls, the window shows what left the buffer.            *)
(***************************************************************************)
EXTENDS LogPipeline, SequenceTheorems, TLAPS

Everybody == Producers \cup {App}

(* The types, of the calls of the buffer too, and what an actor's place     *)
(* tells: a callback that is to log has made a call, and the buffer is busy *)
(* for KernelMon.exe exactly during a GetData request.                      *)
Placed ==
  /\ call \in [Everybody -> Buffer!Calls \cup {Buffer!NoCall}]
  /\ \A h \in Producers : stage[h] = "original" => made[h] > 0
  /\ status[App] = "idle" <=> stage[App] # "get_data"

(* The buffer holds the last of what it accepted, in the same order.        *)
Order ==
  /\ Len(queue) <= Len(accepted)
  /\ \A k \in 1 .. Len(queue) : queue[k] = accepted[Given + k]
  /\ opened <= Given

(* Of what was handed out since KernelMon.exe was started the window shows  *)
(* all but the entry that is on its way from the buffer to the window.      *)
Received == stage[App] \in {"get_data", "got_data"} /\ log # NoItem
OnItsWay == IF Received THEN 1 ELSE 0
Shown ==
  /\ stage[App] # "closed" =>
       /\ Len(logs) + OnItsWay = Given - opened
       /\ \A k \in 1 .. Len(logs) : logs[k] = accepted[opened + k]
       /\ Received => log = accepted[Given]
  /\ status[App] = "called" => log = NoItem

PipeInv == TypeOK /\ Placed /\ Order /\ Shown

LEMMA LengthFacts ==
  ASSUME TypeOK
  PROVE  /\ Len(queue) \in Nat /\ Len(accepted) \in Nat /\ Len(logs) \in Nat
         /\ opened \in Nat
         /\ \A k \in 1 .. Len(queue) : queue[k] \in Entries
         /\ \A k \in 1 .. Len(accepted) : accepted[k] \in Entries
BY LenProperties, ElementOfSeq DEF TypeOK

LEMMA PipeInit == Init => PipeInv
<1> SUFFICES ASSUME Init PROVE PipeInv
  OBVIOUS
<1> USE DEF Init, Buffer!Init, Everybody
<1>1. Len(queue) = 0 /\ Len(accepted) = 0 /\ Len(logs) = 0
  OBVIOUS
<1>2. TypeOK
  BY <1>1, CallsAssumption, CapacityAssumption, AppAssumption DEF TypeOK
<1>3. Placed
  BY AppAssumption DEF Placed
<1>4. Order /\ Shown
  BY <1>1 DEF Order, Shown, Given, Received, OnItsWay
<1> QED
  BY <1>2, <1>3, <1>4 DEF PipeInv

(* The steps of a callback that leave the buffer's entries alone.           *)
LEMMA CallbackQuiet ==
  ASSUME PipeInv,
         UNCHANGED <<queue, log, logs, accepted, opened>>,
         stage' \in [Everybody -> {"idle", "original", "push", "closed",
                                   "get_data", "got_data"}],
         status' \in [Everybody -> {"idle", "called", "answered"}],
         stage'[App] = stage[App], status'[App] = status[App]
  PROVE  Order' /\ Shown'
BY DEF PipeInv, Order, Shown, Given, Received, OnItsWay

LEMMA CallbackStep ==
  ASSUME PipeInv, NEW h \in Producers, Enter(h) \/ Callback(h)
  PROVE  PipeInv'
<1> USE AppAssumption
<1>1. TypeOK /\ Placed /\ Order /\ Shown /\ h # App
  BY DEF PipeInv
<1>2. CASE Enter(h)
  <2>1. TypeOK'
    BY <1>1, <1>2, CallsAssumption DEF Enter, Goto, TypeOK, buffer
  <2>2. Placed'
    BY <1>1, <1>2, CallsAssumption DEF Enter, Goto, TypeOK, Placed, buffer, Everybody
  <2>3. Order' /\ Shown'
    BY <1>1, <1>2, <2>1, CallbackQuiet DEF Enter, Goto, TypeOK, buffer, Everybody
  <2> QED
    BY <2>1, <2>2, <2>3 DEF PipeInv
<1>3. CASE NotMonitored(h)
  <2>1. TypeOK'
    BY <1>1, <1>3 DEF NotMonitored, Goto, TypeOK, buffer
  <2>2. Placed'
    BY <1>1, <1>3 DEF NotMonitored, Goto, TypeOK, Placed, buffer, Everybody
  <2>3. Order' /\ Shown'
    BY <1>1, <1>3, <2>1, CallbackQuiet DEF NotMonitored, Goto, TypeOK, buffer, Everybody
  <2> QED
    BY <2>1, <2>2, <2>3 DEF PipeInv
<1>4. CASE LogCall(h)
  <2>1. [op |-> "push", item |-> [hook |-> h, n |-> made[h]]] \in Buffer!Calls
    <3>1. made[h] \in 1 .. MaxCalls
      BY <1>1, <1>4, CallsAssumption DEF LogCall, Goto, TypeOK, Placed
    <3> QED
      BY <3>1 DEF Buffer!Calls, Entries
  <2>2. TypeOK'
    BY <1>1, <1>4 DEF LogCall, Buffer!Invoke, Goto, TypeOK
  <2>3. Placed'
    BY <1>1, <1>4, <2>1 DEF LogCall, Buffer!Invoke, Goto, TypeOK, Placed, Everybody
  <2>4. Order' /\ Shown'
    BY <1>1, <1>4, <2>2, CallbackQuiet
    DEF LogCall, Buffer!Invoke, Goto, TypeOK, Everybody
  <2> QED
    BY <2>2, <2>3, <2>4 DEF PipeInv
<1>5. CASE Lost(h)
  <2>1. TypeOK'
    BY <1>1, <1>5 DEF Lost, Buffer!PushLost, Buffer!Answer, TypeOK
  <2>2. Placed'
    BY <1>1, <1>5 DEF Lost, Buffer!PushLost, Buffer!Answer, TypeOK, Placed, Everybody
  <2>3. Order' /\ Shown'
    BY <1>1, <1>5, <2>1, CallbackQuiet
    DEF Lost, Buffer!PushLost, Buffer!Answer, TypeOK, Everybody
  <2> QED
    BY <2>1, <2>2, <2>3 DEF PipeInv
<1>6. CASE Leave(h)
  <2>1. TypeOK'
    BY <1>1, <1>6 DEF Leave, Buffer!Return, Goto, TypeOK
  <2>2. Placed'
    BY <1>1, <1>6 DEF Leave, Buffer!Return, Goto, TypeOK, Placed, Everybody
  <2>3. Order' /\ Shown'
    BY <1>1, <1>6, <2>1, CallbackQuiet
    DEF Leave, Buffer!Return, Goto, TypeOK, Everybody
  <2> QED
    BY <2>1, <2>2, <2>3 DEF PipeInv
<1>7. CASE Accepted(h)
  <2> DEFINE e == call[h].item
  <2>1. /\ e \in Entries /\ queue' = Append(queue, e)
        /\ accepted' = Append(accepted, e) /\ Len(queue) < Capacity
        /\ UNCHANGED <<call, made, stage, log, logs, opened>>
        /\ status' = [status EXCEPT ![h] = "answered"]
    BY <1>1, <1>7 DEF Accepted, Buffer!Push, Buffer!Answer, Placed, Everybody,
                      Buffer!Calls, Buffer!NoCall
  <2> HIDE DEF e
  <2>2. /\ queue' \in Seq(Entries) /\ accepted' \in Seq(Entries)
        /\ Len(queue') = Len(queue) + 1 /\ Len(accepted') = Len(accepted) + 1
        /\ \A k \in 1 .. Len(queue) : queue'[k] = queue[k]
        /\ \A k \in 1 .. Len(accepted) : accepted'[k] = accepted[k]
        /\ queue'[Len(queue) + 1] = e /\ accepted'[Len(accepted) + 1] = e
    BY <1>1, <2>1, AppendProperties DEF TypeOK
  <2>3. Given' = Given /\ Given \in Nat /\ Given + Len(queue) = Len(accepted)
    BY <1>1, <2>2, LengthFacts DEF Given, Order
  <2>4. TypeOK'
    BY <1>1, <2>1, <2>2, LengthFacts, CapacityAssumption DEF TypeOK
  <2>5. Placed'
    BY <1>1, <2>1 DEF Placed, TypeOK, Everybody
  <2>6. Order'
    <3>1. ASSUME NEW k \in 1 .. Len(queue')
          PROVE  queue'[k] = accepted'[Given + k]
      <4>1. CASE k = Len(queue) + 1
        BY <4>1, <2>2, <2>3
      <4>2. CASE k # Len(queue) + 1
        <5>1. k \in 1 .. Len(queue) /\ Given + k \in 1 .. Len(accepted)
          BY <4>2, <2>2, <2>3, <1>1, LengthFacts
        <5> QED
          BY <5>1, <2>2, <1>1 DEF Order
      <4> QED
        BY <4>1, <4>2
    <3>2. \A k \in 1 .. Len(queue') : queue'[k] = accepted'[Given' + k]
      BY <3>1, <2>3
    <3>3. Len(queue') <= Len(accepted') /\ opened' <= Given'
      BY <1>1, <2>1, <2>2, <2>3, LengthFacts DEF Order
    <3> QED
      BY <3>2, <3>3 DEF Order
  <2>7. Shown'
    <3>1. stage[App] # "closed" =>
            /\ \A k \in 1 .. Len(logs) : opened + k \in 1 .. Len(accepted)
            /\ Received => Given \in 1 .. Len(accepted)
      BY <1>1, <2>3, LengthFacts DEF Shown, OnItsWay, Order
    <3>2. Received' <=> Received
      BY <2>1 DEF Received
    <3> QED
      BY <1>1, <2>1, <2>2, <2>3, <3>1, <3>2 DEF Shown, OnItsWay, TypeOK
  <2> QED
    BY <2>4, <2>5, <2>6, <2>7 DEF PipeInv
<1> QED
  BY <1>2, <1>3, <1>4, <1>5, <1>6, <1>7 DEF Callback

(* The steps of KernelMon.exe and of its request.                           *)
LEMMA AppStep ==
  ASSUME PipeInv, Start \/ Poll \/ Close
  PROVE  PipeInv'
<1> USE AppAssumption
<1>1. TypeOK /\ Placed /\ Order /\ Shown /\ App \in Everybody
  BY DEF PipeInv, Everybody
<1>2. CASE Start
  <2>1. Len(logs') = 0 /\ logs' \in Seq(Entries)
    BY <1>2 DEF Start
  <2>2. Given' = Given /\ Given \in 0 .. Len(accepted)
    BY <1>1, <1>2, LengthFacts DEF Start, buffer, Given, Order
  <2>3. TypeOK'
    BY <1>1, <1>2, <2>1, <2>2 DEF Start, Goto, TypeOK, buffer
  <2>4. Placed'
    BY <1>1, <1>2 DEF Start, Goto, TypeOK, Placed, buffer, Everybody
  <2>5. Order'
    BY <1>1, <1>2, <2>2 DEF Start, Order, buffer
  <2>6. Shown'
    BY <1>1, <1>2, <2>1, <2>2 DEF Start, Goto, Shown, Received, OnItsWay, buffer, TypeOK
  <2> QED
    BY <2>3, <2>4, <2>5, <2>6 DEF PipeInv
<1>3. CASE GetData
  <2>1. [op |-> "pop", item |-> NoItem] \in Buffer!Calls
    BY DEF Buffer!Calls
  <2>2. TypeOK'
    BY <1>1, <1>3 DEF GetData, Buffer!Invoke, Goto, TypeOK
  <2>3. Placed'
    BY <1>1, <1>3, <2>1 DEF GetData, Buffer!Invoke, Goto, TypeOK, Placed, Everybody
  <2>4. Order' /\ Shown'
    BY <1>1, <1>3 DEF GetData, Buffer!Invoke, Goto, Order, Shown, Received, OnItsWay,
                      Given, TypeOK
  <2> QED
    BY <2>2, <2>3, <2>4 DEF PipeInv
<1>4. CASE NothingToPop
  <2>1. TypeOK'
    BY <1>1, <1>4 DEF NothingToPop, Buffer!PopFailed, Buffer!Answer, TypeOK
  <2>2. Placed'
    BY <1>1, <1>4 DEF NothingToPop, Buffer!PopFailed, Buffer!Answer, TypeOK, Placed, Everybody
  <2>3. Order' /\ Shown'
    BY <1>1, <1>4 DEF NothingToPop, Buffer!PopFailed, Buffer!Answer, Order, Shown,
                      Received, OnItsWay, Given, TypeOK
  <2> QED
    BY <2>1, <2>2, <2>3 DEF PipeInv
<1>5. CASE Popped
  <2>1. /\ queue # <<>> /\ queue' = Tail(queue) /\ log' = Head(queue)
        /\ UNCHANGED <<call, made, stage, logs, accepted, opened>>
        /\ status[App] = "called" /\ status' = [status EXCEPT ![App] = "answered"]
    BY <1>5 DEF Popped, Buffer!Pop, Buffer!Answer
  <2>2. /\ queue' \in Seq(Entries) /\ log' \in Entries
        /\ Len(queue') = Len(queue) - 1
        /\ \A k \in 1 .. Len(queue') : queue'[k] = queue[k + 1]
        /\ log' = queue[1] /\ Len(queue) > 0
    BY <1>1, <2>1, HeadTailProperties, EmptySeq DEF TypeOK
  <2>3. Given' = Given + 1 /\ Given \in Nat /\ Given + Len(queue) = Len(accepted)
    BY <1>1, <2>1, <2>2, LengthFacts DEF Given, Order
  <2>4. TypeOK'
    BY <1>1, <2>1, <2>2, LengthFacts, CapacityAssumption DEF TypeOK
  <2>5. Placed'
    BY <1>1, <2>1 DEF Placed, TypeOK, Everybody
  <2>6. Order'
    <3>1. ASSUME NEW k \in 1 .. Len(queue')
          PROVE  queue'[k] = accepted'[Given' + k]
      <4>1. k + 1 \in 1 .. Len(queue) /\ Given + (k + 1) = Given' + k
        BY <2>2, <2>3, <1>1, LengthFacts
      <4> QED
        BY <4>1, <2>1, <2>2, <1>1 DEF Order
    <3> QED
      BY <3>1, <1>1, <2>1, <2>2, <2>3, LengthFacts DEF Order
  <2>7. Shown'
    <3>1. stage[App] = "get_data" /\ log = NoItem
      BY <1>1, <2>1 DEF Placed, Shown
    <3>2. log' # NoItem /\ log' = accepted'[Given']
      BY <1>1, <2>1, <2>2, <2>3, LengthFacts, EntryAssumption DEF Order
    <3>3. ~Received /\ Received'
      BY <2>1, <3>1, <3>2 DEF Received
    <3> QED
      BY <1>1, <2>1, <2>3, <3>1, <3>2, <3>3, LengthFacts
      DEF Shown, OnItsWay, TypeOK, Everybody
  <2> QED
    BY <2>4, <2>5, <2>6, <2>7 DEF PipeInv
<1>6. CASE Completed
  <2>1. TypeOK'
    BY <1>1, <1>6 DEF Completed, Buffer!Return, Goto, TypeOK
  <2>2. Placed'
    BY <1>1, <1>6 DEF Completed, Buffer!Return, Goto, TypeOK, Placed, Everybody
  <2>3. Order' /\ Shown'
    BY <1>1, <1>6 DEF Completed, Buffer!Return, Goto, Order, Shown, Received, OnItsWay,
                      Given, TypeOK
  <2> QED
    BY <2>1, <2>2, <2>3 DEF PipeInv
<1>7. CASE Show
  <2>1. /\ stage[App] = "got_data" /\ stage' = [stage EXCEPT ![App] = "idle"]
        /\ logs' = IF log = NoItem THEN logs ELSE Append(logs, log)
        /\ UNCHANGED <<queue, call, status, made, log, accepted, opened>>
    BY <1>7 DEF Show, Goto, buffer
  <2>2. /\ logs' \in Seq(Entries)
        /\ Len(logs') = Len(logs) + OnItsWay
        /\ \A k \in 1 .. Len(logs) : logs'[k] = logs[k]
        /\ Received => logs'[Len(logs) + 1] = log
    <3>1. CASE log = NoItem
      BY <3>1, <1>1, <2>1, LengthFacts DEF OnItsWay, Received, TypeOK
    <3>2. CASE log # NoItem
      BY <3>2, <1>1, <2>1, AppendProperties DEF OnItsWay, Received, TypeOK
    <3> QED
      BY <3>1, <3>2
  <2>3. TypeOK'
    BY <1>1, <2>1, <2>2 DEF TypeOK
  <2>4. Placed'
    BY <1>1, <2>1 DEF Placed, TypeOK, Everybody
  <2>5. Order' /\ Given' = Given
    BY <1>1, <2>1 DEF Order, Given
  <2>6. Shown'
    <3>1. ~Received'
      BY <1>1, <2>1 DEF Received, TypeOK
    <3>2. /\ Len(logs) + OnItsWay = Given - opened
          /\ \A k \in 1 .. Len(logs) : logs[k] = accepted[opened + k]
          /\ Received => log = accepted[Given]
      BY <1>1, <2>1 DEF Shown
    <3>3. ASSUME NEW k \in 1 .. Len(logs')
          PROVE  logs'[k] = accepted[opened + k]
      <4>1. CASE k \in 1 .. Len(logs)
        BY <4>1, <2>2, <3>2
      <4>2. CASE k \notin 1 .. Len(logs)
        <5>1. Received /\ k = Len(logs) + 1 /\ opened + k = Given
          BY <4>2, <2>2, <3>2, <1>1, LengthFacts DEF OnItsWay, Given
        <5> QED
          BY <5>1, <2>2, <3>2
      <4> QED
        BY <4>1, <4>2
    <3>4. Len(logs') = Given - opened
      BY <2>2, <3>2
    <3>5. status[App] # "called"
      BY <1>1, <2>1 DEF Placed
    <3>6. Given \in Int /\ opened \in Int
      BY <1>1, LengthFacts DEF Given
    <3> QED
      BY <2>1, <2>5, <3>1, <3>3, <3>4, <3>5, <3>6 DEF Shown, OnItsWay
  <2> QED
    BY <2>3, <2>4, <2>5, <2>6 DEF PipeInv
<1>8. CASE Close
  <2>1. PICK from \in {"idle", "got_data"} : Goto(App, from, "closed")
    BY <1>8 DEF Close
  <2>2. TypeOK'
    BY <1>1, <1>8, <2>1 DEF Close, Goto, TypeOK, buffer
  <2>3. Placed'
    BY <1>1, <1>8, <2>1 DEF Close, Goto, TypeOK, Placed, buffer, Everybody
  <2>4. Order' /\ Shown'
    BY <1>1, <1>8, <2>1 DEF Close, Goto, Order, Shown, Received, OnItsWay,
                      Given, TypeOK, buffer
  <2> QED
    BY <2>2, <2>3, <2>4 DEF PipeInv
<1> QED
  BY <1>2, <1>3, <1>4, <1>5, <1>6, <1>7, <1>8 DEF Poll

LEMMA PipeInvariant == Spec => []PipeInv
<1>1. PipeInv /\ [Next]_vars => PipeInv'
  <2> SUFFICES ASSUME PipeInv, [Next]_vars PROVE PipeInv'
    OBVIOUS
  <2>1. CASE Next
    BY <2>1, CallbackStep, AppStep DEF Next
  <2>2. CASE UNCHANGED vars
    BY <2>2 DEF vars, buffer, PipeInv, TypeOK, Placed, Order, Shown, Received,
                OnItsWay, Given
  <2> QED
    BY <2>1, <2>2
<1> QED
  BY PipeInit, <1>1, PTL DEF Spec

(* Every variable has its type; the buffer never holds more than it can.    *)
THEOREM TypeInvariant == Spec => []TypeOK
BY PipeInvariant, PTL DEF PipeInv

(* For every capacity, number of threads and number of calls: while it      *)
(* runs, KernelMon.exe shows the entries that left the buffer since it was  *)
(* started, each once, none passed over, in the order in which the buffer   *)
(* accepted them.                                                           *)
THEOREM ShownInOrder == Spec => []ShowsWhatLeft
<1>1. PipeInv => ShowsWhatLeft
  <2> SUFFICES ASSUME PipeInv, stage[App] = "idle"
               PROVE  logs = SubSeq(accepted, opened + 1, Given)
    BY DEF ShowsWhatLeft
  <2>1. TypeOK /\ Order /\ Shown
    BY DEF PipeInv
  <2>2. /\ Len(logs) = Given - opened
        /\ \A k \in 1 .. Len(logs) : logs[k] = accepted[opened + k]
    BY <2>1, LengthFacts DEF Shown, Received, OnItsWay, Given
  <2>3. Given \in Int /\ opened + 1 \in Int /\ opened <= Given /\ Given <= Len(accepted)
    BY <2>1, LengthFacts DEF Given, Order
  <2>4. \A k \in (opened + 1) .. Given : accepted[k] \in Entries
    BY <2>1, <2>3, LengthFacts
  <2> DEFINE part == SubSeq(accepted, opened + 1, Given)
  <2>5. /\ part \in Seq(Entries)
        /\ Len(part) = IF opened + 1 <= Given THEN Given - (opened + 1) + 1 ELSE 0
        /\ \A k \in 1 .. Given - (opened + 1) + 1 :
             part[k] = accepted[(opened + 1) + k - 1]
    BY <2>3, <2>4, SubSeqProperties
  <2> HIDE DEF part
  <2>6. Len(part) = Len(logs)
    BY <2>1, <2>2, <2>3, <2>5, LengthFacts
  <2>7. ASSUME NEW k \in 1 .. Len(logs)
        PROVE  logs[k] = part[k]
    <3> DEFINE g == Given
    <3>1. k \in 1 .. g - (opened + 1) + 1 /\ (opened + 1) + k - 1 = opened + k
      <4>1. /\ g \in Int /\ opened \in Int /\ Len(logs) \in Int
            /\ Len(logs) = g - opened
        BY <2>1, <2>2, <2>3, LengthFacts
      <4> HIDE DEF g
      <4>2. k \in Int /\ 1 <= k /\ k <= g - opened
        BY <4>1
      <4> QED
        BY <4>1, <4>2
    <3>2. part[k] = accepted[(opened + 1) + k - 1]
      BY <3>1, <2>5
    <3>3. part[k] = accepted[opened + k]
      BY <3>1, <3>2
    <3>4. logs[k] = accepted[opened + k]
      BY <2>2
    <3> QED
      BY <3>3, <3>4
  <2>8. logs \in Seq(Entries)
    BY <2>1 DEF TypeOK
  <2> QED
    BY <2>5, <2>6, <2>7, <2>8, SeqEqual DEF part
<1> QED
  BY <1>1, PipeInvariant, PTL
=============================================================================
