------------------------- MODULE CyclicBufferProofs -------------------------
(***************************************************************************)
(* What is proved of CyclicBuffer for every capacity, any number of        *)
(* threads on any number of processors, and any set of log entries.        *)
(***************************************************************************)
EXTENDS CyclicBuffer, SequenceTheorems, TLAPS

(* Each step of a body belongs to the call the thread is making, and until  *)
(* a pop copies an entry the caller's result is untouched.                  *)
CallMatches ==
  \A t \in Threads :
    /\ pc[t] \in {"spin", "save"} => call[t] \in Queue!Calls
    /\ pc[t] \in {"push_check", "push_write", "push_advance"} =>
         call[t].op = "push" /\ call[t].item \in Items
    /\ pc[t] \in {"pop_check", "pop_read", "pop_clear", "pop_advance"} =>
         call[t].op = "pop"
    /\ pc[t] \in {"reset_head", "reset_full"} => call[t].op = "reset"
    /\ pc[t] \in {"spin", "save", "pop_check", "pop_read"} =>
         result[t] = NoItem

TypeInv == TypeOK /\ CallMatches

LEMMA FirstSteps ==
  ASSUME NEW request \in Queue!Calls
  PROVE  \/ /\ request.op = "push" /\ request.item \in Items
            /\ FirstStep(request) = "push_check"
         \/ request.op = "pop" /\ FirstStep(request) = "pop_check"
         \/ request.op = "reset" /\ FirstStep(request) = "reset_head"
BY DEF Queue!Calls, FirstStep

LEMMA PlacesDistinct ==
  Places = {"idle", "spin", "save", "push_check", "push_write", "push_advance",
            "push_flag", "pop_check", "pop_read", "pop_clear", "pop_advance",
            "reset_head", "reset_full", "unlock", "release", "lower"}
BY DEF Places, Inside, InBody

LEMMA TypeInvInductive ==
  /\ Init => TypeInv
  /\ TypeInv /\ [Next]_vars => TypeInv'
<1>1. Init => TypeInv
  <2>1. Init => TypeOK
    <3>1. 0 \in Slots
      BY SizeAssumption DEF Slots
    <3>2. CallerIrql \in [Threads -> Irqls]
      BY IrqlAssumption DEF Irqls
    <3> QED
      BY <3>1, <3>2 DEF Init, TypeOK, Irqls, LowIrqls, Places
  <2>2. Init => CallMatches
    BY DEF Init, CallMatches
  <2> QED
    BY <2>1, <2>2 DEF TypeInv
<1>2. TypeInv /\ [Next]_vars => TypeInv'
  <2> SUFFICES ASSUME TypeOK, CallMatches, [Next]_vars
               PROVE  TypeInv'
    BY DEF TypeInv
  <2> USE PlacesDistinct DEF TypeInv, TypeOK, CallMatches, Goto
  <2>1. ASSUME NEW t \in Threads, NEW request \in Queue!Calls,
               Call(t, request)
        PROVE  TypeInv'
    BY <2>1 DEF Call, ring, lock, Irqls
  <2>2. ASSUME NEW t \in Threads, Acquire(t)
        PROVE  TypeInv'
    BY <2>2 DEF Acquire, ring
  <2>3. ASSUME NEW t \in Threads, SaveIrql(t)
        PROVE  TypeInv'
    <3>1. call[t] \in Queue!Calls
      BY <2>3 DEF SaveIrql
    <3> QED
      BY <2>3, <3>1, FirstSteps DEF SaveIrql, ring
  <2>4. ASSUME NEW t \in Threads, Unlock(t) \/ Release(t) \/ Lower(t)
        PROVE  TypeInv'
    <3>1. CASE Unlock(t)
      BY <3>1 DEF Unlock, ring, lock
    <3>2. CASE Release(t)
      BY <3>2 DEF Release, ring
    <3>3. CASE Lower(t)
      BY <3>3 DEF Lower, ring, lock
    <3> QED
      BY <2>4, <3>1, <3>2, <3>3
  <2>5. ASSUME NEW t \in Threads, PushCheck(t) \/ PopCheck(t)
        PROVE  TypeInv'
    BY <2>5 DEF PushCheck, PopCheck, ring, lock
  <2>6. ASSUME NEW t \in Threads, PushWrite(t)
        PROVE  TypeInv'
    <3>1. call[t].item \in Items
      BY <2>6 DEF PushWrite
    <3>2. buf' \in [Slots -> Items \cup {Garbage}]
      BY <2>6, <3>1 DEF PushWrite
    <3> QED
      BY <2>6, <3>2 DEF PushWrite, lock
  <2>7. ASSUME NEW t \in Threads, PushAdvance(t) \/ PopAdvance(t)
        PROVE  TypeInv'
    <3>1. (head + 1) % MaxSize \in Slots /\ (tail + 1) % MaxSize \in Slots
      BY SizeAssumption DEF Slots
    <3> QED
      BY <2>7, <3>1 DEF PushAdvance, PopAdvance, lock
  <2>8. ASSUME NEW t \in Threads, PushFlag(t) \/ PopClear(t)
        PROVE  TypeInv'
    BY <2>8 DEF PushFlag, PopClear, lock
  <2>9. ASSUME NEW t \in Threads, PopRead(t)
        PROVE  TypeInv'
    BY <2>9 DEF PopRead, ring, lock
  <2>10. ASSUME NEW t \in Threads, ResetHead(t) \/ ResetFull(t)
         PROVE  TypeInv'
    BY <2>10 DEF ResetHead, ResetFull, lock
  <2>11. CASE UNCHANGED vars
    BY <2>11 DEF vars, ring, lock
  <2> QED
    BY <2>1, <2>2, <2>3, <2>4, <2>5, <2>6, <2>7, <2>8, <2>9, <2>10, <2>11
    DEF Next, Locking, Body
<1> QED
  BY <1>1, <1>2

(* Every reachable state has the type TypeOK: the positions stay inside the *)
(* buffer, whatever its capacity.                                           *)
THEOREM TypeInvariant == Spec => []TypeOK
BY TypeInvInductive, PTL DEF Spec, TypeInv

-----------------------------------------------------------------------------
(* The lock. *)
LEMMA LockInductive ==
  /\ Init => MutualExclusion
  /\ TypeInv /\ MutualExclusion /\ [Next]_vars => MutualExclusion'
<1>1. Init => MutualExclusion
  BY DEF Init, MutualExclusion, Inside, InBody
<1>2. TypeInv /\ MutualExclusion /\ [Next]_vars => MutualExclusion'
  <2> SUFFICES ASSUME TypeOK, CallMatches, MutualExclusion, [Next]_vars
               PROVE  MutualExclusion'
    BY DEF TypeInv
  <2> USE DEF MutualExclusion
  <2>1. ASSUME NEW t \in Threads, NEW request \in Queue!Calls,
               Call(t, request)
        PROVE  MutualExclusion'
    BY <2>1 DEF Call, Goto, lock, TypeOK, Inside, InBody
  <2>2. ASSUME NEW t \in Threads, Acquire(t)
        PROVE  MutualExclusion'
    BY <2>2 DEF Acquire, Goto, TypeOK, Inside
  <2>3. ASSUME NEW t \in Threads, SaveIrql(t)
        PROVE  MutualExclusion'
    <3>1. FirstStep(call[t]) \in Inside
      BY <2>3, FirstSteps DEF SaveIrql, Goto, CallMatches, Inside, InBody
    <3>2. pc[t] \in Inside
      BY <2>3 DEF SaveIrql, Goto, Inside
    <3> QED
      BY <2>3, <3>1, <3>2 DEF SaveIrql, Goto, TypeOK
  <2>4. ASSUME NEW t \in Threads, Unlock(t)
        PROVE  MutualExclusion'
    BY <2>4 DEF Unlock, Goto, lock, TypeOK, Inside
  <2>5. ASSUME NEW t \in Threads, Release(t)
        PROVE  MutualExclusion'
    BY <2>5 DEF Release, Goto, TypeOK, Inside, InBody
  <2>6. ASSUME NEW t \in Threads, Lower(t)
        PROVE  MutualExclusion'
    BY <2>6 DEF Lower, Goto, lock, TypeOK, Inside, InBody
  <2>7. ASSUME NEW t \in Threads, Body(t)
        PROVE  MutualExclusion'
    <3>1. /\ pc[t] \in Inside
          /\ \E to \in Inside : pc' = [pc EXCEPT ![t] = to]
          /\ locked' = locked
      BY <2>7
      DEF Body, PushCheck, PushWrite, PushAdvance, PushFlag, PopCheck, PopRead,
          PopClear, PopAdvance, ResetHead, ResetFull, Goto, lock, Inside, InBody
    <3> QED
      BY <3>1 DEF TypeOK
  <2>8. CASE UNCHANGED vars
    BY <2>8 DEF vars, lock
  <2> QED
    BY <2>1, <2>2, <2>3, <2>4, <2>5, <2>6, <2>7, <2>8 DEF Next, Locking
<1> QED
  BY <1>1, <1>2

(* At most one thread is between the acquisition and the release. *)
THEOREM LockExclusive == Spec => []MutualExclusion
BY TypeInvInductive, LockInductive, PTL DEF Spec

(* The caller's IRQL is in a register, then in old_irql_, then in a         *)
(* register again; old_irql_ is nobody else's while a thread needs it.      *)
IrqlInv ==
  \A t \in Threads :
    /\ pc[t] = "idle" => irql[t] = CallerIrql[t]
    /\ pc[t] \in {"spin", "save", "release", "lower"} => reg[t] = CallerIrql[t]
    /\ pc[t] \in InBody \cup {"unlock"} => old_irql = CallerIrql[t]

(* Each caller leaves the buffer at the IRQL it called at. *)
THEOREM CallerIrqlRestored == Spec => []IrqlRestored
<1>1. Init => IrqlInv
  BY DEF Init, IrqlInv, InBody
<1>2. TypeInv /\ MutualExclusion /\ IrqlInv /\ [Next]_vars => IrqlInv'
  <2> SUFFICES ASSUME TypeOK, CallMatches, MutualExclusion, IrqlInv, [Next]_vars
               PROVE  IrqlInv'
    BY DEF TypeInv
  <2>1. ASSUME NEW t \in Threads, NEW request \in Queue!Calls,
               Call(t, request)
        PROVE  IrqlInv'
    BY <2>1 DEF IrqlInv, Call, Goto, lock, TypeOK, InBody
  <2>2. ASSUME NEW t \in Threads, Acquire(t)
        PROVE  IrqlInv'
    BY <2>2 DEF IrqlInv, Acquire, Goto, TypeOK, InBody
  <2>3. ASSUME NEW t \in Threads, SaveIrql(t)
        PROVE  IrqlInv'
    <3>1. /\ pc[t] = "save" /\ reg[t] = CallerIrql[t]
          /\ old_irql' = reg[t]
          /\ UNCHANGED <<irql, reg>>
      BY <2>3 DEF IrqlInv, SaveIrql, Goto
    <3>2. FirstStep(call[t]) \in InBody
      BY <3>1, FirstSteps DEF CallMatches, InBody
    <3>3. pc'[t] \in InBody /\ \A u \in Threads : u # t => pc'[u] = pc[u]
      BY <2>3, <3>2 DEF SaveIrql, Goto, TypeOK
    <3>4. \A u \in Threads : u # t => pc[u] \notin InBody \cup {"unlock"}
      BY <3>1 DEF MutualExclusion, Inside
    <3> QED
      BY <3>1, <3>3, <3>4 DEF IrqlInv, InBody
  <2>4. ASSUME NEW t \in Threads, Unlock(t) \/ Release(t) \/ Lower(t)
        PROVE  IrqlInv'
    BY <2>4 DEF IrqlInv, Unlock, Release, Lower, Goto, lock, TypeOK, InBody
  <2>5. ASSUME NEW t \in Threads, Body(t)
        PROVE  IrqlInv'
    <3>1. /\ pc[t] \in InBody
          /\ \E to \in InBody \cup {"unlock"} : pc' = [pc EXCEPT ![t] = to]
          /\ UNCHANGED <<old_irql, irql, reg>>
      BY <2>5
      DEF Body, PushCheck, PushWrite, PushAdvance, PushFlag, PopCheck, PopRead,
          PopClear, PopAdvance, ResetHead, ResetFull, Goto, lock, InBody
    <3> QED
      BY <3>1 DEF IrqlInv, TypeOK, InBody
  <2>6. CASE UNCHANGED vars
    BY <2>6 DEF IrqlInv, vars, lock
  <2> QED
    BY <2>1, <2>2, <2>3, <2>4, <2>5, <2>6 DEF Next, Locking
<1>3. IrqlInv => IrqlRestored
  BY DEF IrqlInv, IrqlRestored
<1> QED
  BY <1>1, <1>2, <1>3, TypeInvInductive, LockInductive, PTL DEF Spec

-----------------------------------------------------------------------------
(* It implements LogQueue. *)

(* What the holder of the lock knows at each place of its body.  Of another *)
(* thread it says nothing: none is in a body then.                          *)
BodyInv ==
  /\ full => head = tail
  /\ \A t \in Threads :
       /\ pc[t] \in {"push_write", "push_advance", "push_flag", "pop_advance"}
            => ~full
       /\ pc[t] = "push_advance" => buf[head] = call[t].item
       /\ pc[t] \in {"pop_read", "pop_clear"} => ~Empty
       /\ pc[t] \in {"pop_clear", "pop_advance"} => result[t] = buf[tail]
       /\ pc[t] = "reset_full" => head = tail

(* A step outside the bodies leaves all of that alone. *)
LEMMA BodyInvQuiet ==
  ASSUME TypeOK, BodyInv, NEW t \in Threads, UNCHANGED ring,
         \A u \in Threads \ {t} : /\ pc'[u] = pc[u] /\ call'[u] = call[u]
                                  /\ result'[u] = result[u],
         pc'[t] \in {"spin", "save", "push_check", "pop_check", "reset_head",
                     "unlock", "release", "lower", "idle"}
  PROVE  BodyInv'
BY DEF BodyInv, Empty, ring

LEMMA BodyInvInductive ==
  /\ Init => BodyInv
  /\ TypeInv /\ MutualExclusion /\ BodyInv /\ [Next]_vars => BodyInv'
<1>1. Init => BodyInv
  BY DEF Init, BodyInv
<1>2. TypeInv /\ MutualExclusion /\ BodyInv /\ [Next]_vars => BodyInv'
  <2> SUFFICES ASSUME TypeOK, CallMatches, MutualExclusion, BodyInv,
                      [Next]_vars
               PROVE  BodyInv'
    BY DEF TypeInv
  <2>1. ASSUME NEW t \in Threads, NEW request \in Queue!Calls,
               Call(t, request)
        PROVE  BodyInv'
    BY <2>1, BodyInvQuiet DEF Call, Goto, TypeOK
  <2>2. ASSUME NEW t \in Threads, Locking(t)
        PROVE  BodyInv'
    <3>1. /\ UNCHANGED <<ring, call, result>>
          /\ \A u \in Threads \ {t} : pc'[u] = pc[u]
      BY <2>2
      DEF Locking, Acquire, SaveIrql, Unlock, Release, Lower, Goto, ring, TypeOK
    <3>2. pc'[t] \in {"save", "push_check", "pop_check", "reset_head",
                      "release", "lower", "idle"}
      BY <2>2, FirstSteps
      DEF Locking, Acquire, SaveIrql, Unlock, Release, Lower, Goto, TypeOK,
          CallMatches
    <3> QED
      BY <3>1, <3>2, BodyInvQuiet
  <2>3. ASSUME NEW t \in Threads, Body(t)
        PROVE  BodyInv'
    <3>1. \A u \in Threads : u # t => pc[u] \notin InBody
      BY <2>3
      DEF Body, PushCheck, PushWrite, PushAdvance, PushFlag, PopCheck, PopRead,
          PopClear, PopAdvance, ResetHead, ResetFull, Goto, MutualExclusion,
          Inside, InBody
    <3>2. \A u \in Threads : u # t => pc'[u] \notin InBody
      BY <2>3, <3>1
      DEF Body, PushCheck, PushWrite, PushAdvance, PushFlag, PopCheck, PopRead,
          PopClear, PopAdvance, ResetHead, ResetFull, Goto, TypeOK
    <3>3. SUFFICES
            /\ full' => head' = tail'
            /\ pc'[t] \in {"push_write", "push_advance", "push_flag",
                           "pop_advance"} => ~full'
            /\ pc'[t] = "push_advance" => buf'[head'] = call'[t].item
            /\ pc'[t] \in {"pop_read", "pop_clear"} => ~Empty'
            /\ pc'[t] \in {"pop_clear", "pop_advance"} =>
                 result'[t] = buf'[tail']
            /\ pc'[t] = "reset_full" => head' = tail'
      BY <3>2 DEF BodyInv, InBody
    <3>4. CASE PushCheck(t) \/ PopCheck(t)
      BY <3>4 DEF PushCheck, PopCheck, Goto, ring, BodyInv, Empty, TypeOK
    <3>5. CASE PushWrite(t)
      BY <3>5 DEF PushWrite, Goto, BodyInv, TypeOK
    <3>6. CASE PushAdvance(t) \/ PushFlag(t)
      BY <3>6 DEF PushAdvance, PushFlag, Goto, BodyInv, TypeOK
    <3>7. CASE PopRead(t)
      BY <3>7 DEF PopRead, Goto, ring, BodyInv, Empty, TypeOK
    <3>8. CASE PopClear(t) \/ PopAdvance(t)
      BY <3>8 DEF PopClear, PopAdvance, Goto, BodyInv, Empty, TypeOK
    <3>9. CASE ResetHead(t) \/ ResetFull(t)
      BY <3>9 DEF ResetHead, ResetFull, Goto, BodyInv, TypeOK
    <3> QED
      BY <2>3, <3>4, <3>5, <3>6, <3>7, <3>8, <3>9 DEF Body
  <2>4. CASE UNCHANGED vars
    BY <2>4 DEF vars, ring, BodyInv, Empty
  <2> QED
    BY <2>1, <2>2, <2>3, <2>4 DEF Next
<1> QED
  BY <1>1, <1>2

-----------------------------------------------------------------------------
(* Positions in the buffer. *)
LEMMA Wrap ==
  ASSUME NEW a \in Slots, NEW k \in 0 .. MaxSize
  PROVE  /\ (a + k) % MaxSize = IF a + k < MaxSize THEN a + k
                                                   ELSE a + k - MaxSize
         /\ (a + k) % MaxSize \in Slots
BY SizeAssumption DEF Slots

Midway == \E t \in Threads : pc[t] \in {"push_flag", "pop_advance"}

(* How many entries the buffer holds, without the modulus. *)
Distance ==
  IF head = tail
    THEN IF full \/ Midway THEN MaxSize ELSE 0
    ELSE IF tail < head THEN head - tail ELSE head + MaxSize - tail

LEMMA HeldValue ==
  ASSUME TypeOK
  PROVE  Held = Distance /\ Held \in 0 .. MaxSize
<1>1. head # tail =>
        (head + MaxSize - tail) % MaxSize =
          IF tail < head THEN head - tail ELSE head + MaxSize - tail
  <2>1. CASE tail < head
    <3>1. PICK a \in Slots : a = head - tail
      BY <2>1, SizeAssumption DEF TypeOK, Slots
    <3>2. (a + MaxSize) % MaxSize = a
      BY SizeAssumption DEF Slots
    <3>3. head + MaxSize - tail = a + MaxSize
      BY <3>1, SizeAssumption DEF TypeOK, Slots
    <3> QED
      BY <2>1, <3>1, <3>2, <3>3
  <2>2. CASE head < tail
    <3>1. PICK a \in Slots : a = head + MaxSize - tail
      BY <2>2, SizeAssumption DEF TypeOK, Slots
    <3>2. a % MaxSize = a
      BY SizeAssumption DEF Slots
    <3> QED
      BY <2>2, <3>1, <3>2, SizeAssumption DEF TypeOK, Slots
  <2> QED
    BY <2>1, <2>2, SizeAssumption DEF TypeOK, Slots
<1>2. Held = Distance
  BY <1>1 DEF Held, Distance, Midway
<1> QED
  BY <1>2, SizeAssumption DEF Distance, TypeOK, Slots

LEMMA ContentsSeq ==
  ASSUME TypeOK
  PROVE  /\ Contents \in Seq(Items \cup {Garbage})
         /\ Len(Contents) = Held
         /\ \A k \in 1 .. Held : Contents[k] = buf[(tail + k - 1) % MaxSize]
<1>1. \A k \in 1 .. Held : (tail + k - 1) % MaxSize \in Slots
  <2> SUFFICES ASSUME NEW k \in 1 .. Held
               PROVE  (tail + k - 1) % MaxSize \in Slots
    OBVIOUS
  <2>1. k - 1 \in 0 .. MaxSize /\ tail + k - 1 = tail + (k - 1)
    BY HeldValue, SizeAssumption DEF TypeOK, Slots
  <2> QED
    BY <2>1, Wrap DEF TypeOK
<1>2. Held \in Nat
  BY HeldValue, SizeAssumption
<1> QED
  BY <1>1, <1>2 DEF Contents, TypeOK

-----------------------------------------------------------------------------
(* What each step does to the queue. *)
LEMMA MidwayInside ==
  ASSUME MutualExclusion, NEW t \in Threads, pc[t] \in Inside
  PROVE  Midway <=> pc[t] \in {"push_flag", "pop_advance"}
BY DEF MutualExclusion, Midway, Inside, InBody

LEMMA SameContents ==
  ASSUME UNCHANGED ring, Midway' <=> Midway
  PROVE  Contents' = Contents
BY DEF Contents, Held, Midway, ring

LEMMA WriteContents ==
  ASSUME TypeInv, MutualExclusion, BodyInv, NEW t \in Threads, PushWrite(t)
  PROVE  Contents' = Contents
<1>1. /\ pc[t] = "push_write" /\ pc[t] \in Inside /\ ~full
      /\ buf' = [buf EXCEPT ![head] = call[t].item]
      /\ UNCHANGED <<head, tail, full>>
  BY DEF PushWrite, Goto, BodyInv, Inside, InBody
<1>2. ~Midway /\ ~Midway'
  BY <1>1, MidwayInside DEF PushWrite, Goto, Midway, TypeInv, TypeOK
<1>3. Held' = Held
  BY <1>1, <1>2 DEF Held, Midway
<1>4. \A k \in 1 .. Held : /\ (tail + k - 1) % MaxSize \in Slots
                           /\ (tail + k - 1) % MaxSize # head
  <2> SUFFICES ASSUME NEW k \in 1 .. Held
               PROVE  /\ (tail + k - 1) % MaxSize \in Slots
                      /\ (tail + k - 1) % MaxSize # head
    OBVIOUS
  <2>1. Held = IF head = tail THEN 0
               ELSE IF tail < head THEN head - tail
                                   ELSE head + MaxSize - tail
    BY <1>1, <1>2, HeldValue DEF Distance, TypeInv
  <2>2. PICK j \in 0 .. MaxSize : j = k - 1 /\ j < Held
    BY HeldValue, SizeAssumption DEF TypeInv
  <2>3. (tail + k - 1) % MaxSize = (tail + j) % MaxSize
    BY <2>2 DEF TypeInv, TypeOK, Slots
  <2>4. /\ (tail + j) % MaxSize = IF tail + j < MaxSize
                                    THEN tail + j
                                    ELSE tail + j - MaxSize
        /\ (tail + j) % MaxSize \in Slots
    BY Wrap DEF TypeInv, TypeOK
  <2> QED
    BY <2>1, <2>2, <2>3, <2>4, SizeAssumption DEF TypeInv, TypeOK, Slots
<1>5. \A k \in 1 .. Held :
        buf'[(tail + k - 1) % MaxSize] = buf[(tail + k - 1) % MaxSize]
  BY <1>1, <1>4 DEF TypeInv, TypeOK
<1> QED
  BY <1>1, <1>3, <1>5 DEF Contents

LEMMA PushContents ==
  ASSUME TypeInv, TypeInv', MutualExclusion, BodyInv, NEW t \in Threads,
         PushAdvance(t)
  PROVE  /\ Len(Contents) < MaxSize
         /\ Contents' = Append(Contents, call[t].item)
<1>1. /\ pc[t] = "push_advance" /\ pc[t] \in Inside /\ ~full
      /\ buf[head] = call[t].item
      /\ head' = (head + 1) % MaxSize
      /\ UNCHANGED <<buf, tail, full>>
  BY DEF PushAdvance, Goto, BodyInv, Inside, InBody
<1>2. ~Midway /\ Midway'
  <2>1. pc'[t] = "push_flag"
    BY DEF PushAdvance, Goto, TypeInv, TypeOK
  <2> QED
    BY <1>1, <2>1, MidwayInside DEF Midway
<1>3. Held = IF head = tail THEN 0
             ELSE IF tail < head THEN head - tail
                                 ELSE head + MaxSize - tail
  BY <1>1, <1>2, HeldValue DEF Distance, TypeInv
<1>4. head' = IF head + 1 < MaxSize THEN head + 1 ELSE 0
  <2>1. 1 \in 0 .. MaxSize
    BY SizeAssumption
  <2>2. (head + 1) % MaxSize = IF head + 1 < MaxSize THEN head + 1
                                                     ELSE head + 1 - MaxSize
    BY <2>1, Wrap DEF TypeInv, TypeOK
  <2> QED
    BY <1>1, <2>2, SizeAssumption DEF TypeInv, TypeOK, Slots
<1>5. Held' = IF head' = tail THEN MaxSize
              ELSE IF tail < head' THEN head' - tail
                                   ELSE head' + MaxSize - tail
  <2>1. (TypeOK => Held = Distance)'
    BY HeldValue, PTL
  <2> QED
    BY <1>1, <1>2, <2>1 DEF Distance, TypeInv
<1>6. Held < MaxSize /\ Held' = Held + 1 /\ Held \in Nat
  BY <1>3, <1>4, <1>5, SizeAssumption DEF TypeInv, TypeOK, Slots
<1>7. (tail + Held) % MaxSize = head
  <2>1. Held \in 0 .. MaxSize
    BY <1>6, SizeAssumption
  <2>2. (tail + Held) % MaxSize = IF tail + Held < MaxSize
                                    THEN tail + Held
                                    ELSE tail + Held - MaxSize
    BY <2>1, Wrap DEF TypeInv, TypeOK
  <2>3. (IF tail + Held < MaxSize THEN tail + Held
                                  ELSE tail + Held - MaxSize) = head
    BY <1>3, <1>6, SizeAssumption DEF TypeInv, TypeOK, Slots
  <2> QED
    BY <2>2, <2>3
<1>8. /\ Contents \in Seq(Items \cup {Garbage}) /\ Len(Contents) = Held
      /\ \A k \in 1 .. Held : Contents[k] = buf[(tail + k - 1) % MaxSize]
  BY ContentsSeq DEF TypeInv
<1>9. Contents' = [k \in 1 .. (Held + 1) |-> buf[(tail + k - 1) % MaxSize]]
  BY <1>1, <1>6 DEF Contents
<1>10. tail + (Held + 1) - 1 = tail + Held
  BY <1>6 DEF TypeInv, TypeOK, Slots
<1>11. Append(Contents, call[t].item) =
         [k \in 1 .. (Held + 1) |->
            IF k = Held + 1 THEN call[t].item ELSE Contents[k]]
  BY <1>6, <1>8
<1>12. \A k \in 1 .. (Held + 1) :
         buf[(tail + k - 1) % MaxSize] =
           IF k = Held + 1 THEN call[t].item ELSE Contents[k]
  BY <1>1, <1>6, <1>7, <1>8, <1>10
<1> QED
  BY <1>6, <1>8, <1>9, <1>11, <1>12

LEMMA PopContents ==
  ASSUME TypeInv, TypeInv', MutualExclusion, BodyInv, NEW t \in Threads,
         PopAdvance(t)
  PROVE  /\ Contents # <<>>
         /\ result[t] = Head(Contents)
         /\ Contents' = Tail(Contents)
<1>1. /\ pc[t] = "pop_advance" /\ pc[t] \in Inside /\ ~full
      /\ result[t] = buf[tail]
      /\ tail' = (tail + 1) % MaxSize
      /\ UNCHANGED <<buf, head, full>>
  BY DEF PopAdvance, Goto, BodyInv, Inside, InBody
<1>2. Midway /\ ~Midway'
  <2>1. pc'[t] = "unlock" /\ \A u \in Threads : u # t => pc'[u] = pc[u]
    BY DEF PopAdvance, Goto, TypeInv, TypeOK
  <2>2. \A u \in Threads : u # t => pc[u] \notin Inside
    BY <1>1 DEF MutualExclusion
  <2> QED
    BY <1>1, <2>1, <2>2, MidwayInside DEF Midway, Inside, InBody
<1>3. Held = IF head = tail THEN MaxSize
             ELSE IF tail < head THEN head - tail
                                 ELSE head + MaxSize - tail
  BY <1>1, <1>2, HeldValue DEF Distance, TypeInv
<1>4. tail' = IF tail + 1 < MaxSize THEN tail + 1 ELSE 0
  <2>1. 1 \in 0 .. MaxSize
    BY SizeAssumption
  <2>2. (tail + 1) % MaxSize = IF tail + 1 < MaxSize THEN tail + 1
                                                     ELSE tail + 1 - MaxSize
    BY <2>1, Wrap DEF TypeInv, TypeOK
  <2> QED
    BY <1>1, <2>2, SizeAssumption DEF TypeInv, TypeOK, Slots
<1>5. Held' = IF head = tail' THEN 0
              ELSE IF tail' < head THEN head - tail'
                                   ELSE head + MaxSize - tail'
  <2>1. (TypeOK => Held = Distance)'
    BY HeldValue, PTL
  <2> QED
    BY <1>1, <1>2, <2>1 DEF Distance, TypeInv
<1>6. Held \in Nat /\ Held > 0 /\ Held' = Held - 1
  BY <1>3, <1>4, <1>5, SizeAssumption DEF TypeInv, TypeOK, Slots
<1>7. /\ Contents \in Seq(Items \cup {Garbage}) /\ Len(Contents) = Held
      /\ \A k \in 1 .. Held : Contents[k] = buf[(tail + k - 1) % MaxSize]
  BY ContentsSeq DEF TypeInv
<1>8. Contents[1] = buf[tail]
  <2>1. (tail + 1 - 1) % MaxSize = tail
    <3>1. PICK a \in Slots : a = tail
      BY DEF TypeInv, TypeOK
    <3>2. a % MaxSize = a
      BY SizeAssumption DEF Slots
    <3>3. a + 1 - 1 = a
      BY DEF Slots
    <3> QED
      BY <3>1, <3>2, <3>3
  <2> QED
    BY <1>6, <1>7, <2>1
<1>9. Contents' = [k \in 1 .. (Held - 1) |-> buf[(tail' + k - 1) % MaxSize]]
  BY <1>1, <1>6 DEF Contents
<1>10. \A k \in 1 .. (Held - 1) :
         (tail' + k - 1) % MaxSize = (tail + (k + 1) - 1) % MaxSize
  <2> SUFFICES ASSUME NEW k \in 1 .. (Held - 1)
               PROVE  (tail' + k - 1) % MaxSize = (tail + (k + 1) - 1) % MaxSize
    OBVIOUS
  <2>1. Held <= MaxSize
    BY HeldValue, SizeAssumption DEF TypeInv
  <2>2. PICK j \in 0 .. MaxSize : j = k - 1 /\ j < MaxSize
    BY <1>6, <2>1, SizeAssumption
  <2>3. k \in 0 .. MaxSize
    BY <1>6, <2>1, SizeAssumption
  <2>4. (tail' + j) % MaxSize = IF tail' + j < MaxSize THEN tail' + j
                                ELSE tail' + j - MaxSize
    BY Wrap DEF TypeInv, TypeOK
  <2>5. (tail + k) % MaxSize = IF tail + k < MaxSize THEN tail + k
                               ELSE tail + k - MaxSize
    BY <2>3, Wrap DEF TypeInv, TypeOK
  <2>6. (IF tail' + j < MaxSize THEN tail' + j ELSE tail' + j - MaxSize)
          = (IF tail + k < MaxSize THEN tail + k ELSE tail + k - MaxSize)
    BY <1>4, <1>6, <2>1, <2>2, SizeAssumption DEF TypeInv, TypeOK, Slots
  <2>7. tail' + k - 1 = tail' + j /\ tail + (k + 1) - 1 = tail + k
    BY <1>6, <2>2 DEF TypeInv, TypeOK, Slots
  <2> QED
    BY <2>4, <2>5, <2>6, <2>7
<1>11. Tail(Contents) = [k \in 1 .. (Held - 1) |-> Contents[k + 1]]
  <2>1. Contents # <<>>
    BY <1>6, <1>7
  <2>2. /\ Tail(Contents) \in Seq(Items \cup {Garbage})
        /\ Len(Tail(Contents)) = Held - 1
        /\ \A k \in 1 .. (Held - 1) : Tail(Contents)[k] = Contents[k + 1]
    BY <1>6, <1>7, <2>1
  <2>3. DOMAIN Tail(Contents) = 1 .. (Held - 1)
        /\ Tail(Contents) = [k \in DOMAIN Tail(Contents) |-> Tail(Contents)[k]]
    BY <2>2, LenProperties
  <2> QED
    BY <2>2, <2>3
<1>12. \A k \in 1 .. (Held - 1) :
         buf[(tail' + k - 1) % MaxSize] = Contents[k + 1]
  <2> SUFFICES ASSUME NEW k \in 1 .. (Held - 1)
               PROVE  buf[(tail' + k - 1) % MaxSize] = Contents[k + 1]
    OBVIOUS
  <2>1. k + 1 \in 1 .. Held
    BY <1>6
  <2>2. Contents[k + 1] = buf[(tail + (k + 1) - 1) % MaxSize]
    BY <1>7, <2>1
  <2> QED
    BY <1>10, <2>2
<1>13. Contents # <<>> /\ Head(Contents) = Contents[1]
  BY <1>6, <1>7
<1> QED
  BY <1>1, <1>8, <1>9, <1>11, <1>12, <1>13

(* A buffer that holds nothing is the empty queue. *)
LEMMA NothingHeld ==
  ASSUME TypeOK, Held = 0
  PROVE  Contents = <<>>
BY ContentsSeq

-----------------------------------------------------------------------------
(* The refinement. *)
QueueStatus == [t \in Threads |-> Status(t)]
QueueReply == [t \in Threads |-> Reply(t)]

(* A step of one thread moves no other thread in the queue's terms. *)
LEMMA OwnStatus ==
  ASSUME MutualExclusion, NEW t \in Threads,
         \A u \in Threads \ {t} : pc'[u] = pc[u] /\ result'[u] = result[u],
         full' = full \/ pc[t] \in Inside
  PROVE  /\ QueueStatus' = [QueueStatus EXCEPT ![t] = Status(t)']
         /\ QueueReply' = [QueueReply EXCEPT ![t] = Reply(t)']
<1>1. \A u \in Threads \ {t} : full' = full \/ pc[u] # "reset_full"
  BY DEF MutualExclusion, Inside, InBody
<1>2. \A u \in Threads \ {t} : Status(u)' = Status(u) /\ Reply(u)' = Reply(u)
  BY <1>1 DEF Status, Reply
<1> QED
  BY <1>2 DEF QueueStatus, QueueReply

(* A step in which the call neither takes effect nor returns is invisible. *)
LEMMA InvisibleStep ==
  ASSUME MutualExclusion, NEW t \in Threads,
         \A u \in Threads \ {t} : pc'[u] = pc[u] /\ result'[u] = result[u],
         full' = full \/ pc[t] \in Inside,
         Status(t)' = Status(t), Reply(t)' = Reply(t),
         Contents' = Contents, call' = call
  PROVE  UNCHANGED Queue!vars
<1>1. QueueStatus' = QueueStatus /\ QueueReply' = QueueReply
  BY OwnStatus DEF QueueStatus, QueueReply
<1> QED
  BY <1>1 DEF Queue!vars, QueueStatus, QueueReply

LEMMA LockingRefines ==
  ASSUME TypeInv, MutualExclusion, BodyInv, NEW t \in Threads, Locking(t)
  PROVE  UNCHANGED Queue!vars \/ Queue!Return(t)
<1>1. /\ UNCHANGED <<ring, call, result>>
      /\ \A u \in Threads \ {t} : pc'[u] = pc[u]
  BY DEF Locking, Acquire, SaveIrql, Unlock, Release, Lower, Goto, ring,
         TypeInv, TypeOK
<1>2. full' = full
  BY <1>1 DEF ring
<1>3. /\ pc[t] \notin {"push_flag", "pop_advance"}
      /\ pc'[t] \notin {"push_flag", "pop_advance"}
  BY FirstSteps
  DEF Locking, Acquire, SaveIrql, Unlock, Release, Lower, Goto, TypeInv, TypeOK,
      CallMatches
<1>4. Contents' = Contents
  <2>1. Midway' <=> Midway
    BY <1>1, <1>3 DEF Midway
  <2> QED
    BY <1>1, <2>1, SameContents
<1>5. CASE Acquire(t) \/ Unlock(t) \/ Release(t)
  <2>1. Status(t)' = Status(t) /\ Reply(t)' = Reply(t)
    BY <1>1, <1>5
    DEF Acquire, Unlock, Release, Goto, Status, Reply, TypeInv, TypeOK
  <2> QED
    BY <1>1, <1>2, <1>4, <2>1, InvisibleStep
<1>6. CASE SaveIrql(t)
  <2>1. pc[t] = "save" /\ pc'[t] \in {"push_check", "pop_check", "reset_head"}
    BY <1>6, FirstSteps DEF SaveIrql, Goto, TypeInv, TypeOK, CallMatches
  <2>2. Status(t)' = Status(t) /\ Reply(t)' = Reply(t)
    BY <1>1, <2>1 DEF Status, Reply
  <2> QED
    BY <1>1, <1>2, <1>4, <2>2, InvisibleStep
<1>7. CASE Lower(t)
  <2>1. pc[t] = "lower" /\ pc'[t] = "idle"
    BY <1>7 DEF Lower, Goto, TypeInv, TypeOK
  <2>2. Status(t) = "answered" /\ Status(t)' = "idle" /\ Reply(t)' = Reply(t)
    BY <1>1, <2>1 DEF Status, Reply
  <2>3. /\ QueueStatus' = [QueueStatus EXCEPT ![t] = "idle"]
        /\ QueueReply' = QueueReply
    BY <1>1, <1>2, <2>2, OwnStatus DEF QueueStatus, QueueReply
  <2> QED
    BY <1>1, <1>4, <2>2, <2>3 DEF Queue!Return, QueueStatus, QueueReply
<1> QED
  BY <1>5, <1>6, <1>7 DEF Locking

LEMMA PushRefines ==
  ASSUME TypeInv, TypeInv', MutualExclusion, BodyInv, NEW t \in Threads,
         PushCheck(t) \/ PushWrite(t) \/ PushAdvance(t) \/ PushFlag(t)
  PROVE  UNCHANGED Queue!vars \/ Queue!Push(t) \/ Queue!PushLost(t)
<1>1. /\ pc[t] \in {"push_check", "push_write", "push_advance", "push_flag"}
      /\ pc[t] \in Inside
      /\ UNCHANGED <<call, result>>
      /\ \A u \in Threads \ {t} : pc'[u] = pc[u]
  BY DEF PushCheck, PushWrite, PushAdvance, PushFlag, Goto, Inside, InBody,
         TypeInv, TypeOK
<1>2. CASE PushCheck(t) /\ full
  <2>1. pc[t] = "push_check" /\ pc'[t] = "unlock" /\ UNCHANGED ring
    BY <1>2 DEF PushCheck, Goto, TypeInv, TypeOK
  <2>2. ~Midway /\ ~Midway'
    BY <1>1, <2>1, MidwayInside DEF Midway
  <2>3. Contents' = Contents
    BY <2>1, <2>2, SameContents
  <2>4. Len(Contents) = MaxSize
    BY <1>2, HeldValue, ContentsSeq DEF BodyInv, Distance, TypeInv
  <2>5. Status(t) = "called" /\ Status(t)' = "answered" /\ Reply(t)' = Reply(t)
    BY <1>1, <2>1 DEF Status, Reply
  <2>6. /\ QueueStatus' = [QueueStatus EXCEPT ![t] = "answered"]
        /\ QueueReply' = QueueReply
    BY <1>1, <2>5, OwnStatus DEF QueueStatus, QueueReply
  <2>7. call[t].op = "push"
    BY <2>1 DEF TypeInv, CallMatches
  <2> QED
    BY <1>1, <2>3, <2>4, <2>5, <2>6, <2>7
    DEF Queue!PushLost, Queue!Answer, QueueStatus, QueueReply
<1>3. CASE PushCheck(t) /\ ~full
  <2>1. pc[t] = "push_check" /\ pc'[t] = "push_write" /\ UNCHANGED ring
    BY <1>3 DEF PushCheck, Goto, TypeInv, TypeOK
  <2>2. ~Midway /\ ~Midway'
    BY <1>1, <2>1, MidwayInside DEF Midway
  <2>3. Contents' = Contents
    BY <2>1, <2>2, SameContents
  <2>4. Status(t)' = Status(t) /\ Reply(t)' = Reply(t)
    BY <1>1, <2>1 DEF Status, Reply
  <2> QED
    BY <1>1, <2>3, <2>4, InvisibleStep
<1>4. CASE PushWrite(t)
  <2>1. pc[t] = "push_write" /\ pc'[t] = "push_advance"
    BY <1>4 DEF PushWrite, Goto, TypeInv, TypeOK
  <2>2. Contents' = Contents
    BY <1>4, WriteContents
  <2>3. Status(t)' = Status(t) /\ Reply(t)' = Reply(t)
    BY <1>1, <2>1 DEF Status, Reply
  <2> QED
    BY <1>1, <2>2, <2>3, InvisibleStep
<1>5. CASE PushAdvance(t)
  <2>1. pc[t] = "push_advance" /\ pc'[t] = "push_flag"
    BY <1>5 DEF PushAdvance, Goto, TypeInv, TypeOK
  <2>2. /\ Len(Contents) < MaxSize
        /\ Contents' = Append(Contents, call[t].item)
    BY <1>5, PushContents
  <2>3. Status(t) = "called" /\ Status(t)' = "answered" /\ Reply(t)' = Reply(t)
    BY <1>1, <2>1 DEF Status, Reply
  <2>4. /\ QueueStatus' = [QueueStatus EXCEPT ![t] = "answered"]
        /\ QueueReply' = QueueReply
    BY <1>1, <2>3, OwnStatus DEF QueueStatus, QueueReply
  <2>5. call[t].op = "push"
    BY <2>1 DEF TypeInv, CallMatches
  <2> QED
    BY <1>1, <2>2, <2>3, <2>4, <2>5
    DEF Queue!Push, Queue!Answer, QueueStatus, QueueReply
<1>6. CASE PushFlag(t)
  <2>1. /\ pc[t] = "push_flag" /\ pc'[t] = "unlock" /\ ~full
        /\ full' = (head = tail) /\ UNCHANGED <<buf, head, tail>>
    BY <1>6 DEF PushFlag, Goto, TypeInv, TypeOK, BodyInv
  <2>2. Midway /\ ~Midway'
    <3>1. \A u \in Threads : u # t => pc[u] \notin Inside
      BY <1>1 DEF MutualExclusion
    <3> QED
      BY <1>1, <2>1, <3>1 DEF Midway, Inside, InBody
  <2>3. Contents' = Contents
    BY <2>1, <2>2 DEF Contents, Held, Midway
  <2>4. Status(t)' = Status(t) /\ Reply(t)' = Reply(t)
    BY <1>1, <2>1 DEF Status, Reply
  <2> QED
    BY <1>1, <2>3, <2>4, InvisibleStep
<1> QED
  BY <1>2, <1>3, <1>4, <1>5, <1>6

LEMMA PopRefines ==
  ASSUME TypeInv, TypeInv', MutualExclusion, BodyInv, NEW t \in Threads,
         PopCheck(t) \/ PopRead(t) \/ PopClear(t) \/ PopAdvance(t)
  PROVE  UNCHANGED Queue!vars \/ Queue!Pop(t) \/ Queue!PopFailed(t)
<1>1. /\ pc[t] \in {"pop_check", "pop_read", "pop_clear", "pop_advance"}
      /\ pc[t] \in Inside
      /\ call' = call
      /\ \A u \in Threads \ {t} : pc'[u] = pc[u] /\ result'[u] = result[u]
  BY DEF PopCheck, PopRead, PopClear, PopAdvance, Goto, Inside, InBody, TypeInv,
         TypeOK
<1>2. \A u \in Threads : u # t => pc[u] \notin Inside
  BY <1>1 DEF MutualExclusion
<1>3. CASE PopCheck(t) /\ Empty
  <2>1. /\ pc[t] = "pop_check" /\ pc'[t] = "unlock" /\ UNCHANGED ring
        /\ result' = result
    BY <1>3 DEF PopCheck, Goto, TypeInv, TypeOK
  <2>2. ~Midway /\ ~Midway'
    BY <1>1, <2>1, MidwayInside DEF Midway
  <2>3. Contents' = Contents
    BY <2>1, <2>2, SameContents
  <2>4. Contents = <<>>
    BY <1>3, <2>2, HeldValue, NothingHeld DEF Empty, Distance, TypeInv
  <2>5. Status(t) = "called" /\ Status(t)' = "answered" /\ Reply(t)' = Reply(t)
    BY <1>1, <2>1 DEF Status, Reply
  <2>6. /\ QueueStatus' = [QueueStatus EXCEPT ![t] = "answered"]
        /\ QueueReply' = QueueReply
    BY <1>1, <2>5, OwnStatus DEF QueueStatus, QueueReply
  <2>7. call[t].op = "pop"
    BY <2>1 DEF TypeInv, CallMatches
  <2> QED
    BY <1>1, <2>3, <2>4, <2>5, <2>6, <2>7
    DEF Queue!PopFailed, Queue!Answer, QueueStatus, QueueReply
<1>4. CASE PopCheck(t) /\ ~Empty
  <2>1. /\ pc[t] = "pop_check" /\ pc'[t] = "pop_read" /\ UNCHANGED ring
        /\ result' = result
    BY <1>4 DEF PopCheck, Goto, TypeInv, TypeOK
  <2>2. ~Midway /\ ~Midway'
    BY <1>1, <2>1, MidwayInside DEF Midway
  <2>3. Contents' = Contents
    BY <2>1, <2>2, SameContents
  <2>4. Status(t)' = Status(t) /\ Reply(t)' = Reply(t)
    BY <1>1, <2>1 DEF Status, Reply
  <2> QED
    BY <1>1, <2>3, <2>4, InvisibleStep
<1>5. CASE PopRead(t)
  <2>1. pc[t] = "pop_read" /\ pc'[t] = "pop_clear" /\ UNCHANGED ring
    BY <1>5 DEF PopRead, Goto, TypeInv, TypeOK
  <2>2. ~Midway /\ ~Midway'
    BY <1>1, <2>1, MidwayInside DEF Midway
  <2>3. Contents' = Contents
    BY <2>1, <2>2, SameContents
  <2>4. result[t] = NoItem
    BY <2>1 DEF TypeInv, CallMatches
  <2>5. Status(t)' = Status(t) /\ Reply(t)' = Reply(t)
    BY <1>1, <2>1, <2>4 DEF Status, Reply
  <2>6. full' = full
    BY <2>1 DEF ring
  <2> QED
    BY <1>1, <2>3, <2>5, <2>6, InvisibleStep
<1>6. CASE PopClear(t)
  <2>1. /\ pc[t] = "pop_clear" /\ pc'[t] = "pop_advance" /\ ~Empty
        /\ ~full' /\ UNCHANGED <<buf, head, tail, result>>
    BY <1>6 DEF PopClear, Goto, TypeInv, TypeOK, BodyInv
  <2>2. ~Midway /\ Midway'
    BY <1>1, <2>1, MidwayInside DEF Midway
  <2>3. Contents' = Contents
    BY <2>1, <2>2 DEF Contents, Held, Empty, Midway
  <2>4. Status(t)' = Status(t) /\ Reply(t)' = Reply(t)
    BY <1>1, <2>1 DEF Status, Reply
  <2> QED
    BY <1>1, <2>3, <2>4, InvisibleStep
<1>7. CASE PopAdvance(t)
  <2>1. /\ pc[t] = "pop_advance" /\ pc'[t] = "unlock"
        /\ result' = result
    BY <1>7 DEF PopAdvance, Goto, TypeInv, TypeOK
  <2>2. /\ Contents # <<>>
        /\ result[t] = Head(Contents)
        /\ Contents' = Tail(Contents)
    BY <1>7, PopContents
  <2>3. /\ Status(t) = "called" /\ Status(t)' = "answered"
        /\ Reply(t)' = Head(Contents)
    BY <1>1, <2>1, <2>2 DEF Status, Reply
  <2>4. /\ QueueStatus' = [QueueStatus EXCEPT ![t] = "answered"]
        /\ QueueReply' = [QueueReply EXCEPT ![t] = Head(Contents)]
    BY <1>1, <2>3, OwnStatus
  <2>5. call[t].op = "pop"
    BY <2>1 DEF TypeInv, CallMatches
  <2> QED
    BY <1>1, <2>2, <2>3, <2>4, <2>5
    DEF Queue!Pop, Queue!Answer, QueueStatus, QueueReply
<1> QED
  BY <1>3, <1>4, <1>5, <1>6, <1>7

LEMMA ResetRefines ==
  ASSUME TypeInv, TypeInv', MutualExclusion, BodyInv, NEW t \in Threads,
         ResetHead(t) \/ ResetFull(t)
  PROVE  UNCHANGED Queue!vars \/ Queue!Reset(t)
<1>1. /\ pc[t] \in {"reset_head", "reset_full"}
      /\ pc'[t] \in {"reset_full", "unlock"}
      /\ pc[t] \in Inside
      /\ call[t].op = "reset"
      /\ UNCHANGED <<buf, tail, call, result>>
      /\ \A u \in Threads \ {t} : pc'[u] = pc[u]
  BY DEF ResetHead, ResetFull, Goto, Inside, InBody, TypeInv, TypeOK,
         CallMatches
<1>2. ~Midway /\ ~Midway'
  BY <1>1, MidwayInside DEF Midway
<1>3. Reply(t)' = Reply(t)
  BY <1>1 DEF Reply
<1>4. ASSUME Status(t) = "called", Status(t)' = "answered", Held' = 0
      PROVE  Queue!Reset(t)
  <2>1. Contents' = <<>>
    <3>1. (TypeOK /\ Held = 0 => Contents = <<>>)'
      BY NothingHeld, PTL
    <3> QED
      BY <1>4, <3>1 DEF TypeInv
  <2>2. /\ QueueStatus' = [QueueStatus EXCEPT ![t] = "answered"]
        /\ QueueReply' = QueueReply
    BY <1>1, <1>3, <1>4, OwnStatus DEF QueueStatus, QueueReply
  <2> QED
    BY <1>1, <1>4, <2>1, <2>2
    DEF Queue!Reset, Queue!Answer, QueueStatus, QueueReply
<1>5. ASSUME Status(t)' = Status(t), Held' = Held
      PROVE  UNCHANGED Queue!vars
  <2>1. Contents' = Contents
    BY <1>1, <1>5 DEF Contents
  <2> QED
    BY <1>1, <1>3, <1>5, <2>1, InvisibleStep
<1>6. CASE ResetHead(t)
  <2>1. pc[t] = "reset_head" /\ pc'[t] = "reset_full"
          /\ head' = tail /\ UNCHANGED <<tail, full>>
    BY <1>6 DEF ResetHead, Goto, TypeInv, TypeOK
  <2>2. CASE full
    <3>1. Status(t)' = Status(t)
      BY <2>1, <2>2 DEF Status
    <3>2. Held' = Held
      BY <1>2, <2>1, <2>2 DEF BodyInv, Held, Midway
    <3> QED
      BY <1>5, <3>1, <3>2
  <2>3. CASE ~full
    <3>1. Status(t) = "called" /\ Status(t)' = "answered"
      BY <2>1, <2>3 DEF Status
    <3>2. Held' = 0
      BY <1>2, <2>1, <2>3 DEF Held, Midway
    <3> QED
      BY <1>4, <3>1, <3>2
  <2> QED
    BY <2>2, <2>3
<1>7. CASE ResetFull(t)
  <2>1. pc[t] = "reset_full" /\ pc'[t] = "unlock"
          /\ ~full' /\ head = tail /\ UNCHANGED <<head, tail>>
    BY <1>7 DEF ResetFull, Goto, TypeInv, TypeOK, BodyInv
  <2>2. Status(t)' = "answered"
    BY <2>1 DEF Status
  <2>3. Held' = 0
    BY <1>2, <2>1 DEF Held, Midway
  <2>4. CASE full
    <3>1. Status(t) = "called"
      BY <2>1, <2>4 DEF Status
    <3> QED
      BY <1>4, <2>2, <2>3, <3>1
  <2>5. CASE ~full
    <3>1. Status(t) = "answered" /\ Held = 0
      BY <1>2, <2>1, <2>5 DEF Status, Held, Midway
    <3> QED
      BY <1>5, <2>2, <2>3, <3>1
  <2> QED
    BY <2>4, <2>5
<1> QED
  BY <1>6, <1>7

LEMMA CallRefines ==
  ASSUME TypeInv, MutualExclusion, NEW t \in Threads,
         NEW request \in Queue!Calls, Call(t, request)
  PROVE  Queue!Invoke(t, request)
<1>1. /\ pc[t] = "idle" /\ pc'[t] = "spin" /\ UNCHANGED ring
      /\ result'[t] = NoItem
      /\ \A u \in Threads \ {t} : pc'[u] = pc[u] /\ result'[u] = result[u]
  BY DEF Call, Goto, TypeInv, TypeOK
<1>2. Contents' = Contents
  <2>1. Midway' <=> Midway
    BY <1>1 DEF Midway
  <2> QED
    BY <1>1, <2>1, SameContents
<1>3. Status(t) = "idle" /\ Status(t)' = "called" /\ Reply(t)' = NoItem
  BY <1>1 DEF Status, Reply
<1>4. /\ QueueStatus' = [QueueStatus EXCEPT ![t] = "called"]
      /\ QueueReply' = [QueueReply EXCEPT ![t] = NoItem]
  BY <1>1, <1>3, OwnStatus DEF ring
<1> QED
  BY <1>2, <1>3, <1>4 DEF Call, Queue!Invoke, QueueStatus, QueueReply

(* For every capacity, and however the callers interleave, the buffer is a  *)
(* bounded first-in first-out queue in which each call takes effect at one  *)
(* moment.                                                                  *)
THEOREM BufferIsQueue == Spec => IsQueue
<1>1. Init => Queue!Init
  <2> SUFFICES ASSUME Init
               PROVE  Queue!Init
    OBVIOUS
  <2>1. Held = 0
    BY DEF Init, Held
  <2>2. Contents = <<>>
    BY <2>1, TypeInvInductive, NothingHeld DEF TypeInv
  <2> QED
    BY <2>2 DEF Init, Queue!Init, Status, Reply
<1>2. TypeInv /\ TypeInv' /\ MutualExclusion /\ BodyInv /\ [Next]_vars
        => [Queue!Next]_(Queue!vars)
  <2> SUFFICES ASSUME TypeInv, TypeInv', MutualExclusion, BodyInv, [Next]_vars
               PROVE  [Queue!Next]_(Queue!vars)
    OBVIOUS
  <2>1. ASSUME NEW t \in Threads, NEW request \in Queue!Calls,
               Call(t, request)
        PROVE  Queue!Next
    BY <2>1, CallRefines DEF Queue!Next
  <2>2. ASSUME NEW t \in Threads, Locking(t)
        PROVE  [Queue!Next]_(Queue!vars)
    BY <2>2, LockingRefines DEF Queue!Next
  <2>3. ASSUME NEW t \in Threads, Body(t)
        PROVE  [Queue!Next]_(Queue!vars)
    BY <2>3, PushRefines, PopRefines, ResetRefines DEF Body, Queue!Next
  <2>4. CASE UNCHANGED vars
    BY <2>4 DEF vars, ring, Queue!vars, Contents, Held, Status, Reply
  <2> QED
    BY <2>1, <2>2, <2>3, <2>4 DEF Next
<1> QED
  BY <1>1, <1>2, TypeInvInductive, LockInductive, BodyInvInductive, PTL
  DEF Spec, IsQueue, Queue!Spec
=============================================================================
