---------------------------- MODULE CyclicBuffer ----------------------------
(***************************************************************************)
(* kstd::CyclicBuffer<LogEntry, kstd::SpinLock>, the log buffer that the   *)
(* hook callbacks push into and the GetData request pops from, with the    *)
(* lock it takes through kstd::LockGuard.                                  *)
(*                                                                         *)
(* The caller's IRQL travels through a member of the lock: old_irql_ is    *)
(* written by lock() after the lock is won and read by unlock() before it  *)
(* is given up.  Each access to a field of the buffer or of the lock is a  *)
(* step of its own, and other threads may run between any two of them.     *)
(***************************************************************************)
EXTENDS Integers, Sequences

CONSTANTS
  MaxSize,     (* max_size_                                                *)
  Threads,     (* The threads that call the buffer.                        *)
  Items,       (* The log entries.                                         *)
  NoItem,      (* No entry: what the caller's result holds before a pop.   *)
  Garbage,     (* The contents of memory that was never written.           *)
  CallerIrql,  (* The IRQL at which each thread calls.                     *)
  Processor    (* The processor each thread runs on.                       *)

LowIrqls == {"PASSIVE_LEVEL", "APC_LEVEL"}
Irqls == LowIrqls \cup {"DISPATCH_LEVEL"}

ASSUME SizeAssumption == MaxSize \in Nat \ {0}
ASSUME IrqlAssumption == CallerIrql \in [Threads -> LowIrqls]

VARIABLES
  buf,         (* buf_                                                     *)
  head,        (* head_, the slot of the next push                         *)
  tail,        (* tail_, the slot of the next pop                          *)
  full,        (* full_                                                    *)
  locked,      (* lock_                                                    *)
  old_irql,    (* old_irql_                                                *)
  pc,          (* Where each thread is in the code.                        *)
  call,        (* The call it is making.                                   *)
  result,      (* The result it passed to pop by reference.                *)
  irql,        (* The IRQL it runs at.                                     *)
  reg          (* The IRQL it has in a register, to store or to lower to.  *)

ring == <<buf, head, tail, full>>
lock == <<locked, old_irql>>
vars == <<ring, lock, pc, call, result, irql, reg>>

Slots == 0 .. (MaxSize - 1)

-----------------------------------------------------------------------------
(* The buffer as a queue.  Between the two assignments of a push that fills *)
(* the last slot, and between those of a pop, full_ and the positions       *)
(* disagree: equal positions then mean a full buffer.                       *)
Empty == ~full /\ head = tail

Held ==
  IF head = tail
    THEN IF full \/ \E t \in Threads : pc[t] \in {"push_flag", "pop_advance"}
           THEN MaxSize
           ELSE 0
    ELSE (head + MaxSize - tail) % MaxSize

Contents == [k \in 1 .. Held |-> buf[(tail + k - 1) % MaxSize]]

(* A push takes effect when it advances head_, a pop when it advances       *)
(* tail_, a reset with the assignment that empties the buffer, and the      *)
(* calls that change nothing when they find that out.                       *)
Status(t) ==
  IF pc[t] = "idle" THEN "idle"
  ELSE IF \/ pc[t] \in {"spin", "save", "push_check", "push_write",
                        "push_advance", "pop_check", "pop_read", "pop_clear",
                        "pop_advance", "reset_head"}
          \/ pc[t] = "reset_full" /\ full
         THEN "called"
         ELSE "answered"

(* The entry a pop has copied is its answer once the pop has taken effect.  *)
Reply(t) ==
  IF pc[t] \in {"pop_clear", "pop_advance"} THEN NoItem ELSE result[t]

Queue == INSTANCE LogQueue WITH
  queue <- Contents,
  status <- [t \in Threads |-> Status(t)],
  reply <- [t \in Threads |-> Reply(t)]

Init ==
  /\ buf = [s \in Slots |-> Garbage]
  /\ head = 0
  /\ tail = 0
  /\ full = FALSE
  /\ locked = FALSE
  /\ old_irql \in Irqls  (* never initialised *)
  /\ pc = [t \in Threads |-> "idle"]
  /\ call = [t \in Threads |-> Queue!NoCall]
  /\ result = [t \in Threads |-> NoItem]
  /\ irql = CallerIrql
  /\ reg = [t \in Threads |-> "PASSIVE_LEVEL"]

(* A thread at DISPATCH_LEVEL is not preempted. *)
Runs(t) ==
  \A u \in Threads \ {t} :
    Processor[u] = Processor[t] => irql[u] # "DISPATCH_LEVEL"

Goto(t, from, to) ==
  /\ Runs(t)
  /\ pc[t] = from
  /\ pc' = [pc EXCEPT ![t] = to]

-----------------------------------------------------------------------------
(* LockGuard and SpinLock. *)

(* A call of the buffer begins with KeAcquireSpinLock(&lock_, &old_irql_),  *)
(* which raises the IRQL and keeps the old one in a register ...            *)
Call(t, request) ==
  /\ Goto(t, "idle", "spin")
  /\ call' = [call EXCEPT ![t] = request]
  /\ result' = [result EXCEPT ![t] = NoItem]
  /\ reg' = [reg EXCEPT ![t] = irql[t]]
  /\ irql' = [irql EXCEPT ![t] = "DISPATCH_LEVEL"]
  /\ UNCHANGED <<ring, lock>>

(* Mutant: the lock is taken without looking whether it is free. *)
AcquireHeld(t) ==
  /\ Goto(t, "spin", "save")
  /\ locked' = TRUE
  /\ UNCHANGED <<ring, old_irql, call, result, irql, reg>>

(* ... spins until it wins the lock ... *)
Acquire(t) ==
  /\ Goto(t, "spin", "save")
  /\ ~locked
  /\ locked' = TRUE
  /\ UNCHANGED <<ring, old_irql, call, result, irql, reg>>

FirstStep(request) ==
  CASE request.op = "push" -> "push_check"
    [] request.op = "pop" -> "pop_check"
    [] request.op = "reset" -> "reset_head"

(* ... and stores the register into old_irql_. *)
SaveIrql(t) ==
  /\ Goto(t, "save", FirstStep(call[t]))
  /\ old_irql' = reg[t]
  /\ UNCHANGED <<ring, locked, call, result, irql, reg>>

(* ~LockGuard, on every return: the argument of KeReleaseSpinLock is read,  *)
Unlock(t) ==
  /\ Goto(t, "unlock", "release")
  /\ reg' = [reg EXCEPT ![t] = old_irql]
  /\ UNCHANGED <<ring, lock, call, result, irql>>

(* the lock is given up,                                                    *)
Release(t) ==
  /\ Goto(t, "release", "lower")
  /\ locked' = FALSE
  /\ UNCHANGED <<ring, old_irql, call, result, irql, reg>>

(* Mutant: the IRQL is read from the lock after the lock was given up. *)
LowerToMember(t) ==
  /\ Goto(t, "lower", "idle")
  /\ irql' = [irql EXCEPT ![t] = old_irql]
  /\ UNCHANGED <<ring, lock, call, result, reg>>

(* the IRQL is lowered, and the call returns.                               *)
Lower(t) ==
  /\ Goto(t, "lower", "idle")
  /\ irql' = [irql EXCEPT ![t] = reg[t]]
  /\ UNCHANGED <<ring, lock, call, result, reg>>

-----------------------------------------------------------------------------
(* push *)

(* Mutant: the early return skips the guard's destructor. *)
PushCheckNoUnlock(t) ==
  /\ Goto(t, "push_check", IF full THEN "lower" ELSE "push_write")
  /\ UNCHANGED <<ring, lock, call, result, irql, reg>>

(* if (full_) return *)
PushCheck(t) ==
  /\ Goto(t, "push_check", IF full THEN "unlock" ELSE "push_write")
  /\ UNCHANGED <<ring, lock, call, result, irql, reg>>

(* buf_[head_] = item *)
PushWrite(t) ==
  /\ Goto(t, "push_write", "push_advance")
  /\ buf' = [buf EXCEPT ![head] = call[t].item]
  /\ UNCHANGED <<head, tail, full, lock, call, result, irql, reg>>

(* head_ = (head_ + 1) % max_size_ *)
PushAdvance(t) ==
  /\ Goto(t, "push_advance", "push_flag")
  /\ head' = (head + 1) % MaxSize
  /\ UNCHANGED <<buf, tail, full, lock, call, result, irql, reg>>

(* Mutant: the buffer is never marked full. *)
PushNoFlag(t) ==
  /\ Goto(t, "push_flag", "unlock")
  /\ UNCHANGED <<ring, lock, call, result, irql, reg>>

(* full_ = head_ == tail_ *)
PushFlag(t) ==
  /\ Goto(t, "push_flag", "unlock")
  /\ full' = (head = tail)
  /\ UNCHANGED <<buf, head, tail, lock, call, result, irql, reg>>

-----------------------------------------------------------------------------
(* pop *)

(* if (empty()) return false *)
PopCheck(t) ==
  /\ Goto(t, "pop_check", IF Empty THEN "unlock" ELSE "pop_read")
  /\ UNCHANGED <<ring, lock, call, result, irql, reg>>

(* result = buf_[tail_] *)
PopRead(t) ==
  /\ Goto(t, "pop_read", "pop_clear")
  /\ result' = [result EXCEPT ![t] = buf[tail]]
  /\ UNCHANGED <<ring, lock, call, irql, reg>>

(* full_ = false *)
PopClear(t) ==
  /\ Goto(t, "pop_clear", "pop_advance")
  /\ full' = FALSE
  /\ UNCHANGED <<buf, head, tail, lock, call, result, irql, reg>>

(* tail_ = (tail_ + 1) % max_size_ *)
PopAdvance(t) ==
  /\ Goto(t, "pop_advance", "unlock")
  /\ tail' = (tail + 1) % MaxSize
  /\ UNCHANGED <<buf, head, full, lock, call, result, irql, reg>>

-----------------------------------------------------------------------------
(* reset *)

(* head_ = tail_ *)
ResetHead(t) ==
  /\ Goto(t, "reset_head", "reset_full")
  /\ head' = tail
  /\ UNCHANGED <<buf, tail, full, lock, call, result, irql, reg>>

(* full_ = false *)
ResetFull(t) ==
  /\ Goto(t, "reset_full", "unlock")
  /\ full' = FALSE
  /\ UNCHANGED <<buf, head, tail, lock, call, result, irql, reg>>

-----------------------------------------------------------------------------
Locking(t) ==
  \/ Acquire(t) \/ SaveIrql(t) \/ Unlock(t) \/ Release(t) \/ Lower(t)

Body(t) ==
  \/ PushCheck(t) \/ PushWrite(t) \/ PushAdvance(t) \/ PushFlag(t)
  \/ PopCheck(t) \/ PopRead(t) \/ PopClear(t) \/ PopAdvance(t)
  \/ ResetHead(t) \/ ResetFull(t)

Next ==
  \E t \in Threads :
    \/ \E request \in Queue!Calls : Call(t, request)
    \/ Locking(t)
    \/ Body(t)

Spec == Init /\ [][Next]_vars

(* Nothing preempts a thread that has raised its IRQL: its processor goes   *)
(* on executing it.                                                         *)
Fairness == \A t \in Threads : WF_vars(Locking(t) \/ Body(t))

FairSpec == Spec /\ Fairness

-----------------------------------------------------------------------------
(* Properties. *)

InBody == {"push_check", "push_write", "push_advance", "push_flag",
           "pop_check", "pop_read", "pop_clear", "pop_advance",
           "reset_head", "reset_full"}
Inside == InBody \cup {"save", "unlock", "release"}
Places == Inside \cup {"idle", "spin", "lower"}

(* Every variable has its type; in particular the positions are slots. *)
TypeOK ==
  /\ buf \in [Slots -> Items \cup {Garbage}]
  /\ head \in Slots
  /\ tail \in Slots
  /\ full \in BOOLEAN
  /\ locked \in BOOLEAN
  /\ old_irql \in Irqls
  /\ pc \in [Threads -> Places]
  /\ call \in [Threads -> Queue!Calls \cup {Queue!NoCall}]
  /\ result \in [Threads -> Items \cup {NoItem, Garbage}]
  /\ irql \in [Threads -> Irqls]
  /\ reg \in [Threads -> Irqls]

(* SpinLock: at most one thread is between the acquisition and the release, *)
(* and the lock is held exactly when one is.                                *)
MutualExclusion ==
  /\ \A t, u \in Threads : pc[t] \in Inside /\ pc[u] \in Inside => t = u
  /\ locked <=> \E t \in Threads : pc[t] \in Inside

(* Although all callers share old_irql_, each leaves the buffer at the IRQL *)
(* it called at.                                                            *)
IrqlRestored ==
  \A t \in Threads : pc[t] = "idle" => irql[t] = CallerIrql[t]

(* Callers cannot tell the buffer from a bounded queue: no entry it accepts *)
(* is lost, repeated, reordered or read before it was written.              *)
IsQueue == Queue!Spec

(* LockGuard gives the lock up on every path, early returns included.       *)
LockReleased == locked ~> ~locked

=============================================================================
