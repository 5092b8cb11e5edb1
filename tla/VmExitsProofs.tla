---------------------------- MODULE VmExitsProofs ----------------------------
(***************************************************************************)
(* What is proved of VmExits for words and sets of MSRs of any size, every *)
(* processor and program the assumptions allow: VMLAUNCH succeeds, and the *)
(* guest cannot tell that it leaves to the driver.                         *)
(***************************************************************************)
EXTENDS VmExits, SequenceTheorems, TLAPS

Slots == 1 .. 15
InHost == {"exit", "handler", "handled", "resume", "vmxoff_handler"}
Saved == P!Registers \ {P!RSP}

-----------------------------------------------------------------------------
(* The three orders of the registers agree. *)

LEMMA SlotCases ==
  \A k \in Slots : \/ k = 1 \/ k = 2 \/ k = 3 \/ k = 4 \/ k = 5 \/ k = 6
                   \/ k = 7 \/ k = 8 \/ k = 9 \/ k = 10 \/ k = 11 \/ k = 12
                   \/ k = 13 \/ k = 14 \/ k = 15
BY DEF Slots

LEMMA OrderFacts ==
  /\ Len(SaveOrder) = 15 /\ RestoreOrder = ContextOrder
  /\ DOMAIN ContextOrder = Slots
  /\ \A k \in Slots : /\ ContextOrder[k] \in Saved
                      /\ SaveOrder[16 - k] = ContextOrder[k]
<1>1. Len(SaveOrder) = 15 /\ RestoreOrder = ContextOrder
  BY DEF SaveOrder, RestoreOrder, ContextOrder
<1>2. DOMAIN ContextOrder = Slots
  BY DEF ContextOrder, Slots
<1>3. \A k \in Slots : ContextOrder[k] \in Saved
  BY SlotCases DEF ContextOrder, Saved, P!Registers, P!RSP
<1>4. \A k \in Slots : SaveOrder[16 - k] = ContextOrder[k]
  BY SlotCases DEF ContextOrder, SaveOrder
<1> QED
  BY <1>1, <1>2, <1>3, <1>4

(* Each saved register has a place in the context. *)
LEMMA MemberFacts ==
  \A r \in Saved : Member(r) \in Slots /\ ContextOrder[Member(r)] = r
<1> SUFFICES ASSUME NEW r \in Saved
             PROVE  Member(r) \in Slots /\ ContextOrder[Member(r)] = r
  OBVIOUS
<1>1. \E k \in Slots : ContextOrder[k] = r
  <2>1. /\ 1 \in Slots /\ 2 \in Slots /\ 3 \in Slots /\ 4 \in Slots /\ 5 \in Slots
        /\ 6 \in Slots /\ 7 \in Slots /\ 8 \in Slots /\ 9 \in Slots /\ 10 \in Slots
        /\ 11 \in Slots /\ 12 \in Slots /\ 13 \in Slots /\ 14 \in Slots
        /\ 15 \in Slots
    BY DEF Slots
  <2>2. /\ ContextOrder[1] = 0 /\ ContextOrder[2] = 1 /\ ContextOrder[3] = 2
        /\ ContextOrder[4] = 3 /\ ContextOrder[5] = 5 /\ ContextOrder[6] = 6
        /\ ContextOrder[7] = 7 /\ ContextOrder[8] = 8 /\ ContextOrder[9] = 9
        /\ ContextOrder[10] = 10 /\ ContextOrder[11] = 11 /\ ContextOrder[12] = 12
        /\ ContextOrder[13] = 13 /\ ContextOrder[14] = 14 /\ ContextOrder[15] = 15
    BY DEF ContextOrder
  <2>3. \/ r = 0 \/ r = 1 \/ r = 2 \/ r = 3 \/ r = 5 \/ r = 6 \/ r = 7 \/ r = 8
        \/ r = 9 \/ r = 10 \/ r = 11 \/ r = 12 \/ r = 13 \/ r = 14 \/ r = 15
    BY DEF Saved, P!Registers, P!RSP
  <2> QED
    BY <2>1, <2>2, <2>3
<1> QED
  BY <1>1, OrderFacts DEF Member

LEMMA PushedFacts ==
  ASSUME NEW regs \in [P!Registers -> P!Value]
  PROVE  /\ Pushed(regs) \in [Slots -> P!Value]
         /\ \A r \in Saved : Pushed(regs)[Member(r)] = regs[r]
<1>1. Pushed(regs) = [k \in Slots |-> regs[ContextOrder[k]]]
  BY OrderFacts DEF Pushed, Slots
<1> QED
  BY <1>1, OrderFacts, MemberFacts DEF Saved

LEMMA PoppedFacts ==
  ASSUME NEW words \in [Slots -> P!Value], NEW rsp \in P!Value
  PROVE  /\ Popped(words, rsp) \in [P!Registers -> P!Value]
         /\ Popped(words, rsp)[P!RSP] = rsp
         /\ \A r \in Saved : Popped(words, rsp)[r] = words[Member(r)]
<1>1. Popped(words, rsp) =
        [r \in P!Registers |-> IF r = P!RSP THEN rsp ELSE words[Member(r)]]
  BY OrderFacts DEF Popped, Member
<1> QED
  BY <1>1, MemberFacts DEF Saved, P!RSP, P!Registers

(* Registers whose values are all in their places are popped. *)
LEMMA PoppedAre ==
  ASSUME NEW words \in [Slots -> P!Value], NEW regs \in [P!Registers -> P!Value],
         \A r \in Saved : words[Member(r)] = regs[r]
  PROVE  Popped(words, regs[P!RSP]) = regs
<1>1. regs[P!RSP] \in P!Value
  BY DEF P!RSP, P!Registers
<1> DEFINE back == Popped(words, regs[P!RSP])
<1>2. /\ back \in [P!Registers -> P!Value]
      /\ back[P!RSP] = regs[P!RSP]
      /\ \A r \in Saved : back[r] = regs[r]
  BY <1>1, PoppedFacts
<1> HIDE DEF back
<1>3. back = regs
  BY <1>2 DEF Saved
<1> QED
  BY <1>3 DEF back

(* What is popped after the pushes is what was there before. *)
LEMMA PoppedPushed ==
  ASSUME NEW regs \in [P!Registers -> P!Value]
  PROVE  Popped(Pushed(regs), regs[P!RSP]) = regs
BY PushedFacts, PoppedAre

LEMMA MembersDistinct ==
  \A q, r \in Saved : Member(q) \in Slots /\ (q # r => Member(q) # Member(r))
BY MemberFacts

-----------------------------------------------------------------------------
(* What GuestProcessor makes of a state, component by component. *)

LEMMA ValueFacts ==
  /\ {} \in P!Word /\ P!Extended({}) \in P!Value
  /\ \A w \in P!Word : P!Extended(w) \in P!Value
  /\ \A v \in P!Value : P!Cr3Stored(v) \in P!Value
  /\ \A leaf, w \in P!Word : P!Hidden(leaf, w) \in P!Word
<1>1. {} \in P!Word
  BY DEF P!Word
<1>2. \A w \in P!Word : P!Extended(w) \in P!Value
  BY <1>1 DEF P!Extended, P!Value
<1>3. ASSUME NEW v \in P!Value PROVE P!Cr3Stored(v) \in P!Value
  BY DEF P!Cr3Stored, P!Value, P!Word
<1>4. ASSUME NEW leaf \in P!Word, NEW w \in P!Word
      PROVE  P!Hidden(leaf, w) \in P!Word
  BY DEF P!Word, P!Hidden
<1> QED
  BY <1>1, <1>2, <1>3, <1>4

LEMMA StateFacts ==
  ASSUME NEW s \in P!States
  PROVE  /\ s.gp \in [P!Registers -> P!Value]
         /\ s.cr \in [P!ControlRegisters -> P!Value]
         /\ s.msr \in [Msrs -> P!Value]
         /\ s.rip \in Nat /\ s.faulted \in BOOLEAN /\ s.lost \in SUBSET P!Groups
         /\ s = [gp |-> s.gp, cr |-> s.cr, msr |-> s.msr, rip |-> s.rip,
                 faulted |-> s.faulted, lost |-> s.lost]
BY DEF P!States

(* The state with which the driver hands the processor back to the system.  *)
Start == P!Taken(InitialState)

(* Each word of a forced register has the bits it must and may have.        *)
LEMMA ForcedFacts ==
  ASSUME NEW r \in {0, 4}, NEW v \in P!Value
  PROVE  /\ P!Forced(r, v) \in P!Value
         /\ \A w \in {"high", "low"} :
              /\ CrFixed[r][w].allowed_0 \subseteq P!Forced(r, v)[w]
              /\ P!Forced(r, v)[w] \subseteq CrFixed[r][w].allowed_1
<1> DEFINE f(w) == (v[w] \cup CrFixed[r][w].allowed_0) \cap CrFixed[r][w].allowed_1
<1>1. \A w \in {"high", "low"} :
        /\ CrFixed[r][w].allowed_0 \in P!Word
        /\ CrFixed[r][w].allowed_0 \subseteq CrFixed[r][w].allowed_1
  BY CrAssumption
<1>2. \A w \in {"high", "low"} : v[w] \in P!Word
  BY DEF P!Value
<1>3. \A w \in {"high", "low"} :
        /\ f(w) \in P!Word
        /\ CrFixed[r][w].allowed_0 \subseteq f(w)
        /\ f(w) \subseteq CrFixed[r][w].allowed_1
  BY <1>1, <1>2 DEF P!Word
<1>4. P!Forced(r, v) = [w \in {"high", "low"} |-> f(w)]
  BY DEF P!Forced
<1> HIDE DEF f
<1>5. P!Forced(r, v) \in P!Value
  BY <1>3, <1>4 DEF P!Value
<1> QED
  BY <1>3, <1>4, <1>5

(* What the driver finds and what it makes of it.                           *)
LEMMA StartFacts ==
  /\ Start.gp = InitialState.gp /\ Start.rip = InitialState.rip
  /\ Start.faulted = InitialState.faulted /\ Start.lost = InitialState.lost
  /\ Start.cr = EnableVmx(AdjustControlRegisters(InitialState.cr, CrFixed))
  /\ Start.msr = [InitialState.msr EXCEPT ![FeatureControlMsr] = EnableFeature(@)]
  /\ Start \in P!States
  /\ CrAccepted(CrFixed, Start.cr)
  /\ \A m \in BaseMsrs : Start.msr[m] = InitialState.msr[m]
  /\ {lock, vmxon_outside_smx} \subseteq Start.msr[FeatureControlMsr].low \/ LockedOut
<1> DEFINE cr0 == InitialState.cr
           msr0 == InitialState.msr
           fc == msr0[FeatureControlMsr]
           four == P!Forced(4, cr0[4])
<1>1. /\ InitialState \in P!States
      /\ cr0 \in [P!ControlRegisters -> P!Value] /\ msr0 \in [Msrs -> P!Value]
  BY StateAssumption, StateFacts
<1>2. /\ FeatureControlMsr \in Msrs /\ fc \in P!Value
      /\ FeatureControlMsr \notin BaseMsrs
  BY <1>1, MsrAssumption
<1>3. /\ 0 \in P!ControlRegisters /\ 4 \in P!ControlRegisters
      /\ cr0[0] \in P!Value /\ cr0[4] \in P!Value
  BY <1>1 DEF P!ControlRegisters
<1>4. /\ P!Forced(0, cr0[0]) \in P!Value /\ four \in P!Value
      /\ \A w \in {"high", "low"} :
           /\ CrFixed[0][w].allowed_0 \subseteq P!Forced(0, cr0[0])[w]
           /\ P!Forced(0, cr0[0])[w] \subseteq CrFixed[0][w].allowed_1
           /\ CrFixed[4][w].allowed_0 \subseteq four[w]
           /\ four[w] \subseteq CrFixed[4][w].allowed_1
  BY <1>3, ForcedFacts
<1> DEFINE with == P!With(four, {P!VMXE})
           locked == P!Locked(fc)
<1>5. /\ Start.gp = InitialState.gp /\ Start.rip = InitialState.rip
      /\ Start.faulted = InitialState.faulted /\ Start.lost = InitialState.lost
      /\ Start.cr = [[cr0 EXCEPT ![0] = P!Forced(0, @)] EXCEPT ![4] = with]
      /\ Start.msr = [msr0 EXCEPT ![FeatureControlMsr] = locked]
      /\ Start = [gp |-> InitialState.gp, cr |-> Start.cr, msr |-> Start.msr,
                  rip |-> InitialState.rip, faulted |-> InitialState.faulted,
                  lost |-> InitialState.lost]
  <2> DEFINE crs == P!TakenCr(cr0)
             msrs == P!TakenMsr(msr0)
  <2>1. Start = [InitialState EXCEPT !.cr = crs, !.msr = msrs]
    BY <1>1, StateFacts DEF Start, P!Taken
  <2>2. crs = [[cr0 EXCEPT ![0] = P!Forced(0, @)] EXCEPT ![4] = with]
    BY <1>1, <1>3 DEF P!TakenCr
  <2>3. msrs = [msr0 EXCEPT ![FeatureControlMsr] = locked]
    BY <1>1, <1>2 DEF P!TakenMsr
  <2> HIDE DEF crs, msrs, with, locked
  <2>4. Start = [gp |-> InitialState.gp, cr |-> crs, msr |-> msrs,
                 rip |-> InitialState.rip,
                 faulted |-> InitialState.faulted,
                 lost |-> InitialState.lost]
    BY <1>1, <2>1 DEF P!States
  <2> QED
    BY <2>2, <2>3, <2>4
<1>6. with \in P!Value /\ with.high = four.high /\ with.low = four.low \cup {13}
  BY <1>4, WordAssumption DEF P!Value, P!Word, P!VMXE, P!With
<1>7. /\ locked \in P!Value
      /\ locked.low = IF 0 \in fc.low THEN fc.low ELSE fc.low \cup {0, 2}
      /\ locked = EnableFeature(fc)
  BY <1>2, WordAssumption DEF P!Value, P!Word, P!Locked, P!LOCK, P!With,
       P!VMXON_OUTSIDE_SMX, EnableFeature, lock, vmxon_outside_smx
<1>8. Start.cr = EnableVmx(AdjustControlRegisters(cr0, CrFixed))
  <2>1. /\ P!Forced(0, cr0[0]) = AdjustControlRegister(cr0[0], CrFixed[0])
        /\ four = AdjustControlRegister(cr0[4], CrFixed[4])
    BY DEF P!Forced, AdjustControlRegister, AdjustControls
  <2> HIDE DEF four
  <2>2. AdjustControlRegisters(cr0, CrFixed) =
          [[cr0 EXCEPT ![0] = P!Forced(0, @)] EXCEPT ![4] = four]
    BY <1>1, <1>3, <2>1 DEF AdjustControlRegisters
  <2> QED
    BY <1>1, <1>3, <1>5, <2>2 DEF EnableVmx, vmx_enable, P!VMXE, P!With
<1> HIDE DEF with, locked, four
<1>9. /\ Start.cr[0] = P!Forced(0, cr0[0]) /\ Start.cr[4] = with
      /\ Start.cr \in [P!ControlRegisters -> P!Value]
  BY <1>1, <1>3, <1>4, <1>5, <1>6
<1>10. /\ Start.msr[FeatureControlMsr] = locked
       /\ Start.msr \in [Msrs -> P!Value]
       /\ \A m \in BaseMsrs : Start.msr[m] = msr0[m]
  BY <1>1, <1>2, <1>5, <1>7, MsrAssumption
<1>11. Start \in P!States
  BY <1>1, <1>5, <1>9, <1>10 DEF P!States
<1>12. CrAccepted(CrFixed, Start.cr)
  <2>1. vmx_enable \in CrFixed[4]["low"].allowed_1
    BY CrAssumption
  <2> QED
    BY <1>4, <1>6, <1>9, <2>1 DEF CrAccepted, vmx_enable
<1>13. Start.msr = [msr0 EXCEPT ![FeatureControlMsr] = EnableFeature(@)]
  BY <1>1, <1>2, <1>5, <1>7
<1>14. {lock, vmxon_outside_smx} \subseteq Start.msr[FeatureControlMsr].low
         \/ LockedOut
  BY <1>7, <1>10 DEF LockedOut, lock, vmxon_outside_smx
<1> QED
  BY <1>5, <1>8, <1>10, <1>11, <1>12, <1>13, <1>14

LEMMA PassedOver ==
  ASSUME NEW s \in P!States, NEW i \in Instructions
  PROVE  /\ [s EXCEPT !.rip = @ + i.len]
               = [gp |-> s.gp, cr |-> s.cr, msr |-> s.msr,
                  rip |-> s.rip + i.len,
                  faulted |-> s.faulted, lost |-> s.lost]
         /\ [s EXCEPT !.rip = @ + i.len] \in P!States
BY InstructionAssumption DEF P!States

LEMMA CompletedOfCpuid ==
  ASSUME NEW s \in P!States, NEW i \in Instructions, i.op = "cpuid",
         NEW r, r = CpuidResult[<<s.gp[P!RAX].low, s.gp[P!RCX].low>>]
  PROVE  /\ P!Completed(s, i) =
               [gp |-> [s.gp EXCEPT
                         ![P!RAX] = P!Extended(r.eax),
                         ![P!RBX] = P!Extended(r.ebx),
                         ![P!RCX] = P!Extended(P!Hidden(s.gp[P!RAX].low, r.ecx)),
                         ![P!RDX] = P!Extended(r.edx)],
                cr |-> s.cr, msr |-> s.msr,
                rip |-> s.rip + i.len, faulted |-> s.faulted, lost |-> s.lost]
         /\ P!Extended(r.eax) \in P!Value /\ P!Extended(r.ebx) \in P!Value
         /\ P!Extended(P!Hidden(s.gp[P!RAX].low, r.ecx)) \in P!Value
         /\ P!Extended(r.edx) \in P!Value
<1>1. s.gp[P!RAX] \in P!Value /\ s.gp[P!RCX] \in P!Value
  BY StateFacts DEF P!Registers, P!RAX, P!RCX
<1>2. s.gp[P!RAX].low \in P!Word /\ s.gp[P!RCX].low \in P!Word
  BY <1>1 DEF P!Value
<1>3. /\ r.eax \in P!Word /\ r.ebx \in P!Word /\ r.ecx \in P!Word
      /\ r.edx \in P!Word
  BY <1>2, CpuidAssumption
<1> QED
  BY <1>2, <1>3, ValueFacts, StateFacts DEF P!Completed, P!States

LEMMA CompletedOfRdmsr ==
  ASSUME NEW s \in P!States, NEW i \in Instructions, i.op = "rdmsr",
         P!Proper(s, i), NEW v, v = s.msr[s.gp[P!RCX].low]
  PROVE  /\ P!Completed(s, i) =
               [gp |-> [s.gp EXCEPT ![P!RAX] = P!Extended(v.low),
                                    ![P!RDX] = P!Extended(v.high)],
                cr |-> s.cr, msr |-> s.msr,
                rip |-> s.rip + i.len, faulted |-> s.faulted, lost |-> s.lost]
         /\ P!Extended(v.low) \in P!Value /\ P!Extended(v.high) \in P!Value
<1>1. v \in P!Value
  BY StateFacts DEF P!Proper
<1>2. v.low \in P!Word /\ v.high \in P!Word
  BY <1>1 DEF P!Value
<1> QED
  BY <1>2, ValueFacts, StateFacts DEF P!Completed, P!States

LEMMA CompletedOfWrmsr ==
  ASSUME NEW s \in P!States, NEW i \in Instructions, i.op = "wrmsr",
         P!Proper(s, i)
  PROVE  /\ s.gp[P!RCX].low \in Msrs
         /\ [high |-> s.gp[P!RDX].low, low |-> s.gp[P!RAX].low] \in P!Value
         /\ P!Completed(s, i) =
               [gp |-> s.gp, cr |-> s.cr,
                msr |-> [s.msr EXCEPT ![s.gp[P!RCX].low] =
                           [high |-> s.gp[P!RDX].low, low |-> s.gp[P!RAX].low]],
                rip |-> s.rip + i.len, faulted |-> s.faulted, lost |-> s.lost]
<1>1. s.gp[P!RAX] \in P!Value /\ s.gp[P!RDX] \in P!Value
  BY StateFacts DEF P!Registers, P!RAX, P!RDX
<1>2. s.gp[P!RCX].low \in Msrs
  BY DEF P!Proper
<1>3. [high |-> s.gp[P!RDX].low, low |-> s.gp[P!RAX].low] \in P!Value
  BY <1>1 DEF P!Value
<1> QED
  BY <1>2, <1>3, StateFacts DEF P!Completed, P!States

LEMMA CompletedOfMovToCr ==
  ASSUME NEW s \in P!States, NEW i \in Instructions, i.op = "mov_to_cr"
  PROVE  /\ P!Stored(i.cr, s.gp[i.reg]) \in P!Value
         /\ P!Completed(s, i) =
               [gp |-> s.gp,
                cr |-> [s.cr EXCEPT ![i.cr] = P!Stored(i.cr, s.gp[i.reg])],
                msr |-> s.msr, rip |-> s.rip + i.len,
                               faulted |-> s.faulted, lost |-> s.lost]
<1>1. s.gp[i.reg] \in P!Value
  BY StateFacts, InstructionAssumption
<1>2. P!Stored(i.cr, s.gp[i.reg]) \in P!Value
  BY <1>1, ValueFacts DEF P!Stored
<1> QED
  BY <1>2, StateFacts DEF P!Completed, P!States

LEMMA CompletedOfMovFromCr ==
  ASSUME NEW s \in P!States, NEW i \in Instructions, i.op = "mov_from_cr"
  PROVE  /\ s.cr[i.cr] \in P!Value
         /\ P!Completed(s, i) =
               [gp |-> [s.gp EXCEPT ![i.reg] = s.cr[i.cr]], cr |-> s.cr,
                msr |-> s.msr, rip |-> s.rip + i.len,
                               faulted |-> s.faulted, lost |-> s.lost]
<1>1. s.cr[i.cr] \in P!Value
  BY StateFacts, InstructionAssumption
<1> QED
  BY <1>1, StateFacts DEF P!Completed, P!States

LEMMA CompletedOfVmxoff ==
  ASSUME NEW s \in P!States, NEW i \in Instructions, i.op = "vmxoff"
  PROVE  P!Completed(s, i) =
           [gp |-> s.gp, cr |-> Start.cr,
            msr |-> [m \in Msrs |-> IF m \in BaseMsrs THEN InitialState.msr[m]
                                   ELSE s.msr[m]],
            rip |-> s.rip + i.len, faulted |-> s.faulted,
            lost |-> s.lost \cup (P!Groups \ {"vector"})]
BY StateFacts DEF P!Completed, P!States, Start

LEMMA CompletedTyped ==
  ASSUME NEW s \in P!States, NEW i \in Instructions, P!Proper(s, i)
  PROVE  P!Completed(s, i) \in P!States
<1>1. i.len \in Nat /\ s.rip + i.len \in Nat
  BY StateFacts, InstructionAssumption
<1>2. CASE i.op = "cpuid"
  <2> DEFINE t == P!Completed(s, i)
  <2> DEFINE r == CpuidResult[<<s.gp[P!RAX].low, s.gp[P!RCX].low>>]
             a == P!Extended(r.eax)
             b == P!Extended(r.ebx)
             c == P!Extended(P!Hidden(s.gp[P!RAX].low, r.ecx))
             d == P!Extended(r.edx)
  <2>1. /\ t = [gp |-> [s.gp EXCEPT ![P!RAX] = a, ![P!RBX] = b, ![P!RCX] = c,
                                    ![P!RDX] = d],
                cr |-> s.cr, msr |-> s.msr, rip |-> s.rip + i.len,
                faulted |-> s.faulted, lost |-> s.lost]
        /\ a \in P!Value /\ b \in P!Value /\ c \in P!Value /\ d \in P!Value
    BY <1>2, CompletedOfCpuid
  <2> HIDE DEF t, a, b, c, d
  <2>2. t.gp \in [P!Registers -> P!Value]
    BY <2>1, StateFacts
  <2>3. t \in P!States
    BY <1>1, <2>1, <2>2, StateFacts DEF P!States
  <2> QED
    BY <2>3 DEF t
<1>3. CASE i.op = "rdmsr"
  BY <1>1, <1>3, CompletedOfRdmsr, StateFacts DEF P!States
<1>4. CASE i.op = "wrmsr"
  <2>1. [s.msr EXCEPT ![s.gp[P!RCX].low] =
           [high |-> s.gp[P!RDX].low, low |-> s.gp[P!RAX].low]]
          \in [Msrs -> P!Value]
    BY <1>4, CompletedOfWrmsr, StateFacts
  <2>2. /\ s.gp \in [P!Registers -> P!Value] /\ s.faulted \in BOOLEAN
        /\ s.cr \in [P!ControlRegisters -> P!Value]
    BY StateFacts
  <2> QED
    BY <1>1, <1>4, <2>1, <2>2, CompletedOfWrmsr DEF P!States
<1>5. CASE i.op = "mov_to_cr"
  BY <1>1, <1>5, CompletedOfMovToCr, StateFacts DEF P!States
<1>6. CASE i.op = "mov_from_cr"
  BY <1>1, <1>6, CompletedOfMovFromCr, StateFacts DEF P!States
<1>7. CASE i.op = "vmxoff"
  <2>1. Start.cr \in [P!ControlRegisters -> P!Value]
        /\ InitialState.msr \in [Msrs -> P!Value]
    BY StartFacts, StateAssumption, StateFacts
  <2> QED
    BY <1>1, <1>7, <2>1, CompletedOfVmxoff, StateFacts DEF P!States
<1>8. CASE i.op = "load"
  BY <1>1, <1>8, InstructionAssumption, StateFacts DEF P!Completed, P!States
<1>9. CASE i.op \in {"access", "vmx_instruction"}
  BY <1>1, <1>9, StateFacts DEF P!Completed, P!States
<1>10. CASE i.op = "feature"
  BY <1>1, <1>10, StateFacts DEF P!Completed, P!States
<1> QED
  BY <1>2, <1>3, <1>4, <1>5, <1>6, <1>7, <1>8, <1>9, <1>10, InstructionAssumption

LEMMA EffectTyped ==
  ASSUME NEW s \in P!States, NEW i \in Instructions, P!Proper(s, i)
  PROVE  P!Effect(s, i) \in P!States
<1>1. [s EXCEPT !.faulted = TRUE] \in P!States
  BY DEF P!States
<1> QED
  BY <1>1, CompletedTyped DEF P!Effect

-----------------------------------------------------------------------------
(* The launch. *)

(* The VMCS is what set-up has written, and the processor takes it.         *)
Launched ==
  /\ capabilities \in Capabilities
  /\ at \notin {"setup", "vmxon_fault"} =>
       vmcs = SetupVmcsFields(capabilities, SegmentState, Start,
                              InitialState.gp[P!RSP])
  /\ LaunchAccepted

LEMMA ControlsFacts ==
  ASSUME NEW c \in Capabilities
  PROVE  /\ \A word \in Words :
              /\ RulingMsr(c, word).allowed_0 \subseteq Controls(c)[word]
              /\ Controls(c)[word] \subseteq RulingMsr(c, word).allowed_1
         /\ "active_secondary_controls" \in Controls(c)["primary"]
         /\ "use_msr_bitmaps" \in Controls(c)["primary"]
         /\ "host_address_space_size" \in Controls(c)["exit"]
         /\ "ia32e_mode_guest" \in Controls(c)["entry"]
         /\ \A f \in Features : FeatureControl(f) \in Controls(c)["secondary"]
<1>1. ASSUME NEW word \in Words
      PROVE  /\ RulingMsr(c, word).allowed_0 \subseteq Controls(c)[word]
             /\ Controls(c)[word] \subseteq RulingMsr(c, word).allowed_1
             /\ \A bit \in Wanted(word) :
                  bit \in RulingMsr(c, word).allowed_1 => bit \in Controls(c)[word]
  <2> DEFINE m == RulingMsr(c, word)
             w == Wanted(word)
  <2>1. Controls(c)[word] = (w \cup m.allowed_0) \cap m.allowed_1
    BY DEF Controls, AdjustControls
  <2>2. m.allowed_0 \subseteq m.allowed_1
    BY CapabilityAssumption
  <2> HIDE DEF m, w
  <2>3. /\ m.allowed_0 \subseteq Controls(c)[word]
        /\ Controls(c)[word] \subseteq m.allowed_1
        /\ \A bit \in w : bit \in m.allowed_1 => bit \in Controls(c)[word]
    BY <2>1, <2>2
  <2> QED
    BY <2>3 DEF m, w
<1>2. /\ "primary" \in Words /\ "exit" \in Words /\ "entry" \in Words
      /\ "secondary" \in Words
  BY DEF Words
<1>3. /\ "active_secondary_controls" \in Wanted("primary")
      /\ "use_msr_bitmaps" \in Wanted("primary")
      /\ "host_address_space_size" \in Wanted("exit")
      /\ "ia32e_mode_guest" \in Wanted("entry")
  BY DEF Wanted
<1>4. ASSUME NEW f \in Features
      PROVE  FeatureControl(f) \in Wanted("secondary")
  BY FeatureAssumption DEF Wanted, FeatureControl
<1>5. \A f \in Features :
        FeatureControl(f) \in RulingMsr(c, "secondary").allowed_1
  BY CapabilityAssumption
<1>6. /\ "active_secondary_controls" \in RulingMsr(c, "primary").allowed_1
      /\ "use_msr_bitmaps" \in RulingMsr(c, "primary").allowed_1
      /\ "host_address_space_size" \in RulingMsr(c, "exit").allowed_1
      /\ "ia32e_mode_guest" \in RulingMsr(c, "entry").allowed_1
  BY CapabilityAssumption
<1> QED
  BY <1>1, <1>2, <1>3, <1>4, <1>5, <1>6

LEMMA SetupFacts ==
  ASSUME NEW c \in Capabilities, NEW rsp, NEW v,
         v = SetupVmcsFields(c, SegmentState, Start, rsp)
  PROVE  /\ EntryAccepted(c, CrFixed, v)
         /\ v.controls = Controls(c)
         /\ v.host.cr = Start.cr /\ v.host.msr = Start.msr
         /\ v.guest.rsp = rsp
         /\ Active(v)
<1>1. /\ v.controls = Controls(c) /\ v.guest.cr = Start.cr
      /\ v.host.cr = Start.cr /\ v.host.msr = Start.msr
      /\ v.guest.rsp = rsp /\ v.link_pointer = "none"
      /\ v.eptp = [memory_type |-> "WB", page_walk_length |-> 3]
      /\ v.host.selector = [g \in Segments \ {"ldtr"} |->
                              HostSelector(SegmentState.selector[g])]
      /\ v.guest.selector = [g \in Segments |-> SegmentState.selector[g]]
      /\ v.guest.rights = [g \in Segments |->
            AccessRights(SegmentState.selector[g], SegmentState.lar[g])]
  BY DEF SetupVmcsFields
<1>2. ControlsAccepted(c, v)
  BY <1>1, ControlsFacts DEF ControlsAccepted, Words
<1>3. HostAccepted(CrFixed, v)
  <2>1. /\ DOMAIN v.host.selector = Segments \ {"ldtr"}
        /\ \A g \in Segments \ {"ldtr"} :
             /\ v.host.selector[g].table = 0 /\ v.host.selector[g].rpl = 0
             /\ v.host.selector[g].index = SegmentState.selector[g].index % 32
    BY <1>1 DEF HostSelector
  <2>2. "cs" \in Segments \ {"ldtr"} /\ "tr" \in Segments \ {"ldtr"}
    BY DEF Segments
  <2>3. \A k \in 1 .. 31 : k % 32 # 0
    OBVIOUS
  <2> QED
    BY <1>1, <2>1, <2>2, <2>3, ControlsFacts, StartFacts, SegmentAssumption
       DEF HostAccepted
<1>4. GuestAccepted(CrFixed, v)
  <2>1. /\ "cs" \in Segments /\ "ss" \in Segments /\ "tr" \in Segments
        /\ "ldtr" \in Segments
    BY DEF Segments
  <2>2. \A g \in {"cs", "tr"} :
          AccessRights(SegmentState.selector[g], SegmentState.lar[g]).unusable
            = FALSE
    <3>1. \A g \in {"cs", "tr"} : SegmentState.selector[g].index # 0
      BY SegmentAssumption
    <3> QED
      BY <3>1 DEF AccessRights
  <2> QED
    BY <1>1, <2>1, <2>2, ControlsFacts, StartFacts, SegmentAssumption
       DEF GuestAccepted
<1> QED
  BY <1>1, <1>2, <1>3, <1>4, ControlsFacts DEF EntryAccepted, Active

-----------------------------------------------------------------------------
(* The invariant. *)

(* The fields in which an exit leaves the state s.                          *)
Fields(s) == [rsp |-> s.gp[P!RSP], rip |-> s.rip, cr |-> s.cr,
              base |-> [m \in BaseMsrs |-> s.msr[m]]]
GuestFields == [rsp : P!Value, rip : Nat, cr : [P!ControlRegisters -> P!Value],
                base : [BaseMsrs -> P!Value]]

Typed ==
  /\ at \in {"setup", "vmxon_fault", "launch", "launch_failed", "entrypoint",
             "guest", "exit", "handler", "stopped", "handled", "resume",
             "vmxoff_handler", "off"}
  /\ gp \in [P!Registers -> P!Value]
  /\ cr \in [P!ControlRegisters -> P!Value]
  /\ msr \in [Msrs -> P!Value]
  /\ rip \in Nat /\ faulted \in BOOLEAN /\ lost \in SUBSET P!Groups
  /\ before \in P!States
  /\ insn \in Instructions \cup {None}
  /\ at \in {"launch", "entrypoint", "handler", "handled", "resume",
             "vmxoff_handler"} => stack \in [Slots -> P!Value]
  /\ guest # None => guest \in GuestFields
  /\ at \in InHost => guest \in GuestFields
  /\ increment_rip \in BOOLEAN /\ execute_vmxoff \in BOOLEAN
  /\ stepping \in BOOLEAN

(* Until the guest goes on behind vmm_setup_stub, it is where it was found. *)
Entering ==
  /\ at \in {"setup", "launch", "entrypoint"} =>
       /\ before = InitialState /\ insn = None
       /\ rip = InitialState.rip
       /\ faulted = InitialState.faulted /\ lost = InitialState.lost
  /\ at = "setup" =>
       /\ gp = InitialState.gp /\ cr = InitialState.cr /\ msr = InitialState.msr
  /\ at \in {"launch", "entrypoint"} =>
       /\ stack = Pushed(InitialState.gp)
       /\ cr = Start.cr /\ msr = Start.msr

(* What may be lost at an exit, and to the driver's own code.               *)
LostSince(now, then) ==
  \E groups \in SUBSET {"debug", "vector"} : now = then \cup groups

(* While the driver runs, what has no field in the VMCS is in the processor. *)
Host ==
  at \in InHost =>
    /\ cr = Start.cr /\ faulted = before.faulted
    /\ LostSince(lost, before.lost)
    /\ \A m \in BaseMsrs : msr[m] = InitialState.msr[m]

Ready ==
  insn # None =>
    /\ at = "guest" => P!Proper(State, insn)
    /\ at \in InHost => P!Proper(before, insn)

(* The reason of an exit fits the instruction and the state it was left in. *)
Explains(reason, i, s) ==
  \/ reason.reason = "ept_violation"
  \/ reason.reason = "unknown" /\ i.op = "vmx_instruction"
  \/ reason.reason \in {"cpuid", "vmxoff"} /\ i.op = reason.reason
  \/ /\ \/ reason.reason = "msr_read" /\ i.op = "rdmsr"
        \/ reason.reason = "msr_write" /\ i.op = "wrmsr"
     /\ s.gp[P!RCX].low \notin BitmapRange
  \/ /\ reason.reason = "cr_access" /\ reason.cr = 3 /\ i.cr = 3
     /\ reason.reg = i.reg
     /\ \/ reason.access = "MOV_TO_CR" /\ i.op = "mov_to_cr"
        \/ reason.access = "MOV_FROM_CR" /\ i.op = "mov_from_cr"

(* Before the handler has run, nothing of the guest is lost.                *)
Left ==
  at \in {"exit", "handler"} =>
    /\ guest = Fields(before)
    /\ \A m \in Msrs \ BaseMsrs : msr[m] = before.msr[m]
    /\ \/ exit.reason = "monitor_trap_flag"
       \/ insn \in Instructions /\ Explains(exit, insn, before)
    /\ at = "exit" => gp = before.gp
    /\ at = "handler" => /\ stack = Pushed(before.gp)
                         /\ increment_rip = TRUE /\ execute_vmxoff = FALSE

(* What the guest would find if it were resumed at r, or VMX turned off,    *)
(* were nothing lost on the way.                                            *)
Resumed(r) ==
  [gp |-> Popped(stack, guest.rsp), cr |-> guest.cr,
   msr |-> [m \in Msrs |-> IF m \in BaseMsrs THEN guest.base[m] ELSE msr[m]],
   rip |-> r, faulted |-> faulted, lost |-> before.lost]
TurnedOff(r) ==
  [gp |-> Popped(stack, guest.rsp), cr |-> cr, msr |-> msr, rip |-> r,
   faulted |-> faulted, lost |-> before.lost \cup (P!Groups \ {"vector"})]

(* The instruction that was left on has had its effect. *)
Emulated(s) ==
  /\ insn \in Instructions /\ P!Proper(before, insn)
  /\ s.rip = before.rip + insn.len
  /\ \/ s = P!Effect(before, insn)
     \/ P!Unsupported(insn) /\ s = [before EXCEPT !.rip = @ + insn.len]

Outcome ==
  /\ at = "handled" =>
       IF execute_vmxoff
         THEN increment_rip /\ Emulated(TurnedOff(guest.rip + insn.len))
         ELSE IF increment_rip THEN Emulated(Resumed(guest.rip + insn.len))
              ELSE Resumed(guest.rip) = before
  /\ at = "resume" => Resumed(guest.rip) = before \/ Emulated(Resumed(guest.rip))
  /\ at = "vmxoff_handler" => Emulated(TurnedOff(guest.rip))

ExitInv ==
  Launched /\ Typed /\ Entering /\ Host /\ Ready /\ Left /\ Outcome

LEMMA ExitInit == Init => ExitInv
<1> SUFFICES ASSUME Init PROVE ExitInv
  OBVIOUS
<1> USE DEF Init
<1>1. Typed
  BY StateAssumption, StateFacts DEF Typed, InHost
<1> QED
  BY <1>1 DEF ExitInv, Launched, LaunchAccepted, Entering, Host, Ready, Left,
              Outcome, InHost

-----------------------------------------------------------------------------
(* Each step keeps the invariant and, but for four, does not show. *)

(* The state the guest sees, as GuestProcessor is given it.                 *)
Seen == IF at \in {"guest", "off"}
          THEN [gp |-> gp, cr |-> cr, msr |-> msr, rip |-> rip,
                faulted |-> faulted, lost |-> lost]
          ELSE before

LEMMA StateTyped == ExitInv => State \in P!States
BY DEF ExitInv, Typed, State, P!States

LEMMA VmcsFacts ==
  ASSUME ExitInv, at \notin {"setup", "vmxon_fault"}
  PROVE  /\ EntryAccepted(capabilities, CrFixed, vmcs)
         /\ vmcs.host.cr = Start.cr /\ vmcs.host.msr = Start.msr
         /\ vmcs.guest.rsp = InitialState.gp[P!RSP]
         /\ "use_msr_bitmaps" \in vmcs.controls["primary"]
         /\ \A f \in Features : FeatureControl(f) \in Secondary
<1>1. /\ capabilities \in Capabilities
      /\ vmcs = SetupVmcsFields(capabilities, SegmentState, Start,
                                InitialState.gp[P!RSP])
  BY DEF ExitInv, Launched
<1>2. Active(vmcs) /\ vmcs.controls = Controls(capabilities)
  BY <1>1, SetupFacts
<1> QED
  BY <1>1, <1>2, SetupFacts, ControlsFacts DEF Secondary

(* processor_initialize_vmx makes of the registers what GuestProcessor says *)
(* it does, and VMXON faults only if it was locked out.                     *)
LEMMA SetupStubStep ==
  ASSUME ExitInv, SetupStub
  PROVE  ExitInv' /\ UNCHANGED Seen
<1>1. State = InitialState /\ gp = InitialState.gp /\ at = "setup"
  BY StateAssumption, StateFacts DEF ExitInv, Entering, SetupStub, State
<1>2. /\ cr = InitialState.cr /\ msr = InitialState.msr
      /\ rip = InitialState.rip
      /\ faulted = InitialState.faulted /\ lost = InitialState.lost
  BY <1>1 DEF ExitInv, Entering
<1>3. cr' = Start.cr /\ msr' = Start.msr
  BY <1>2, StartFacts DEF SetupStub
<1>4. /\ stack' = Pushed(gp) /\ stack' \in [Slots -> P!Value]
      /\ gp' \in [P!Registers -> P!Value]
  <2>1. gp[P!RSP] \in P!Value
    BY DEF ExitInv, Typed, P!RSP, P!Registers
  <2> QED
    BY <2>1, ValueFacts, PushedFacts DEF SetupStub, ExitInv, Typed, Clobbered
<1>5. \/ /\ at' = "launch"
         /\ vmcs' = SetupVmcsFields(capabilities, SegmentState,
                      [State EXCEPT !.cr = Start.cr, !.msr = Start.msr],
                      gp[P!RSP])
      \/ /\ at' = "vmxon_fault"
         /\ ~VmxonAccepted(CrFixed, Start.cr, Start.msr[FeatureControlMsr])
  BY <1>2, StartFacts DEF SetupStub
<1>6. [State EXCEPT !.cr = Start.cr, !.msr = Start.msr] = Start
  <2>1. Start = [gp |-> Start.gp, cr |-> Start.cr, msr |-> Start.msr,
                 rip |-> Start.rip, faulted |-> Start.faulted,
                 lost |-> Start.lost]
    BY StartFacts, StateFacts
  <2> QED
    BY <1>1, <1>2, <2>1, StartFacts DEF State
<1>7. Launched'
  <2>1. at' = "vmxon_fault" => LockedOut
    BY <1>5, StartFacts DEF VmxonAccepted
  <2>2. LaunchAccepted'
    BY <1>5, <2>1 DEF LaunchAccepted, LockedOut
  <2>3. capabilities' = capabilities
    BY DEF SetupStub
  <2>4. at' \notin {"setup", "vmxon_fault"} =>
          vmcs' = SetupVmcsFields(capabilities, SegmentState, Start,
                                  InitialState.gp[P!RSP])
    BY <1>1, <1>5, <1>6
  <2>5. capabilities' \in Capabilities
    BY <2>3 DEF ExitInv, Launched
  <2>6. at' \notin {"setup", "vmxon_fault"} =>
          vmcs' = SetupVmcsFields(capabilities', SegmentState, Start,
                                  InitialState.gp[P!RSP])
    BY <2>3, <2>4
  <2> QED
    BY <2>2, <2>5, <2>6 DEF Launched
<1>8. Typed'
  <2>1. /\ cr' \in [P!ControlRegisters -> P!Value]
        /\ msr' \in [Msrs -> P!Value]
    BY <1>3, StartFacts, StateFacts
  <2>2. UNCHANGED <<rip, faulted, lost, before, insn, guest, increment_rip,
                    execute_vmxoff, stepping>>
    BY DEF SetupStub, program, handler
  <2> QED
    BY <1>4, <1>5, <2>1, <2>2 DEF ExitInv, Typed, InHost
<1>9. Entering'
  BY <1>1, <1>2, <1>3, <1>4, <1>5 DEF ExitInv, Entering, SetupStub, program
<1>10. Host' /\ Ready' /\ Left' /\ Outcome' /\ UNCHANGED Seen
  BY <1>1, <1>5 DEF SetupStub, Host, Ready, Left, Outcome, InHost, Seen
<1> QED
  BY <1>7, <1>8, <1>9, <1>10 DEF ExitInv

LEMMA VmLaunchStep ==
  ASSUME ExitInv, VmLaunch
  PROVE  ExitInv' /\ UNCHANGED Seen
<1>1. at = "launch" /\ at' = "entrypoint"
  BY VmcsFacts DEF VmLaunch
<1>2. UNCHANGED <<capabilities, gp, cr, msr, rip, faulted, lost, insn, executed, stack,
                  vmcs, guest, exit, increment_rip, execute_vmxoff, stepping, before>>
  BY DEF VmLaunch, processor, program, handler
<1> QED
  BY <1>1, <1>2 DEF ExitInv, Launched, LaunchAccepted, Typed, Entering, Host,
                    Ready, Left, Outcome, InHost, Seen

LEMMA EntrypointStep ==
  ASSUME ExitInv, Entrypoint
  PROVE  ExitInv' /\ P!Next
<1>1. at = "entrypoint" /\ at' = "guest"
  BY DEF Entrypoint
<1>2. UNCHANGED <<capabilities, cr, msr, rip, faulted, lost, insn, executed,
                  vmcs, guest, exit, increment_rip, execute_vmxoff, stepping,
                  before>>
  BY DEF Entrypoint, program, handler
<1>3. gp' = InitialState.gp /\ gp' \in [P!Registers -> P!Value]
  <2>1. stack = Pushed(InitialState.gp)
    BY <1>1 DEF ExitInv, Entering
  <2> QED
    BY <1>1, <2>1, VmcsFacts, PoppedPushed, StateAssumption, StateFacts
       DEF Entrypoint
<1>4. Seen = InitialState /\ Seen' = Start
  BY <1>1, <1>2, <1>3, StartFacts, StateFacts DEF Seen, ExitInv, Entering
<1>5. P!Next
  BY <1>4 DEF P!Next, P!Take, Start, Seen
<1> QED
  BY <1>1, <1>2, <1>3, <1>5
     DEF ExitInv, Launched, LaunchAccepted, Typed, Entering, Host, Ready, Left,
         Outcome, InHost

LEMMA FetchStep ==
  ASSUME ExitInv, Fetch
  PROVE  ExitInv' /\ UNCHANGED Seen
<1>1. at = "guest" /\ at' = "guest"
  BY DEF Fetch
<1>2. UNCHANGED <<capabilities, gp, cr, msr, rip, faulted, lost, stack, vmcs, guest,
                  exit, increment_rip, execute_vmxoff, stepping, before>>
  BY DEF Fetch, processor, handler
<1>3. insn' \in Instructions /\ P!Proper(State, insn')
  BY DEF Fetch
<1>4. State' = State
  BY <1>2 DEF State
<1>5. Ready'
  BY <1>1, <1>3, <1>4 DEF Ready, InHost
<1> QED
  BY <1>1, <1>2, <1>3, <1>5
     DEF ExitInv, Launched, LaunchAccepted, Typed, Entering, Host, Left, Outcome,
         InHost, Seen

(* An exit from the state s. *)
LEMMA LeaveStep ==
  ASSUME ExitInv, at = "guest", NEW s \in P!States, NEW reason,
         Leave(s, reason),
         insn' \in Instructions \cup {None},
         insn' # None => P!Proper(s, insn'),
         \/ reason.reason = "monitor_trap_flag"
         \/ insn' \in Instructions /\ Explains(reason, insn', s)
  PROVE  ExitInv'
<1>1. /\ vmcs.host.cr = Start.cr /\ vmcs.host.msr = Start.msr
      /\ Start.cr \in [P!ControlRegisters -> P!Value]
      /\ Start.msr \in [Msrs -> P!Value]
  BY VmcsFacts, StartFacts, StateFacts
<1>2. /\ at' = "exit" /\ exit' = reason /\ before' = s /\ guest' = Fields(s)
      /\ gp' = s.gp /\ rip' = s.rip /\ cr' = Start.cr
      /\ msr' = [m \in Msrs |-> IF m \in BaseMsrs THEN Start.msr[m] ELSE s.msr[m]]
      /\ faulted' = s.faulted /\ LostSince(lost', s.lost)
      /\ UNCHANGED <<capabilities, executed, stack, vmcs, increment_rip,
                     execute_vmxoff, stepping>>
  BY <1>1 DEF Leave, handler, Fields, LostSince
<1>3. Fields(s) \in GuestFields
  BY StateFacts, MsrAssumption DEF Fields, GuestFields, P!RSP, P!Registers
<1>4. msr' \in [Msrs -> P!Value] /\ lost' \in SUBSET P!Groups
  BY <1>1, <1>2, StateFacts DEF LostSince, P!Groups
<1>5. Launched'
  BY <1>2 DEF ExitInv, Launched, LaunchAccepted
<1>6. Typed'
  BY <1>1, <1>2, <1>3, <1>4, StateFacts DEF ExitInv, Typed, InHost
<1>7. Entering' /\ Outcome'
  BY <1>2 DEF Entering, Outcome
<1>8. Host' /\ Ready'
  BY <1>1, <1>2, StartFacts, MsrAssumption DEF Host, LostSince, Ready, InHost
<1>9. Left'
  <2>1. \A m \in Msrs \ BaseMsrs : msr'[m] = before'.msr[m]
    BY <1>2
  <2>2. \/ exit'.reason = "monitor_trap_flag"
        \/ insn' \in Instructions /\ Explains(exit', insn', before')
    BY <1>2
  <2>3. guest' = Fields(before')
    BY <1>2
  <2> QED
    BY <1>2, <2>1, <2>2, <2>3 DEF Left, Fields, Explains
<1> QED
  BY <1>5, <1>6, <1>7, <1>8, <1>9 DEF ExitInv

LEMMA VmExitStep ==
  ASSUME ExitInv, VmExit
  PROVE  ExitInv' /\ UNCHANGED Seen
<1> DEFINE reason == ExitOf(insn)
<1>1. /\ at = "guest" /\ insn \in Instructions /\ reason # None
      /\ Leave(State, reason) /\ insn' = insn
  BY DEF VmExit, ExitInv, Typed
<1>2. State \in P!States /\ State.gp = gp
  BY StateTyped DEF State
<1>3. P!Proper(State, insn)
  BY <1>1 DEF ExitInv, Ready, VmExit
<1>4. "use_msr_bitmaps" \in vmcs.controls["primary"]
  BY <1>1, VmcsFacts
<1>5. before' = State
  BY <1>1 DEF Leave
<1>6. Explains(reason, insn, State)
  <2>1. CASE insn.op \in {"mov_to_cr", "mov_from_cr"}
    BY <1>1, <1>5, <2>1 DEF ExitOf, Explains, State
  <2>2. CASE insn.op \in {"rdmsr", "wrmsr"}
    BY <1>1, <1>2, <1>4, <1>5, <2>2 DEF ExitOf, Explains, State
  <2>3. CASE insn.op \in {"cpuid", "vmxoff", "vmx_instruction"}
    BY <1>1, <1>5, <2>3 DEF ExitOf, Explains, State
  <2>4. CASE insn.op \in {"load", "access", "feature"}
    BY <1>1, <1>5, <2>4 DEF ExitOf, Explains, State
  <2> QED
    BY <1>1, <2>1, <2>2, <2>3, <2>4, InstructionAssumption
<1> HIDE DEF reason
<1>7. ExitInv'
  BY <1>1, <1>2, <1>3, <1>6, LeaveStep
<1>8. UNCHANGED Seen
  BY <1>1, <1>5 DEF Seen, State, Leave
<1> QED
  BY <1>7, <1>8

LEMMA ExecuteStep ==
  ASSUME ExitInv, Execute
  PROVE  ExitInv' /\ P!Next
<1> DEFINE s == IF insn.op = "feature"
                  THEN IF insn.feature \in Enabled
                         THEN [State EXCEPT !.rip = @ + insn.len]
                         ELSE [State EXCEPT !.faulted = TRUE]
                  ELSE P!Effect(State, insn)
           mtf == [reason |-> "monitor_trap_flag", cr |-> None, access |-> None,
                   reg |-> None]
<1>1. /\ at = "guest" /\ insn \in Instructions /\ insn # None
      /\ insn' = None
      /\ IF stepping THEN Leave(s, mtf)
         ELSE /\ gp' = s.gp /\ cr' = s.cr /\ msr' = s.msr /\ rip' = s.rip
              /\ faulted' = s.faulted /\ lost' = s.lost
              /\ UNCHANGED <<capabilities, at, executed, stack, vmcs,
                             guest, exit, handler, stepping, before>>
  BY DEF Execute, ExitInv, Typed
<1>2. P!Proper(State, insn)
  BY <1>1 DEF ExitInv, Ready
<1>3. s = P!Effect(State, insn)
  <2>1. CASE insn.op = "feature"
    <3>1. insn.feature \in Enabled <=> insn.feature \in Features
      BY <1>1, VmcsFacts DEF Enabled
    <3> QED
      BY <2>1, <3>1 DEF P!Effect, P!Faults, P!Completed
  <2>2. CASE insn.op # "feature"
    BY <2>2
  <2> QED
    BY <2>1, <2>2
<1>4. State \in P!States /\ P!Effect(State, insn) \in P!States
  BY <1>1, <1>2, StateTyped, EffectTyped
<1> HIDE DEF s
<1>5. s \in P!States
  BY <1>3, <1>4
<1>6. ExitInv' /\ Seen' = s
  <2>1. CASE stepping
    <3>1. Leave(s, mtf) /\ mtf.reason = "monitor_trap_flag"
      BY <1>1, <2>1
    <3> HIDE DEF mtf
    <3>2. ExitInv'
      BY <1>1, <1>5, <3>1, LeaveStep
    <3>3. Seen' = s
      BY <3>1 DEF Leave, Seen
    <3> QED
      BY <3>2, <3>3
  <2>2. CASE ~stepping
    <3>1. /\ gp' = s.gp /\ cr' = s.cr /\ msr' = s.msr /\ rip' = s.rip
          /\ at' = "guest" /\ insn' = None
          /\ faulted' = s.faulted /\ lost' = s.lost
          /\ UNCHANGED <<capabilities, stack, vmcs, guest, exit, increment_rip,
                         execute_vmxoff, stepping, before>>
      BY <1>1, <2>2 DEF handler
    <3>2. Seen' = s
      BY <1>5, <3>1, StateFacts DEF Seen
    <3>3. Typed'
      BY <1>1, <1>5, <3>1, StateFacts DEF ExitInv, Typed, InHost
    <3>4. ExitInv'
      BY <1>1, <3>1, <3>3 DEF ExitInv, Launched, LaunchAccepted, Entering,
                              Host, Ready, Left, Outcome, InHost
    <3> QED
      BY <3>2, <3>4
  <2> QED
    BY <2>1, <2>2
<1>7. Seen = State
  BY <1>1 DEF Seen, State
<1>8. P!Proper(Seen, insn) /\ Seen' = P!Effect(Seen, insn)
  BY <1>2, <1>3, <1>6, <1>7
<1>9. Seen' = [Seen' EXCEPT !.lost = @ \cup {}]
  BY <1>5, <1>6, StateFacts
<1>10. P!Losing(P!Effect(Seen, insn))
  BY <1>8, <1>9 DEF P!Losing, Seen
<1>11. P!Execute(insn)
  BY <1>8, <1>10 DEF P!Execute, Seen
<1> QED
  BY <1>1, <1>6, <1>11 DEF P!Next

LEMMA SaveGpStep ==
  ASSUME ExitInv, SaveGp
  PROVE  ExitInv' /\ UNCHANGED Seen
<1>1. /\ at = "exit" /\ at' = "handler"
      /\ stack' = Pushed(gp) /\ gp' = Clobbered
      /\ increment_rip' = TRUE /\ execute_vmxoff' = FALSE
      /\ lost' \in {lost, lost \cup {"vector"}}
      /\ UNCHANGED <<capabilities, cr, msr, rip, faulted, insn, vmcs, guest,
                     exit, stepping, before>>
  BY DEF SaveGp, program
<1>2. /\ stack' \in [Slots -> P!Value] /\ gp' \in [P!Registers -> P!Value]
  BY <1>1, ValueFacts, PushedFacts DEF ExitInv, Typed, Clobbered
<1>3. stack' = Pushed(before.gp)
  BY <1>1 DEF ExitInv, Left
<1>4. Typed'
  <2>1. lost' \in SUBSET P!Groups
    BY <1>1 DEF ExitInv, Typed, P!Groups
  <2> QED
    BY <1>1, <1>2, <2>1 DEF ExitInv, Typed, InHost
<1>5. Left'
  <2>1. Explains(exit, insn, before)' <=> Explains(exit, insn, before)
    BY <1>1 DEF Explains
  <2>2. Fields(before)' = Fields(before)
    BY <1>1 DEF Fields
  <2>3. stack' = Pushed(before.gp)'
    BY <1>1, <1>3 DEF Pushed
  <2> QED
    BY <1>1, <2>1, <2>2, <2>3 DEF ExitInv, Left
<1>6. Host'
  <2>1. PICK groups \in SUBSET {"debug", "vector"} : lost = before.lost \cup groups
    BY <1>1 DEF ExitInv, Host, LostSince, InHost
  <2>2. \/ lost' = before.lost \cup groups
        \/ lost' = before.lost \cup (groups \cup {"vector"})
    BY <1>1, <2>1
  <2>3. LostSince(lost', before.lost)
    BY <2>2 DEF LostSince
  <2> QED
    BY <1>1, <2>3 DEF ExitInv, Host, LostSince, InHost
<1> QED
  BY <1>1, <1>4, <1>5, <1>6
     DEF ExitInv, Launched, LaunchAccepted, Entering, Ready, Outcome, InHost, Seen

-----------------------------------------------------------------------------
(* The handlers. *)

(* What a handler finds is the state the guest was left in.                 *)
LEMMA Found ==
  ASSUME ExitInv, at = "handler"
  PROVE  /\ before \in P!States
         /\ stack \in [Slots -> P!Value] /\ guest \in GuestFields
         /\ \A r \in Saved : stack[Member(r)] = before.gp[r]
         /\ Popped(stack, guest.rsp) = before.gp
         /\ guest.rsp = before.gp[P!RSP] /\ guest.rsp \in P!Value
         /\ guest.rip = before.rip
         /\ guest.cr = before.cr
         /\ [m \in Msrs |-> IF m \in BaseMsrs THEN guest.base[m] ELSE msr[m]]
              = before.msr
         /\ guest.base = [m \in BaseMsrs |-> before.msr[m]]
         /\ \A m \in Msrs \ BaseMsrs : msr[m] = before.msr[m]
         /\ msr \in [Msrs -> P!Value]
         /\ faulted = before.faulted /\ LostSince(lost, before.lost)
         /\ insn # None => P!Proper(before, insn)
         /\ increment_rip = TRUE /\ execute_vmxoff = FALSE
         /\ \/ exit.reason = "monitor_trap_flag"
            \/ insn \in Instructions /\ Explains(exit, insn, before)
<1>1. Typed /\ Host /\ Ready /\ Left
  BY DEF ExitInv
<1>2. before \in P!States /\ before.gp \in [P!Registers -> P!Value]
  BY <1>1, StateFacts DEF Typed
<1>3. stack = Pushed(before.gp) /\ guest = Fields(before)
  BY <1>1 DEF Left
<1>4. /\ guest.rsp = before.gp[P!RSP] /\ guest.rip = before.rip
      /\ guest.cr = before.cr /\ guest.base = [m \in BaseMsrs |-> before.msr[m]]
  BY <1>3 DEF Fields
<1>5. \A m \in Msrs \ BaseMsrs : msr[m] = before.msr[m]
  BY <1>1 DEF Left
<1>6. [m \in Msrs |-> IF m \in BaseMsrs THEN guest.base[m] ELSE msr[m]] = before.msr
  BY <1>2, <1>4, <1>5, StateFacts
<1>7. guest.rsp \in P!Value
  BY <1>2, <1>4 DEF P!RSP, P!Registers
<1>8. /\ Popped(stack, guest.rsp) = before.gp
      /\ \A r \in Saved : stack[Member(r)] = before.gp[r]
  BY <1>2, <1>3, <1>4, PoppedPushed, PushedFacts
<1>9. /\ stack \in [Slots -> P!Value] /\ guest \in GuestFields
      /\ msr \in [Msrs -> P!Value] /\ faulted = before.faulted
      /\ LostSince(lost, before.lost)
      /\ insn # None => P!Proper(before, insn)
      /\ increment_rip = TRUE /\ execute_vmxoff = FALSE
      /\ \/ exit.reason = "monitor_trap_flag"
         \/ insn \in Instructions /\ Explains(exit, insn, before)
  BY <1>1 DEF Typed, Host, Ready, Left, InHost
<1> QED
  BY <1>2, <1>4, <1>5, <1>6, <1>7, <1>8, <1>9

LEMMA HandledStep ==
  ASSUME ExitInv, at = "handler", HandledOrStopped,
         UNCHANGED <<capabilities, gp, cr, rip, faulted, lost, insn, vmcs, exit,
                     before>>,
         stack' \in [Slots -> P!Value], guest' \in GuestFields,
         msr' \in [Msrs -> P!Value], \A m \in BaseMsrs : msr'[m] = msr[m],
         increment_rip' \in BOOLEAN, execute_vmxoff' \in BOOLEAN,
         stepping' \in BOOLEAN, at' = "handled" => Outcome'
  PROVE  ExitInv' /\ UNCHANGED Seen
<1>1. at' \in {"handled", "stopped"}
  BY DEF HandledOrStopped
<1>2. Typed'
  BY <1>1 DEF ExitInv, Typed, InHost
<1>3. Outcome'
  BY <1>1 DEF Outcome
<1> QED
  BY <1>1, <1>2, <1>3
     DEF ExitInv, Launched, LaunchAccepted, Entering, Host, Ready, Left, InHost,
         Seen, LostSince

LEMMA CpuidStep ==
  ASSUME ExitInv, CpuidHandler
  PROVE  ExitInv' /\ UNCHANGED Seen
<1> DEFINE r == CpuidResult[<<before.gp[P!RAX].low, before.gp[P!RCX].low>>]
           a == P!Extended(r.eax)
           b == P!Extended(r.ebx)
           c == P!Extended(P!Hidden(before.gp[P!RAX].low, r.ecx))
           d == P!Extended(r.edx)
           s1 == [stack EXCEPT ![Member(P!RAX)] = a]
           s2 == [s1 EXCEPT ![Member(P!RBX)] = b]
           s3 == [s2 EXCEPT ![Member(P!RCX)] = c]
           s4 == [s3 EXCEPT ![Member(P!RDX)] = d]
<1>1. /\ at = "handler" /\ exit.reason = "cpuid" /\ at' = "handled"
      /\ UNCHANGED <<capabilities, gp, cr, rip, faulted, lost, insn, vmcs, exit,
                     before, msr, guest, execute_vmxoff, stepping>>
      /\ increment_rip' = TRUE
  BY DEF CpuidHandler, Handling, Handled, unhandled, program
<1>2. insn \in Instructions /\ insn.op = "cpuid"
  BY <1>1, Found DEF Explains
<1>3. /\ P!RAX \in Saved /\ P!RBX \in Saved /\ P!RCX \in Saved /\ P!RDX \in Saved
  BY DEF Saved, P!Registers, P!RAX, P!RBX, P!RCX, P!RDX, P!RSP
<1>4. stack' = s4
  <2>1. /\ stack[Member(P!RAX)] = before.gp[P!RAX]
        /\ stack[Member(P!RCX)] = before.gp[P!RCX]
    BY <1>1, <1>3, Found
  <2> QED
    BY <2>1 DEF CpuidHandler, P!Hidden, P!FeatureInfo
<1>5. /\ P!Effect(before, insn) =
           [gp |-> [before.gp EXCEPT ![P!RAX] = a, ![P!RBX] = b, ![P!RCX] = c,
                                     ![P!RDX] = d],
            cr |-> before.cr, msr |-> before.msr,
            rip |-> before.rip + insn.len,
            faulted |-> before.faulted, lost |-> before.lost]
      /\ a \in P!Value /\ b \in P!Value /\ c \in P!Value /\ d \in P!Value
  BY <1>1, <1>2, Found, CompletedOfCpuid DEF P!Effect, P!Faults
<1> HIDE DEF r, a, b, c, d
<1>6. stack \in [Slots -> P!Value] /\ guest.rsp \in P!Value
  BY <1>1, Found
<1>7. /\ s4 \in [Slots -> P!Value]
      /\ Popped(s4, guest.rsp) = [before.gp EXCEPT ![P!RAX] = a, ![P!RBX] = b,
                                                   ![P!RCX] = c, ![P!RDX] = d]
  <2> DEFINE g1 == [before.gp EXCEPT ![P!RAX] = a]
             g2 == [g1 EXCEPT ![P!RBX] = b]
             g3 == [g2 EXCEPT ![P!RCX] = c]
             g4 == [g3 EXCEPT ![P!RDX] = d]
  <2>1. /\ before.gp \in [P!Registers -> P!Value]
        /\ \A q \in Saved : stack[Member(q)] = before.gp[q]
        /\ guest.rsp = before.gp[P!RSP]
    BY <1>1, Found, StateFacts
  <2>2. /\ s1 \in [Slots -> P!Value] /\ g1 \in [P!Registers -> P!Value]
        /\ \A q \in Saved : s1[Member(q)] = g1[q]
        /\ g1[P!RSP] = guest.rsp
    BY <1>3, <1>5, <1>6, <2>1, MembersDistinct DEF Saved
  <2> HIDE DEF s1, g1
  <2>3. /\ s2 \in [Slots -> P!Value] /\ g2 \in [P!Registers -> P!Value]
        /\ \A q \in Saved : s2[Member(q)] = g2[q]
        /\ g2[P!RSP] = guest.rsp
    BY <1>3, <1>5, <2>2, MembersDistinct DEF Saved
  <2> HIDE DEF s2, g2
  <2>4. /\ s3 \in [Slots -> P!Value] /\ g3 \in [P!Registers -> P!Value]
        /\ \A q \in Saved : s3[Member(q)] = g3[q]
        /\ g3[P!RSP] = guest.rsp
    BY <1>3, <1>5, <2>3, MembersDistinct DEF Saved
  <2> HIDE DEF s3, g3
  <2>5. /\ s4 \in [Slots -> P!Value] /\ g4 \in [P!Registers -> P!Value]
        /\ \A q \in Saved : s4[Member(q)] = g4[q]
        /\ g4[P!RSP] = guest.rsp
    BY <1>3, <1>5, <2>4, MembersDistinct DEF Saved
  <2> HIDE DEF s4, g4
  <2>6. s4 \in [Slots -> P!Value] /\ Popped(s4, guest.rsp) = g4
    BY <2>5, PoppedAre
  <2> QED
    BY <2>6 DEF g1, g2, g3, g4
<1> HIDE DEF s4
<1>8. P!Proper(before, insn)
  BY <1>2 DEF P!Proper
<1>9. Outcome'
  <2>1. Resumed(guest.rip + insn.len)' = P!Effect(before, insn)
    BY <1>1, <1>4, <1>5, <1>7, Found DEF Resumed
  <2>2. P!Effect(before, insn).rip = before.rip + insn.len
    BY <1>5
  <2>3. Emulated(Resumed(guest.rip + insn.len))'
    BY <1>1, <1>2, <1>8, <2>1, <2>2 DEF Emulated
  <2>4. execute_vmxoff' = FALSE
    BY <1>1, Found
  <2> QED
    BY <1>1, <2>3, <2>4 DEF Outcome
<1>10. /\ guest' \in GuestFields /\ msr' \in [Msrs -> P!Value]
       /\ stepping' \in BOOLEAN /\ execute_vmxoff' \in BOOLEAN
  BY <1>1, Found DEF ExitInv, Typed
<1> QED
  BY <1>1, <1>4, <1>7, <1>9, <1>10, HandledStep DEF HandledOrStopped

(* A handler that only passes the instruction over. *)
LEMMA PassedOverStep ==
  ASSUME ExitInv, at = "handler", HandledOrStopped,
         UNCHANGED <<capabilities, gp, cr, rip, faulted, lost, insn, vmcs, exit,
                     before, msr, stack, guest, increment_rip, execute_vmxoff, stepping>>,
         insn \in Instructions, P!Proper(before, insn),
         P!Unsupported(insn) \/ insn.op = "vmx_instruction"
  PROVE  ExitInv' /\ UNCHANGED Seen
<1> DEFINE next == [before EXCEPT !.rip = @ + insn.len]
<1>1. /\ next = [gp |-> before.gp, cr |-> before.cr, msr |-> before.msr,
                 rip |-> before.rip + insn.len,
                 faulted |-> before.faulted, lost |-> before.lost]
      /\ insn.op = "vmx_instruction" => P!Effect(before, insn) = next
  BY PassedOver, Found DEF P!Effect, P!Faults, P!Completed
<1>2. Resumed(guest.rip + insn.len)' = next
  BY <1>1, Found DEF Resumed
<1> HIDE DEF next
<1>3. next.rip = before.rip + insn.len
  BY <1>1
<1>4. Emulated(Resumed(guest.rip + insn.len))'
  BY <1>1, <1>2, <1>3 DEF Emulated, next
<1>5. Outcome'
  BY <1>4, Found DEF Outcome, HandledOrStopped
<1>6. /\ guest' \in GuestFields /\ msr' \in [Msrs -> P!Value]
      /\ stack' \in [Slots -> P!Value]
      /\ stepping' \in BOOLEAN /\ execute_vmxoff' \in BOOLEAN
      /\ increment_rip' \in BOOLEAN
  BY Found DEF ExitInv, Typed
<1> QED
  BY <1>5, <1>6, HandledStep

LEMMA UnknownStep ==
  ASSUME ExitInv, UnknownReason \/ CrAccessUnknownRegister
  PROVE  ExitInv' /\ UNCHANGED Seen
<1>1. /\ at = "handler" /\ HandledOrStopped
      /\ UNCHANGED <<capabilities, gp, cr, rip, faulted, lost, insn, vmcs, exit,
                     before, msr, stack, guest, increment_rip, execute_vmxoff, stepping>>
      /\ \/ exit.reason = "unknown"
         \/ exit.reason = "cr_access" /\ exit.reg \notin 0 .. 7
  BY DEF UnknownReason, CrAccessUnknownRegister, Handling, unhandled,
         program, handler
<1>2. insn \in Instructions /\ Explains(exit, insn, before)
  BY <1>1, Found
<1>3. P!Unsupported(insn) \/ insn.op = "vmx_instruction"
  BY <1>1, <1>2, InstructionAssumption DEF Explains, P!Unsupported, P!Registers
<1>4. P!Proper(before, insn)
  BY <1>3 DEF P!Proper, P!Unsupported
<1> QED
  BY <1>1, <1>2, <1>3, <1>4, PassedOverStep

(* The two handlers of the hooking engine leave the guest as it is.         *)
LEMMA SteppingStep ==
  ASSUME ExitInv, EptViolationHandler \/ MtfHandler
  PROVE  ExitInv' /\ UNCHANGED Seen
<1>1. /\ at = "handler" /\ HandledOrStopped
      /\ UNCHANGED <<capabilities, gp, cr, rip, faulted, lost, insn, vmcs, exit,
                     before, msr, stack, guest, execute_vmxoff>>
      /\ increment_rip' = FALSE /\ stepping' \in BOOLEAN
  BY DEF EptViolationHandler, MtfHandler, Handling, unhandled, program
<1>2. before = [gp |-> before.gp, cr |-> before.cr, msr |-> before.msr,
                rip |-> before.rip,
                faulted |-> before.faulted, lost |-> before.lost]
  BY <1>1, Found, StateFacts
<1>3. Resumed(guest.rip)' = before'
  BY <1>1, <1>2, Found DEF Resumed
<1>4. Outcome'
  BY <1>1, <1>3, Found DEF Outcome, HandledOrStopped
<1>5. /\ guest' \in GuestFields /\ msr' \in [Msrs -> P!Value]
      /\ stack' \in [Slots -> P!Value] /\ execute_vmxoff' \in BOOLEAN
  BY <1>1, Found
<1> QED
  BY <1>1, <1>4, <1>5, HandledStep

(* A handler that has emulated the instruction, once it is passed over.     *)
LEMMA EmulatedStep ==
  ASSUME ExitInv, at = "handler", at' = "handled",
         UNCHANGED <<capabilities, gp, cr, rip, faulted, lost, insn, vmcs, exit,
                     before, execute_vmxoff, stepping>>,
         stack' \in [Slots -> P!Value], guest' \in GuestFields,
         msr' \in [Msrs -> P!Value], \A m \in BaseMsrs : msr'[m] = msr[m],
         increment_rip' = TRUE, guest'.rip = guest.rip,
         insn \in Instructions, P!Proper(before, insn),
         NEW s, s = P!Effect(before, insn),
         s = [gp |-> Popped(stack', guest'.rsp), cr |-> guest'.cr,
              msr |-> [m \in Msrs |-> IF m \in BaseMsrs THEN guest'.base[m]
                                    ELSE msr'[m]],
              rip |-> before.rip + insn.len,
              faulted |-> before.faulted, lost |-> before.lost]
  PROVE  ExitInv' /\ UNCHANGED Seen
<1>1. Resumed(guest.rip + insn.len)' = s
  BY Found DEF Resumed
<1>2. s.rip = before.rip + insn.len
  OBVIOUS
<1>3. Emulated(Resumed(guest.rip + insn.len))'
  BY <1>1, <1>2 DEF Emulated
<1>4. Outcome'
  BY <1>3, Found DEF Outcome
<1>5. execute_vmxoff' \in BOOLEAN /\ stepping' \in BOOLEAN
  BY DEF ExitInv, Typed
<1> QED
  BY <1>4, <1>5, HandledStep DEF HandledOrStopped

LEMMA ReadMsrStep ==
  ASSUME ExitInv, ReadMsrHandler
  PROVE  ExitInv' /\ UNCHANGED Seen
<1> DEFINE v == before.msr[before.gp[P!RCX].low]
           a == P!Extended(v.low)
           d == P!Extended(v.high)
           s1 == [stack EXCEPT ![Member(P!RAX)] = a]
           g1 == [before.gp EXCEPT ![P!RAX] = a]
           s2 == [s1 EXCEPT ![Member(P!RDX)] = d]
           g2 == [g1 EXCEPT ![P!RDX] = d]
           s == P!Effect(before, insn)
<1>1. /\ at = "handler" /\ exit.reason = "msr_read" /\ at' = "handled"
      /\ UNCHANGED <<capabilities, gp, cr, rip, faulted, lost, insn, vmcs, exit,
                     before, msr, guest, execute_vmxoff, stepping>>
      /\ increment_rip' = TRUE
  BY DEF ReadMsrHandler, Handling, Handled, unhandled, program
<1>2. insn \in Instructions /\ insn.op = "rdmsr" /\ P!Proper(before, insn)
  <2>1. insn \in Instructions /\ insn.op = "rdmsr"
    BY <1>1, Found DEF Explains
  <2>2. P!Proper(before, insn)
    BY <1>1, <2>1, NoneAssumption, Found
  <2> QED
    BY <2>1, <2>2
<1>3. P!RAX \in Saved /\ P!RCX \in Saved /\ P!RDX \in Saved /\ P!RAX # P!RDX
  BY DEF Saved, P!Registers, P!RAX, P!RCX, P!RDX, P!RSP
<1>4. before.gp[P!RCX].low \in Msrs
  BY <1>2 DEF P!Proper
<1>5. before.gp[P!RCX].low \notin BitmapRange
  BY <1>1, <1>2, Found DEF Explains
<1>6. before.gp[P!RCX].low \notin BaseMsrs
  BY <1>5, MsrAssumption
<1>7. stack' = s2
  <2>1. stack[Member(P!RCX)] = before.gp[P!RCX]
    BY <1>1, <1>3, Found
  <2>2. msr[before.gp[P!RCX].low] = v
    BY <1>1, <1>4, <1>6, Found
  <2> QED
    BY <2>1, <2>2 DEF ReadMsrHandler
<1>8. /\ s = [gp |-> g2, cr |-> before.cr, msr |-> before.msr,
              rip |-> before.rip + insn.len,
              faulted |-> before.faulted, lost |-> before.lost]
      /\ a \in P!Value /\ d \in P!Value
  BY <1>1, <1>2, Found, CompletedOfRdmsr DEF P!Effect, P!Faults
<1> HIDE DEF v, a, d, s
<1>9. s2 \in [Slots -> P!Value] /\ Popped(s2, guest.rsp) = g2
  <2>1. /\ before.gp \in [P!Registers -> P!Value] /\ stack \in [Slots -> P!Value]
        /\ \A q \in Saved : stack[Member(q)] = before.gp[q]
        /\ guest.rsp = before.gp[P!RSP]
    BY <1>1, Found, StateFacts
  <2>2. /\ s1 \in [Slots -> P!Value] /\ g1 \in [P!Registers -> P!Value]
        /\ \A q \in Saved : s1[Member(q)] = g1[q]
        /\ g1[P!RSP] = guest.rsp
    BY <1>3, <1>8, <2>1, MembersDistinct DEF Saved
  <2> HIDE DEF s1, g1
  <2>3. /\ s2 \in [Slots -> P!Value] /\ g2 \in [P!Registers -> P!Value]
        /\ \A q \in Saved : s2[Member(q)] = g2[q]
        /\ g2[P!RSP] = guest.rsp
    BY <1>3, <1>8, <2>2, MembersDistinct DEF Saved
  <2> HIDE DEF s2, g2
  <2> QED
    BY <2>3, PoppedAre
<1> HIDE DEF s2, g2
<1>10. /\ s = [gp |-> Popped(stack', guest'.rsp), cr |-> guest'.cr,
               msr |-> [m \in Msrs |-> IF m \in BaseMsrs THEN guest'.base[m]
                                     ELSE msr'[m]],
               rip |-> before.rip + insn.len,
               faulted |-> before.faulted, lost |-> before.lost]
       /\ stack' \in [Slots -> P!Value] /\ guest' \in GuestFields
       /\ msr' \in [Msrs -> P!Value]
  BY <1>1, <1>7, <1>8, <1>9, Found
<1> QED
  BY <1>1, <1>2, <1>10, EmulatedStep DEF s

LEMMA WriteMsrStep ==
  ASSUME ExitInv, WriteMsrHandler
  PROVE  ExitInv' /\ UNCHANGED Seen
<1> DEFINE k == before.gp[P!RCX].low
           v == [high |-> before.gp[P!RDX].low, low |-> before.gp[P!RAX].low]
           s == P!Effect(before, insn)
<1>1. /\ at = "handler" /\ exit.reason = "msr_write" /\ at' = "handled"
      /\ UNCHANGED <<capabilities, gp, cr, rip, faulted, lost, insn, vmcs, exit,
                     before, stack, guest, execute_vmxoff, stepping>>
      /\ increment_rip' = TRUE
  BY DEF WriteMsrHandler, Handling, Handled, unhandled, program
<1>2. insn \in Instructions /\ insn.op = "wrmsr" /\ k \notin BitmapRange
  BY <1>1, Found DEF Explains
<1>3. P!Proper(before, insn)
  BY <1>1, <1>2, NoneAssumption, Found
<1>4. P!RAX \in Saved /\ P!RCX \in Saved /\ P!RDX \in Saved
  BY DEF Saved, P!Registers, P!RAX, P!RCX, P!RDX, P!RSP
<1>5. msr' = [msr EXCEPT ![k] = v]
  <2>1. /\ stack[Member(P!RCX)] = before.gp[P!RCX]
        /\ stack[Member(P!RDX)] = before.gp[P!RDX]
        /\ stack[Member(P!RAX)] = before.gp[P!RAX]
    BY <1>1, <1>4, Found
  <2> QED
    BY <2>1 DEF WriteMsrHandler
<1>6. /\ s = [gp |-> before.gp, cr |-> before.cr,
              msr |-> [before.msr EXCEPT ![k] = v],
              rip |-> before.rip + insn.len,
              faulted |-> before.faulted, lost |-> before.lost]
      /\ v \in P!Value /\ k \in Msrs
  BY <1>1, <1>2, <1>3, MsrAssumption, Found, CompletedOfWrmsr
     DEF P!Effect, P!Faults
<1>7. k \notin BaseMsrs
  BY <1>2, MsrAssumption
<1> HIDE DEF k, v, s
<1>8. /\ msr' \in [Msrs -> P!Value]
      /\ \A m \in BaseMsrs : msr'[m] = msr[m]
      /\ [m \in Msrs |-> IF m \in BaseMsrs THEN guest.base[m] ELSE msr'[m]]
           = [before.msr EXCEPT ![k] = v]
  <2>1. /\ msr \in [Msrs -> P!Value] /\ before.msr \in [Msrs -> P!Value]
        /\ guest.base = [m \in BaseMsrs |-> before.msr[m]]
        /\ \A m \in Msrs \ BaseMsrs : msr[m] = before.msr[m]
    BY <1>1, Found, StateFacts
  <2> QED
    BY <1>5, <1>6, <1>7, <2>1, MsrAssumption
<1>9. /\ s = [gp |-> Popped(stack', guest'.rsp), cr |-> guest'.cr,
              msr |-> [m \in Msrs |-> IF m \in BaseMsrs THEN guest'.base[m]
                                    ELSE msr'[m]],
              rip |-> before.rip + insn.len,
              faulted |-> before.faulted, lost |-> before.lost]
      /\ stack' \in [Slots -> P!Value] /\ guest' \in GuestFields
  BY <1>1, <1>6, <1>8, Found
<1> QED
  BY <1>1, <1>2, <1>3, <1>8, <1>9, EmulatedStep DEF s

LEMMA CrAccessToStep ==
  ASSUME ExitInv, CrAccessTo
  PROVE  ExitInv' /\ UNCHANGED Seen
<1> DEFINE v == P!Stored(insn.cr, before.gp[insn.reg])
           s == P!Effect(before, insn)
<1>1. /\ at = "handler" /\ exit.reason = "cr_access" /\ at' = "handled"
      /\ exit.reg \in 0 .. 7 /\ exit.access = "MOV_TO_CR"
      /\ UNCHANGED <<capabilities, gp, cr, rip, faulted, lost, insn, vmcs, exit,
                     before, stack, msr, execute_vmxoff, stepping>>
      /\ increment_rip' = TRUE
  BY DEF CrAccessTo, Handling, Handled, unhandled, program
<1>2. /\ insn \in Instructions /\ insn.op = "mov_to_cr" /\ insn.cr = 3
      /\ exit.cr = 3 /\ insn.reg = exit.reg
  BY <1>1, Found DEF Explains
<1>3. P!Proper(before, insn)
  BY <1>1, <1>2, NoneAssumption, Found
<1>4. guest' = [guest EXCEPT !.cr[3] = v]
  <2>1. exit.reg # P!RSP => exit.reg \in Saved
    BY <1>1 DEF Saved, P!Registers
  <2>2. (IF exit.reg = P!RSP THEN guest.rsp ELSE stack[Member(exit.reg)])
          = before.gp[insn.reg]
    BY <1>1, <1>2, <2>1, Found
  <2>3. before.gp[insn.reg].high \cap 0 .. 19
          = before.gp[insn.reg].high \ (20 .. 31)
    <3>1. before.gp[insn.reg] \in P!Value
      BY <1>1, <1>2, Found, StateFacts, InstructionAssumption
    <3>2. before.gp[insn.reg].high \subseteq 0 .. 31
      BY <3>1, WordAssumption DEF P!Value, P!Word
    <3> QED
      BY <3>2
  <2> QED
    BY <1>2, <2>2, <2>3 DEF CrAccessTo, P!Stored, P!Cr3Stored
<1>5. /\ s = [gp |-> before.gp, cr |-> [before.cr EXCEPT ![3] = v],
              msr |-> before.msr, rip |-> before.rip + insn.len,
                                  faulted |-> before.faulted, lost |-> before.lost]
      /\ v \in P!Value
  BY <1>1, <1>2, Found, CompletedOfMovToCr DEF P!Effect, P!Faults, P!Allowed
<1> HIDE DEF v, s
<1>6. /\ guest' \in GuestFields /\ guest'.rsp = guest.rsp /\ guest'.rip = guest.rip
      /\ guest'.base = guest.base /\ guest'.cr = [before.cr EXCEPT ![3] = v]
  BY <1>1, <1>4, <1>5, Found DEF GuestFields, P!ControlRegisters
<1>7. /\ s = [gp |-> Popped(stack', guest'.rsp), cr |-> guest'.cr,
              msr |-> [m \in Msrs |-> IF m \in BaseMsrs THEN guest'.base[m]
                                    ELSE msr'[m]],
              rip |-> before.rip + insn.len,
              faulted |-> before.faulted, lost |-> before.lost]
      /\ stack' \in [Slots -> P!Value] /\ msr' \in [Msrs -> P!Value]
  BY <1>1, <1>5, <1>6, Found
<1> QED
  BY <1>1, <1>2, <1>3, <1>6, <1>7, EmulatedStep DEF s

LEMMA CrAccessFromStep ==
  ASSUME ExitInv, CrAccessFrom
  PROVE  ExitInv' /\ UNCHANGED Seen
<1> DEFINE s2 == [stack EXCEPT ![Member(exit.reg)] = guest.cr[3]]
           g2 == [before.gp EXCEPT ![insn.reg] = before.cr[3]]
           s == P!Effect(before, insn)
<1>1. /\ at = "handler" /\ exit.reason = "cr_access" /\ at' = "handled"
      /\ exit.reg \in 0 .. 7 /\ exit.access = "MOV_FROM_CR"
      /\ UNCHANGED <<capabilities, gp, cr, rip, faulted, lost, insn, vmcs, exit,
                     before, msr, execute_vmxoff, stepping>>
      /\ increment_rip' = TRUE
  BY DEF CrAccessFrom, Handling, Handled, unhandled, program
<1>2. /\ insn \in Instructions /\ insn.op = "mov_from_cr" /\ insn.cr = 3
      /\ exit.cr = 3 /\ insn.reg = exit.reg
  BY <1>1, Found DEF Explains
<1>3. P!Proper(before, insn)
  BY <1>1, <1>2, NoneAssumption, Found
<1>4. guest' = guest /\ stack' = IF exit.reg = P!RSP THEN stack ELSE s2
  BY <1>2 DEF CrAccessFrom
<1>5. CASE exit.reg = P!RSP
  <2>1. P!Unsupported(insn)
    BY <1>2, <1>5 DEF P!Unsupported
  <2>2. increment_rip' = increment_rip
    BY <1>1, Found
  <2> QED
    BY <1>1, <1>2, <1>3, <1>4, <1>5, <2>1, <2>2, PassedOverStep
       DEF HandledOrStopped
<1>6. CASE exit.reg # P!RSP
  <2>1. /\ s = [gp |-> g2, cr |-> before.cr, msr |-> before.msr,
                rip |-> before.rip + insn.len,
                faulted |-> before.faulted, lost |-> before.lost]
        /\ before.cr[3] \in P!Value
    BY <1>1, <1>2, Found, CompletedOfMovFromCr DEF P!Effect, P!Faults
  <2> HIDE DEF s
  <2>2. s2 \in [Slots -> P!Value] /\ Popped(s2, guest.rsp) = g2
    <3>1. /\ before.gp \in [P!Registers -> P!Value]
          /\ stack \in [Slots -> P!Value]
          /\ \A q \in Saved : stack[Member(q)] = before.gp[q]
          /\ guest.rsp = before.gp[P!RSP] /\ guest.cr = before.cr
      BY <1>1, Found, StateFacts
    <3>2. insn.reg \in Saved
      BY <1>1, <1>2, <1>6 DEF Saved, P!Registers
    <3>3. /\ s2 \in [Slots -> P!Value] /\ g2 \in [P!Registers -> P!Value]
          /\ \A q \in Saved : s2[Member(q)] = g2[q]
          /\ g2[P!RSP] = guest.rsp
      BY <1>2, <2>1, <3>1, <3>2, MembersDistinct DEF Saved
    <3> HIDE DEF s2, g2
    <3> QED
      BY <3>3, PoppedAre
  <2> HIDE DEF s2, g2
  <2>3. /\ s = [gp |-> Popped(stack', guest'.rsp), cr |-> guest'.cr,
                msr |-> [m \in Msrs |-> IF m \in BaseMsrs THEN guest'.base[m]
                                      ELSE msr'[m]],
                rip |-> before.rip + insn.len,
                faulted |-> before.faulted, lost |-> before.lost]
        /\ stack' \in [Slots -> P!Value] /\ guest' \in GuestFields
        /\ msr' \in [Msrs -> P!Value]
    BY <1>1, <1>4, <1>6, <2>1, <2>2, Found
  <2> QED
    BY <1>1, <1>2, <1>3, <1>4, <2>3, EmulatedStep DEF s
<1> QED
  BY <1>5, <1>6

LEMMA VmxOffStep ==
  ASSUME ExitInv, VmxOff
  PROVE  ExitInv' /\ UNCHANGED Seen
<1>1. /\ at = "handler" /\ exit.reason = "vmxoff" /\ at' = "handled"
      /\ UNCHANGED <<capabilities, gp, cr, rip, faulted, lost, insn, vmcs, exit,
                     before, stack, msr, guest, stepping>>
      /\ increment_rip' = TRUE /\ execute_vmxoff' = TRUE
  BY DEF VmxOff, Handling, Handled, unhandled, program
<1>2. insn \in Instructions /\ insn.op = "vmxoff"
  BY <1>1, Found DEF Explains
<1>3. P!Proper(before, insn)
  BY <1>1, <1>2, NoneAssumption, Found
<1> DEFINE s == P!Effect(before, insn)
<1>4. s = [gp |-> before.gp, cr |-> Start.cr,
           msr |-> [m \in Msrs |-> IF m \in BaseMsrs THEN InitialState.msr[m]
                                 ELSE before.msr[m]],
           rip |-> before.rip + insn.len,
           faulted |-> before.faulted,
           lost |-> before.lost \cup (P!Groups \ {"vector"})]
  BY <1>1, <1>2, Found, CompletedOfVmxoff DEF P!Effect, P!Faults
<1> HIDE DEF s
<1>5. cr = Start.cr /\ \A m \in BaseMsrs : msr[m] = InitialState.msr[m]
  BY <1>1 DEF ExitInv, Host, InHost
<1>6. msr = [m \in Msrs |-> IF m \in BaseMsrs THEN InitialState.msr[m]
                          ELSE before.msr[m]]
  BY <1>1, <1>5, Found
<1>7. TurnedOff(guest.rip + insn.len)' = s /\ s.rip = before.rip + insn.len
  BY <1>1, <1>4, <1>5, <1>6, Found DEF TurnedOff
<1>8. Emulated(TurnedOff(guest.rip + insn.len))'
  BY <1>1, <1>2, <1>3, <1>7 DEF Emulated, s
<1>9. Outcome'
  BY <1>1, <1>8 DEF Outcome
<1>10. /\ guest' \in GuestFields /\ msr' \in [Msrs -> P!Value]
       /\ stack' \in [Slots -> P!Value] /\ stepping' \in BOOLEAN
  BY <1>1, Found DEF ExitInv, Typed
<1> QED
  BY <1>1, <1>9, <1>10, HandledStep DEF HandledOrStopped

-----------------------------------------------------------------------------
(* Back to the guest. *)

LEMMA IncrementRipStep ==
  ASSUME ExitInv, IncrementRip
  PROVE  ExitInv' /\ UNCHANGED Seen
<1>1. /\ at = "handled" /\ at' = IF execute_vmxoff THEN "vmxoff_handler" ELSE "resume"
      /\ guest' = IF increment_rip THEN [guest EXCEPT !.rip = @ + insn.len] ELSE guest
      /\ UNCHANGED <<capabilities, gp, cr, msr, rip, faulted, lost, insn, stack, vmcs,
                     exit, increment_rip, execute_vmxoff, stepping, before>>
  BY DEF IncrementRip, processor, program, handler
<1>2. increment_rip => insn \in Instructions /\ insn.len \in Nat
  BY <1>1, InstructionAssumption DEF ExitInv, Outcome, Emulated
<1>3. /\ guest' \in GuestFields /\ guest'.rsp = guest.rsp /\ guest'.cr = guest.cr
      /\ guest'.base = guest.base
      /\ guest'.rip = IF increment_rip THEN guest.rip + insn.len ELSE guest.rip
  BY <1>1, <1>2 DEF ExitInv, Typed, InHost, GuestFields
<1>4. Typed'
  BY <1>1, <1>3 DEF ExitInv, Typed, InHost
<1>5. Outcome'
  <2>1. \A r : Resumed(r)' = Resumed(r) /\ TurnedOff(r)' = TurnedOff(r)
    BY <1>1, <1>3 DEF Resumed, TurnedOff
  <2>2. \A s : Emulated(s)' <=> Emulated(s)
    BY <1>1 DEF Emulated
  <2>3. CASE execute_vmxoff
    <3>1. /\ at' = "vmxoff_handler" /\ increment_rip
          /\ Emulated(TurnedOff(guest.rip + insn.len))
      BY <1>1, <2>3 DEF ExitInv, Outcome
    <3>2. Emulated(TurnedOff(guest.rip))'
      BY <1>1, <1>3, <3>1 DEF Emulated, TurnedOff
    <3> QED
      BY <3>1, <3>2 DEF Outcome
  <2>4. CASE ~execute_vmxoff /\ increment_rip
    <3>1. at' = "resume" /\ Emulated(Resumed(guest.rip + insn.len))
      BY <1>1, <2>4 DEF ExitInv, Outcome
    <3>2. Emulated(Resumed(guest.rip))'
      BY <1>1, <1>3, <2>4, <3>1 DEF Emulated, Resumed
    <3> QED
      BY <3>1, <3>2 DEF Outcome
  <2>5. CASE ~execute_vmxoff /\ ~increment_rip
    <3>1. at' = "resume" /\ Resumed(guest.rip) = before
      BY <1>1, <2>5 DEF ExitInv, Outcome
    <3>2. Resumed(guest.rip)' = before'
      BY <1>1, <1>3, <2>5, <3>1 DEF Resumed
    <3> QED
      BY <3>1, <3>2 DEF Outcome
  <2> QED
    BY <2>3, <2>4, <2>5
<1> QED
  BY <1>1, <1>4, <1>5 DEF ExitInv, Launched, LaunchAccepted, Entering, Host,
                          LostSince, Ready, Left, InHost, Seen

(* An emulated instruction, with what is lost on the way, is one            *)
(* GuestProcessor allows.                                                   *)
LEMMA EmulatedIsStep ==
  ASSUME ExitInv, at \in InHost, NEW s, Emulated(s),
         NEW groups \in SUBSET {"debug", "vector"},
         Seen' = [s EXCEPT !.lost = @ \cup groups]
  PROVE  P!Next
<1>1. Seen = before
  BY DEF Seen, InHost
<1>2. P!Losing(s)
  BY DEF P!Losing, Seen
<1>3. insn \in Instructions /\ (P!Execute(insn) \/ P!PassOver(insn))
  BY <1>1, <1>2 DEF Emulated, P!Execute, P!PassOver, Seen
<1> QED
  BY <1>3 DEF P!Next

LEMMA VmResumeStep ==
  ASSUME ExitInv, VmResume
  PROVE  ExitInv' /\ P!Next
<1>1. /\ at = "resume" /\ at' = "guest"
      /\ gp' = Popped(stack, guest.rsp)
      /\ rip' = guest.rip /\ cr' = guest.cr
      /\ msr' = [m \in Msrs |-> IF m \in BaseMsrs THEN guest.base[m] ELSE msr[m]]
      /\ insn' = IF guest.rip = before.rip THEN insn ELSE None
      /\ UNCHANGED <<capabilities, faulted, lost, vmcs, guest, exit,
                     increment_rip, execute_vmxoff, stepping, before>>
  BY DEF VmResume, handler
<1>2. PICK groups \in SUBSET {"debug", "vector"} : lost = before.lost \cup groups
  BY <1>1 DEF ExitInv, Host, LostSince, InHost
<1>3. /\ Seen' = [Resumed(guest.rip) EXCEPT !.lost = @ \cup groups]
      /\ State' = Seen' /\ Seen = before
  <2>1. Seen' = [gp |-> gp', cr |-> cr', msr |-> msr', rip |-> rip',
                 faulted |-> faulted', lost |-> lost']
        /\ State' = Seen' /\ Seen = before
    BY <1>1 DEF Seen, State
  <2>2. lost' = before.lost \cup groups
    BY <1>1, <1>2
  <2>3. Resumed(guest.rip) =
          [gp |-> gp', cr |-> cr', msr |-> msr', rip |-> rip',
           faulted |-> faulted', lost |-> before.lost]
    BY <1>1 DEF Resumed
  <2> QED
    BY <2>1, <2>2, <2>3
<1>4. Resumed(guest.rip) = before \/ Emulated(Resumed(guest.rip))
  BY <1>1 DEF ExitInv, Outcome
<1>5. P!Next
  <2>1. CASE Resumed(guest.rip) = before
    <3>1. Seen' = [Seen EXCEPT !.lost = @ \cup groups]
      BY <1>3, <2>1
    <3>2. P!Forget
      BY <3>1 DEF P!Forget, P!Losing, Seen
    <3> QED
      BY <3>2 DEF P!Next
  <2>2. CASE Emulated(Resumed(guest.rip))
    BY <1>1, <1>3, <2>2, EmulatedIsStep DEF InHost
  <2> QED
    BY <1>4, <2>1, <2>2
<1>6. Typed'
  <2>1. /\ stack \in [Slots -> P!Value] /\ guest \in GuestFields
        /\ msr \in [Msrs -> P!Value]
    BY <1>1 DEF ExitInv, Typed, InHost
  <2>2. /\ guest.rsp \in P!Value /\ guest.rip \in Nat
        /\ guest.cr \in [P!ControlRegisters -> P!Value]
        /\ guest.base \in [BaseMsrs -> P!Value]
    BY <2>1 DEF GuestFields
  <2>3. gp' \in [P!Registers -> P!Value] /\ msr' \in [Msrs -> P!Value]
    BY <1>1, <2>1, <2>2, PoppedFacts
  <2> QED
    BY <1>1, <2>2, <2>3 DEF ExitInv, Typed, InHost
<1>7. Ready'
  <2>1. ASSUME insn' # None PROVE P!Proper(State', insn')
    <3>1. insn' = insn /\ insn \in Instructions /\ guest.rip = before.rip
      BY <1>1, <2>1 DEF ExitInv, Typed
    <3>2. P!Proper(before, insn)
      BY <1>1, <2>1, <3>1 DEF ExitInv, Ready, InHost
    <3>3. ~Emulated(Resumed(guest.rip))
      <4>1. insn.len \in Nat \ {0} /\ before.rip \in Nat
        BY <3>1, InstructionAssumption, StateFacts DEF ExitInv, Typed
      <4>2. Resumed(guest.rip).rip = guest.rip
        BY DEF Resumed
      <4> QED
        BY <3>1, <4>1, <4>2 DEF Emulated
    <3> QED
      BY <1>3, <1>4, <3>1, <3>2, <3>3 DEF P!Proper
  <2> QED
    BY <1>1, <2>1 DEF Ready, InHost, State
<1> QED
  BY <1>1, <1>5, <1>6, <1>7
     DEF ExitInv, Launched, LaunchAccepted, Entering, Host, Left, Outcome, InHost

LEMMA VmxoffHandlerStep ==
  ASSUME ExitInv, VmxoffHandler
  PROVE  ExitInv' /\ P!Next
<1>1. /\ at = "vmxoff_handler" /\ at' = "off"
      /\ gp' = Popped(stack, guest.rsp) /\ rip' = guest.rip /\ insn' = None
      /\ lost' = lost \cup (P!Groups \ {"vector"})
      /\ UNCHANGED <<capabilities, cr, msr, faulted, vmcs, guest, exit,
                     increment_rip, execute_vmxoff, stepping, before>>
  BY DEF VmxoffHandler, handler, P!Groups
<1>2. PICK groups \in SUBSET {"debug", "vector"} : lost = before.lost \cup groups
  BY <1>1 DEF ExitInv, Host, LostSince, InHost
<1>3. Seen' = [TurnedOff(guest.rip) EXCEPT !.lost = @ \cup groups]
  <2>1. lost' = (before.lost \cup (P!Groups \ {"vector"})) \cup groups
    BY <1>1, <1>2
  <2> QED
    BY <1>1, <2>1 DEF Seen, TurnedOff
<1>4. P!Next
  <2>1. Emulated(TurnedOff(guest.rip))
    BY <1>1 DEF ExitInv, Outcome
  <2> QED
    BY <1>1, <1>3, <2>1, EmulatedIsStep DEF InHost
<1>5. Typed'
  <2>1. stack \in [Slots -> P!Value] /\ guest \in GuestFields
    BY <1>1 DEF ExitInv, Typed, InHost
  <2>2. guest.rsp \in P!Value /\ guest.rip \in Nat
    BY <2>1 DEF GuestFields
  <2>3. gp' \in [P!Registers -> P!Value]
    BY <1>1, <2>1, <2>2, PoppedFacts
  <2>4. lost' \in SUBSET P!Groups
    BY <1>1 DEF ExitInv, Typed
  <2> QED
    BY <1>1, <2>2, <2>3, <2>4 DEF ExitInv, Typed, InHost
<1> QED
  BY <1>1, <1>4, <1>5
     DEF ExitInv, Launched, LaunchAccepted, Entering, Host, Ready, Left, Outcome,
         InHost

-----------------------------------------------------------------------------
(* The theorems. *)

LEMMA ExitStep ==
  ASSUME ExitInv, Next
  PROVE  ExitInv' /\ (P!Next \/ UNCHANGED Seen)
<1>1. CASE SetupStub \/ VmLaunch \/ Entrypoint
  BY <1>1, SetupStubStep, VmLaunchStep, EntrypointStep
<1>2. CASE Fetch \/ Execute \/ VmExit \/ SaveGp
  BY <1>2, FetchStep, ExecuteStep, VmExitStep, SaveGpStep
<1>3. CASE CpuidHandler \/ CrAccessUnknownRegister \/ CrAccessTo \/ CrAccessFrom
  BY <1>3, CpuidStep, UnknownStep, CrAccessToStep, CrAccessFromStep
<1>4. CASE EptViolationHandler \/ MtfHandler \/ ReadMsrHandler \/ WriteMsrHandler
  BY <1>4, SteppingStep, ReadMsrStep, WriteMsrStep
<1>5. CASE VmxOff \/ UnknownReason \/ IncrementRip \/ VmResume \/ VmxoffHandler
  BY <1>5, VmxOffStep, UnknownStep, IncrementRipStep, VmResumeStep, VmxoffHandlerStep
<1> QED
  BY <1>1, <1>2, <1>3, <1>4, <1>5 DEF Next

LEMMA ExitStutter ==
  ASSUME ExitInv, UNCHANGED vars
  PROVE  ExitInv' /\ UNCHANGED Seen
<1>1. UNCHANGED <<capabilities, at, gp, cr, msr, rip, faulted, lost, insn, stack, vmcs,
                  guest, exit, increment_rip, execute_vmxoff, stepping, before>>
  BY DEF vars, processor, program, handler
<1> QED
  BY <1>1 DEF ExitInv, Launched, LaunchAccepted, Typed, Entering, Host, LostSince,
              Ready, Left, Outcome, Seen, State, Fields, Explains, Resumed,
              TurnedOff, Emulated

LEMMA ExitInductive == Spec => []ExitInv
<1>1. ExitInv /\ [Next]_vars => ExitInv'
  BY ExitStep, ExitStutter
<1> QED
  BY ExitInit, <1>1, PTL DEF Spec

(* Every variable has its type, for words of any size. *)
THEOREM TypeInvariant == Spec => []TypeOK
<1>1. ExitInv => TypeOK
  <2> SUFFICES ASSUME ExitInv PROVE TypeOK
    OBVIOUS
  <2>1. State \in P!States
    BY StateTyped
  <2>2. ASSUME stack \in [Slots -> P!Value]
        PROVE  stack \in Seq(P!Value) /\ Len(stack) = 15
    <3>1. stack \in Seq(P!Value)
      BY <2>2, SeqDef DEF Slots
    <3>2. DOMAIN stack = 1 .. 15
      BY <2>2 DEF Slots
    <3> QED
      BY <3>1, <3>2, LenProperties
  <2> QED
    BY <2>1, <2>2 DEF ExitInv, Typed, TypeOK, GuestFields
<1> QED
  BY <1>1, ExitInductive, PTL

(* On every processor that has what the driver needs and in every system    *)
(* with the segments of 64-bit Windows, VMLAUNCH accepts what               *)
(* setup_vmcs_fields has written.                                           *)
THEOREM LaunchSucceeds == Spec => []LaunchAccepted
<1>1. ExitInv => LaunchAccepted
  BY DEF ExitInv, Launched
<1> QED
  BY <1>1, ExitInductive, PTL

(* The guest cannot tell, but for what GuestProcessor names, whatever it    *)
(* runs for however long: each exit and what the handler does add up to the *)
(* effect of the instruction.                                               *)
THEOREM ExitsAreTransparent == Spec => ExitsTransparent
<1>1. Init => P!Init
  <2> SUFFICES ASSUME Init PROVE Seen = InitialState
    BY DEF P!Init, Seen
  <2> QED
    BY DEF Init, Seen
<1>2. ExitInv /\ [Next]_vars =>
        [P!Next]_(IF at \in {"guest", "off"}
                    THEN [gp |-> gp, cr |-> cr, msr |-> msr, rip |-> rip,
                          faulted |-> faulted, lost |-> lost]
                    ELSE before)
  BY ExitStep, ExitStutter DEF Seen
<1> QED
  BY <1>1, <1>2, ExitInductive, PTL DEF Spec, ExitsTransparent, P!Spec
=============================================================================
