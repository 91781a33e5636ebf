--------------------------- MODULE ExamTrackingProofs ---------------------------
(***************************************************************************)
(* The lock-free maps of the exam tracking server lose no report, for any  *)
(* numbers of concurrent Puts, Gets and Deletes.                           *)
(*                                                                         *)
(* The properties are not inductive alone.  That a stored report stays     *)
(* where it is needs to know that every slot holds the report whose Put    *)
(* claimed its index (SlotsHoldTheirReports), that a delete about to       *)
(* remove a slot has seen the report it wants there (RemovesAim), and that *)
(* a deleted report leaves an empty slot behind (DeletedLeftItsSlot):      *)
(* together with IndexesClaimedOnce they leave a Store nothing to          *)
(* overwrite and a Delete nothing but its own target to remove.            *)
(***************************************************************************)
EXTENDS ExamTracking, GoMapsProofs, FiniteSetTheorems

\* A Put past its LoadOrStore finds a count.
CountIsThere == \A p \in Puts : pc[p] # "init" => count # Absent

SlotsHoldTheirReports ==
    \A i \in DOMAIN reports : Stored(reports[i]) /\ idx[reports[i]] = i

StoredStays ==
    \A p \in Puts : Stored(p) /\ p \notin deleted =>
      idx[p] \in DOMAIN reports /\ reports[idx[p]] = p

DeletedLeftItsSlot ==
    \A p \in deleted :
      /\ Stored(p) /\ idx[p] \notin DOMAIN reports
      /\ \E d \in Deletes : Target[d] = p /\ pc[d] \in {"notify", "done"}

RemovesAim ==
    \A d \in Deletes : pc[d] = "remove" =>
      Stored(Target[d]) /\ idx[d] = idx[Target[d]]

IInv == /\ TypeOK /\ CountIsThere /\ IndexesClaimedOnce
        /\ SlotsHoldTheirReports /\ StoredStays /\ DeletedLeftItsSlot /\ RemovesAim
-------------------------------------------------------------------------------
LEMMA InitInv == Init => IInv
  BY DEF Init, IInv, TypeOK, CountIsThere, IndexesClaimedOnce, SlotsHoldTheirReports,
         StoredStays, DeletedLeftItsSlot, RemovesAim, Claimed, Stored, Steps, Ops

\* The parts of the invariant that only Puts and removals can disturb survive a step
\* of a Get or a Delete that writes to neither map.
LEMMA ScanStepInv ==
    ASSUME IInv, TypeOK', NEW o \in Gets \cup Deletes, UNCHANGED <<memory, deleted>>,
           \A x \in Ops \ {o} : pc'[x] = pc[x] /\ idx'[x] = idx[x],
           pc[o] \in {"notify", "done"} => pc'[o] \in {"notify", "done"},
           o \in Deletes /\ pc'[o] = "remove" =>
             Stored(Target[o]) /\ idx'[o] = idx[Target[o]]
    PROVE  IInv'
  <1>1. \A p \in Puts : pc'[p] = pc[p] /\ idx'[p] = idx[p]
    BY OpsAssumption DEF Ops
  <1>2. UNCHANGED <<count, reports, deleted>>
    BY DEF memory
  <1>3. (CountIsThere /\ IndexesClaimedOnce)'
    BY <1>1, <1>2 DEF IInv, CountIsThere, IndexesClaimedOnce, Claimed
  <1>4. SlotsHoldTheirReports' /\ StoredStays'
    BY <1>1, <1>2 DEF IInv, TypeOK, SlotsHoldTheirReports, StoredStays, Stored
  <1>5. DeletedLeftItsSlot'
    <2>1. SUFFICES ASSUME NEW p \in deleted
                   PROVE  /\ Stored(p)' /\ idx'[p] \notin DOMAIN reports
                          /\ \E d \in Deletes : Target[d] = p /\ pc'[d] \in {"notify", "done"}
      BY <1>2 DEF DeletedLeftItsSlot
    <2>2. p \in Puts /\ Stored(p) /\ idx[p] \notin DOMAIN reports
      BY DEF IInv, TypeOK, DeletedLeftItsSlot
    <2>3. PICK d \in Deletes : Target[d] = p /\ pc[d] \in {"notify", "done"}
      BY DEF IInv, DeletedLeftItsSlot
    <2>4. pc'[d] \in {"notify", "done"}
      BY <2>3 DEF Ops
    <2> QED BY <1>1, <2>2, <2>3, <2>4 DEF Stored
  <1>6. RemovesAim'
    BY <1>1, OpsAssumption DEF IInv, RemovesAim, Stored, Ops
  <1> QED BY <1>3, <1>4, <1>5, <1>6 DEF IInv

LEMMA ReturnType ==
    ASSUME TypeOK, NEW o \in Ops, NEW r \in {"nil", "notFound"}, Return(o, r)
    PROVE  /\ pc' \in [Ops -> Steps] /\ idx' \in [Ops -> Nat] /\ bound' \in [Ops -> Nat]
           /\ result' \in [Ops -> {"none", "nil", "notFound"}]
           /\ pc'[o] = "done" /\ (o \in Puts => idx'[o] = idx[o])
           /\ \A x \in Ops \ {o} : pc'[x] = pc[x] /\ idx'[x] = idx[x]
  BY DEF Return, Goto, TypeOK, Steps

LEMMA BeginType ==
    ASSUME TypeOK, NEW o \in Ops, Begin(o)
    PROVE  before' \in [Ops -> SUBSET Puts]
  BY DEF Begin, Returned, TypeOK

LEMMA LoadBoundInv == ASSUME IInv, NEW o \in Gets \cup Deletes, LoadBound(o) PROVE IInv'
  <1>1. o \in Ops /\ TypeOK /\ pc[o] = "load" /\ UNCHANGED <<memory, out, deleted>> /\ Begin(o)
    BY DEF Ops, IInv, LoadBound
  <1>2. CASE count = Absent
    <2>1. PICK r \in {"nil", "notFound"} : Return(o, r)
      BY <1>2 DEF LoadBound
    <2>2. TypeOK'
      BY <1>1, <2>1, ReturnType, BeginType DEF TypeOK, memory
    <2> QED BY <1>1, <2>1, <2>2, ReturnType, ScanStepInv
  <1>3. CASE count # Absent
    <2>1. /\ pc' = [pc EXCEPT ![o] = "scan"]
          /\ bound' = [bound EXCEPT ![o] = count] /\ UNCHANGED <<idx, result>>
      BY <1>3 DEF LoadBound, Goto
    <2>2. TypeOK'
      BY <1>1, <1>3, <2>1, BeginType DEF TypeOK, memory, Steps
    <2> QED BY <1>1, <2>1, <2>2, ScanStepInv DEF TypeOK
  <1> QED BY <1>2, <1>3

LEMMA EndScanInv == ASSUME IInv, NEW o \in Gets \cup Deletes, EndScan(o) PROVE IInv'
  <1>1. o \in Ops /\ TypeOK /\ UNCHANGED <<memory, out, before, deleted>>
    BY DEF Ops, IInv, EndScan
  <1>2. PICK r \in {"nil", "notFound"} : Return(o, r)
    BY DEF EndScan
  <1>3. TypeOK'
    BY <1>1, <1>2, ReturnType DEF TypeOK, memory
  <1> QED BY <1>1, <1>2, <1>3, ReturnType, ScanStepInv

LEMMA CollectInv == ASSUME IInv, NEW g \in Gets, Collect(g) PROVE IInv'
  <1>1. /\ g \in Ops /\ g \notin Deletes /\ TypeOK /\ pc[g] = "scan"
        /\ out' = [out EXCEPT ![g] = Collected(g)] /\ idx' = [idx EXCEPT ![g] = @ + 1]
        /\ UNCHANGED <<count, reports, pc, bound, result, before, deleted>>
    BY OpsAssumption DEF Ops, IInv, Collect, memory
  <1>2. Collected(g) \in Seq(Puts)
    BY <1>1 DEF Collected, TypeOK
  <1>3. TypeOK'
    BY <1>1, <1>2 DEF TypeOK
  <1> QED BY <1>1, <1>3, ScanStepInv DEF TypeOK, memory

LEMMA ExamineInv == ASSUME IInv, NEW d \in Deletes, Examine(d) PROVE IInv'
  <1>1. /\ d \in Ops /\ Target[d] \in Puts /\ TypeOK /\ pc[d] = "scan"
        /\ UNCHANGED <<count, reports, bound, out, result, before, deleted>>
    BY OpsAssumption DEF Ops, IInv, Examine, memory
  <1>2. CASE idx[d] \in DOMAIN reports /\ reports[idx[d]] = Target[d]
    <2>1. pc' = [pc EXCEPT ![d] = "remove"] /\ idx' = idx
      BY <1>2 DEF Examine, Goto
    <2>2. TypeOK'
      BY <1>1, <2>1 DEF TypeOK, Steps
    <2>3. Stored(Target[d]) /\ idx[d] = idx[Target[d]]
      BY <1>2 DEF IInv, SlotsHoldTheirReports
    <2> QED BY <1>1, <2>1, <2>2, <2>3, ScanStepInv DEF TypeOK, memory
  <1>3. CASE ~(idx[d] \in DOMAIN reports /\ reports[idx[d]] = Target[d])
    <2>1. pc' = pc /\ idx' = [idx EXCEPT ![d] = @ + 1]
      BY <1>3 DEF Examine
    <2>2. TypeOK'
      BY <1>1, <2>1 DEF TypeOK
    <2> QED BY <1>1, <2>1, <2>2, ScanStepInv DEF TypeOK, memory
  <1> QED BY <1>2, <1>3
-------------------------------------------------------------------------------
\* A step of a Put leaves alone what the deletes have done and are about to do.
LEMMA PutStepKeepsDeletes ==
    ASSUME IInv, UNCHANGED deleted,
           \A d \in Deletes : pc'[d] = pc[d] /\ idx'[d] = idx[d],
           \A q \in Puts : Stored(q) => Stored(q)' /\ idx'[q] = idx[q],
           \A q \in deleted : idx[q] \notin DOMAIN reports'
    PROVE  DeletedLeftItsSlot' /\ RemovesAim'
  <1>1. DeletedLeftItsSlot'
    <2>1. SUFFICES ASSUME NEW p \in deleted
                   PROVE  /\ Stored(p)' /\ idx'[p] \notin DOMAIN reports'
                          /\ \E d \in Deletes : Target[d] = p /\ pc'[d] \in {"notify", "done"}
      BY DEF DeletedLeftItsSlot
    <2>2. p \in Puts /\ Stored(p)
      BY DEF IInv, TypeOK, DeletedLeftItsSlot
    <2>3. PICK d \in Deletes : Target[d] = p /\ pc[d] \in {"notify", "done"}
      BY DEF IInv, DeletedLeftItsSlot
    <2>4. pc'[d] \in {"notify", "done"}
      BY <2>3
    <2> QED BY <2>2, <2>3, <2>4
  <1>2. RemovesAim'
    BY OpsAssumption DEF IInv, RemovesAim
  <1> QED BY <1>1, <1>2

LEMMA LoadOrStoreCountInv == ASSUME IInv, NEW p \in Puts, LoadOrStoreCount(p) PROVE IInv'
  <1>1. /\ p \in Ops /\ TypeOK /\ pc[p] = "init" /\ pc' = [pc EXCEPT ![p] = "load"]
        /\ count' = Initialised /\ Begin(p)
        /\ UNCHANGED <<reports, idx, bound, out, result, deleted>>
    BY DEF Ops, IInv, LoadOrStoreCount, Goto
  <1>2. count' \in Nat /\ (count # Absent => count' = count)
    BY <1>1 DEF Initialised, TypeOK
  <1>3. TypeOK'
    BY <1>1, <1>2, BeginType DEF TypeOK, Steps
  <1>4. \A q \in Puts : (Claimed(q)' <=> Claimed(q)) /\ (Stored(q)' <=> Stored(q))
    BY <1>1 DEF TypeOK, Ops, Claimed, Stored
  <1>5. CountIsThere' /\ IndexesClaimedOnce'
    BY <1>1, <1>2, <1>4, AbsentAssumption DEF IInv, CountIsThere, IndexesClaimedOnce
  <1>6. SlotsHoldTheirReports' /\ StoredStays'
    BY <1>1, <1>4 DEF IInv, TypeOK, SlotsHoldTheirReports, StoredStays
  <1>7. /\ \A d \in Deletes : pc'[d] = pc[d] /\ idx'[d] = idx[d]
        /\ \A q \in deleted : idx[q] \notin DOMAIN reports'
    BY <1>1, OpsAssumption DEF TypeOK, Ops, IInv, DeletedLeftItsSlot
  <1>8. DeletedLeftItsSlot' /\ RemovesAim'
    BY <1>1, <1>4, <1>7, PutStepKeepsDeletes
  <1> QED BY <1>3, <1>5, <1>6, <1>8 DEF IInv

\* A Put that has not claimed its index may read or advance the count: it disturbs
\* nothing that is stored.
LEMMA ClaimingStepInv ==
    ASSUME IInv, TypeOK', NEW p \in Puts, UNCHANGED <<reports, deleted>>,
           pc[p] \in {"load", "cas"}, pc'[p] \in {"load", "cas", "store"},
           \A x \in Ops \ {p} : pc'[x] = pc[x] /\ idx'[x] = idx[x],
           count \in Nat, count' \in Nat, count' >= count,
           pc'[p] = "store" => idx'[p] = count /\ count' = count + 1
    PROVE  IInv'
  <1>1. /\ \A q \in Puts \ {p} : (Claimed(q)' <=> Claimed(q)) /\ idx'[q] = idx[q]
        /\ \A q \in Puts : (Stored(q)' <=> Stored(q)) /\ (Stored(q) => idx'[q] = idx[q])
    BY DEF Ops, Claimed, Stored
  <1>2. ~Claimed(p) /\ (Claimed(p)' => idx'[p] = count /\ count' = count + 1)
    BY DEF Claimed
  <1>3. CountIsThere'
    BY AbsentAssumption DEF CountIsThere
  <1>4. IndexesClaimedOnce'
    <2>1. \A q \in Puts \ {p} : Claimed(q)' => idx'[q] \in Nat /\ idx'[q] < count
      BY <1>1 DEF IInv, TypeOK, Ops, IndexesClaimedOnce
    <2>2. \A q, r \in Puts \ {p} : Claimed(q)' /\ Claimed(r)' /\ q # r => idx'[q] # idx'[r]
      BY <1>1 DEF IInv, IndexesClaimedOnce
    <2>3. \A q \in Puts : Claimed(q)' => count' # Absent /\ idx'[q] < count'
      BY <1>2, <2>1, AbsentAssumption
    <2> QED BY <1>2, <2>1, <2>2, <2>3 DEF IndexesClaimedOnce
  <1>5. SlotsHoldTheirReports' /\ StoredStays'
    BY <1>1 DEF IInv, TypeOK, SlotsHoldTheirReports, StoredStays
  <1>6. /\ \A d \in Deletes : pc'[d] = pc[d] /\ idx'[d] = idx[d]
        /\ \A q \in deleted : idx[q] \notin DOMAIN reports'
    BY OpsAssumption DEF Ops, IInv, DeletedLeftItsSlot
  <1>7. DeletedLeftItsSlot' /\ RemovesAim'
    BY <1>1, <1>6, PutStepKeepsDeletes
  <1> QED BY <1>3, <1>4, <1>5, <1>7 DEF IInv

LEMMA LoadCountInv == ASSUME IInv, NEW p \in Puts, LoadCount(p) PROVE IInv'
  <1>1. /\ p \in Ops /\ TypeOK /\ pc[p] = "load"
        /\ pc' = [pc EXCEPT ![p] = "cas"] /\ idx' = [idx EXCEPT ![p] = count]
        /\ UNCHANGED <<count, reports, bound, out, result, before, deleted>>
    BY DEF Ops, IInv, LoadCount, Goto, memory
  <1>2. count \in Nat
    BY <1>1 DEF IInv, TypeOK, CountIsThere
  <1>3. TypeOK'
    BY <1>1, <1>2 DEF TypeOK, Steps
  <1> QED BY <1>1, <1>2, <1>3, ClaimingStepInv DEF TypeOK

LEMMA CompareAndSwapInv == ASSUME IInv, NEW p \in Puts, CompareAndSwap(p) PROVE IInv'
  <1>1. /\ p \in Ops /\ TypeOK /\ pc[p] = "cas"
        /\ UNCHANGED <<reports, idx, bound, out, result, before, deleted>>
    BY DEF Ops, IInv, CompareAndSwap
  <1>2. count \in Nat
    BY <1>1 DEF IInv, TypeOK, CountIsThere
  <1>3. CASE StillCurrent(p)
    <2>1. count = idx[p] /\ count' = count + 1 /\ pc' = [pc EXCEPT ![p] = "store"]
      BY <1>3 DEF StillCurrent, CompareAndSwap, Goto
    <2>2. TypeOK'
      BY <1>1, <1>2, <2>1 DEF TypeOK, Steps
    <2> QED BY <1>1, <1>2, <2>1, <2>2, ClaimingStepInv DEF TypeOK
  <1>4. CASE ~StillCurrent(p)
    <2>1. count' = count /\ pc' = [pc EXCEPT ![p] = "load"]
      BY <1>4 DEF CompareAndSwap, Retry, Goto
    <2>2. TypeOK'
      BY <1>1, <2>1 DEF TypeOK, Steps
    <2> QED BY <1>1, <1>2, <2>1, <2>2, ClaimingStepInv DEF TypeOK
  <1> QED BY <1>3, <1>4

\* The slot a Put writes to is its own, and is empty.
LEMMA StoreReportInv == ASSUME IInv, NEW p \in Puts, StoreReport(p) PROVE IInv'
  <1>1. /\ p \in Ops /\ TypeOK /\ pc[p] = "store" /\ idx[p] \in Nat
        /\ pc' = [pc EXCEPT ![p] = "notify"] /\ reports' = Store(reports, idx[p], p)
        /\ UNCHANGED <<count, idx, bound, out, result, before, deleted>>
    BY DEF Ops, IInv, TypeOK, StoreReport, Goto
  <1>2. /\ DOMAIN reports' = DOMAIN reports \cup {idx[p]} /\ reports'[idx[p]] = p
        /\ \A i \in DOMAIN reports : i # idx[p] => reports'[i] = reports[i]
    BY <1>1 DEF Store
  <1>3. TypeOK'
    <2>1. reports' \in [DOMAIN reports' -> Puts]
      BY <1>1, <1>2, StoreType DEF TypeOK
    <2> QED BY <1>1, <1>2, <2>1 DEF TypeOK, Steps
  <1>4. /\ \A q \in Puts : Claimed(q)' <=> Claimed(q)
        /\ \A q \in Puts : Stored(q)' <=> Stored(q) \/ q = p
        /\ ~Stored(p) /\ p \notin deleted
    BY <1>1 DEF TypeOK, Ops, Claimed, Stored, IInv, DeletedLeftItsSlot
  <1>5. \A q \in Puts : Stored(q) => idx[q] # idx[p]
    BY <1>1, <1>4 DEF IInv, IndexesClaimedOnce, Claimed, Stored
  <1>6. (CountIsThere /\ IndexesClaimedOnce)'
    BY <1>1, <1>4 DEF IInv, TypeOK, Ops, CountIsThere, IndexesClaimedOnce
  <1>7. SlotsHoldTheirReports' /\ StoredStays'
    BY <1>1, <1>2, <1>4, <1>5 DEF IInv, TypeOK, SlotsHoldTheirReports, StoredStays
  <1>8. /\ \A d \in Deletes : pc'[d] = pc[d] /\ idx'[d] = idx[d]
        /\ \A q \in deleted : idx[q] \notin DOMAIN reports'
    <2>1. \A d \in Deletes : pc'[d] = pc[d] /\ idx'[d] = idx[d]
      BY <1>1, OpsAssumption DEF TypeOK, Ops
    <2>2. \A q \in deleted : q \in Puts /\ Stored(q) /\ idx[q] \notin DOMAIN reports
      BY <1>1 DEF TypeOK, IInv, DeletedLeftItsSlot
    <2> QED BY <1>2, <1>5, <2>1, <2>2
  <1>9. DeletedLeftItsSlot' /\ RemovesAim'
    BY <1>1, <1>4, <1>8, PutStepKeepsDeletes
  <1> QED BY <1>3, <1>6, <1>7, <1>9 DEF IInv

\* What a delete removes is the report it was asked for, or nothing if another
\* delete was faster.
LEMMA RemoveTakesTarget ==
    ASSUME IInv, NEW d \in Deletes, pc[d] = "remove", idx[d] \in DOMAIN reports
    PROVE  reports[idx[d]] = Target[d]
  <1>1. Target[d] \in Puts /\ reports[idx[d]] \in Puts
    BY OpsAssumption DEF IInv, TypeOK
  <1>2. /\ Claimed(Target[d]) /\ Claimed(reports[idx[d]])
        /\ idx[Target[d]] = idx[reports[idx[d]]]
    BY DEF IInv, SlotsHoldTheirReports, RemovesAim, Stored, Claimed
  <1> QED BY <1>1, <1>2 DEF IInv, IndexesClaimedOnce

LEMMA RemoveInv == ASSUME IInv, NEW d \in Deletes, Remove(d) PROVE IInv'
  <1> DEFINE t == Target[d]
  <1>1. /\ d \in Ops /\ d \notin Puts /\ t \in Puts /\ TypeOK /\ pc[d] = "remove"
        /\ pc' = [pc EXCEPT ![d] = "notify"] /\ reports' = Delete(reports, idx[d])
        /\ UNCHANGED <<count, idx, bound, out, result, before>>
    BY OpsAssumption DEF Ops, IInv, Remove, Goto
  <1>2. Stored(t) /\ idx[t] = idx[d]
    BY <1>1 DEF IInv, RemovesAim
  <1>3. deleted' = deleted \cup {t}
    <2>1. CASE idx[d] \in DOMAIN reports
      BY <1>1, <2>1, RemoveTakesTarget DEF Remove
    <2>2. CASE idx[d] \notin DOMAIN reports
      <3>1. t \in deleted
        BY <1>1, <1>2, <2>2 DEF IInv, StoredStays
      <3> QED BY <2>2, <3>1 DEF Remove
    <2> QED BY <2>1, <2>2
  <1>4. /\ DOMAIN reports' = DOMAIN reports \ {idx[d]}
        /\ \A i \in DOMAIN reports' : reports'[i] = reports[i]
    BY <1>1, DeleteFacts
  <1>5. TypeOK'
    <2>1. reports' \in [DOMAIN reports' -> Puts]
      BY <1>1, <1>4, DeleteType DEF TypeOK
    <2> QED BY <1>1, <1>3, <1>4, <2>1 DEF TypeOK, Steps
  <1>6. \A q \in Puts : pc'[q] = pc[q]
    BY <1>1 DEF TypeOK, Ops
  <1>7. (CountIsThere /\ IndexesClaimedOnce)'
    BY <1>1, <1>6 DEF IInv, CountIsThere, IndexesClaimedOnce, Claimed
  <1>8. \A q \in Puts : Stored(q) /\ q # t => idx[q] # idx[d]
    BY <1>1, <1>2 DEF IInv, IndexesClaimedOnce, Claimed, Stored
  <1>9. SlotsHoldTheirReports' /\ StoredStays'
    BY <1>1, <1>3, <1>4, <1>6, <1>8 DEF IInv, TypeOK, SlotsHoldTheirReports, StoredStays, Stored
  <1>10. DeletedLeftItsSlot'
    <2>1. SUFFICES ASSUME NEW p \in deleted'
                   PROVE  /\ Stored(p)' /\ idx'[p] \notin DOMAIN reports'
                          /\ \E x \in Deletes : Target[x] = p /\ pc'[x] \in {"notify", "done"}
      BY DEF DeletedLeftItsSlot
    <2>2. CASE p = t
      BY <1>1, <1>2, <1>4, <1>6, <2>2 DEF TypeOK, Stored
    <2>3. CASE p # t
      <3>1. p \in deleted /\ p \in Puts /\ Stored(p) /\ idx[p] \notin DOMAIN reports
        BY <1>3, <2>3 DEF IInv, TypeOK, DeletedLeftItsSlot
      <3>2. PICK x \in Deletes : Target[x] = p /\ pc[x] \in {"notify", "done"}
        BY <3>1 DEF IInv, DeletedLeftItsSlot
      <3>3. pc'[x] \in {"notify", "done"}
        BY <1>1, <3>2 DEF TypeOK, Ops
      <3> QED BY <1>1, <1>4, <1>6, <3>1, <3>2, <3>3 DEF Stored
    <2> QED BY <2>2, <2>3
  <1>11. RemovesAim'
    BY <1>1, <1>6, OpsAssumption DEF IInv, TypeOK, Ops, RemovesAim, Stored
  <1> QED BY <1>5, <1>7, <1>9, <1>10, <1>11 DEF IInv

LEMMA NotifyInv == ASSUME IInv, NEW o \in Puts \cup Deletes, Notify(o) PROVE IInv'
  <1>1. /\ o \in Ops /\ TypeOK /\ pc[o] = "notify" /\ Return(o, "nil")
        /\ UNCHANGED <<count, reports, out, before, deleted>>
    BY DEF Ops, IInv, Notify, memory
  <1>2. TypeOK'
    BY <1>1, ReturnType DEF TypeOK
  <1>3. CASE o \in Deletes
    BY <1>1, <1>2, <1>3, ReturnType, ScanStepInv DEF memory
  <1>4. CASE o \in Puts
    <2>1. \A q \in Puts : /\ idx'[q] = idx[q]
                         /\ (Claimed(q)' <=> Claimed(q)) /\ (Stored(q)' <=> Stored(q))
                         /\ (pc'[q] = "init" <=> pc[q] = "init")
      BY <1>1, <1>4, ReturnType DEF Ops, Claimed, Stored
    <2>2. /\ \A d \in Deletes : pc'[d] = pc[d] /\ idx'[d] = idx[d]
          /\ \A q \in deleted : idx[q] \notin DOMAIN reports'
      BY <1>1, <1>4, ReturnType, OpsAssumption DEF Ops, IInv, DeletedLeftItsSlot
    <2>3. CountIsThere' /\ IndexesClaimedOnce'
      BY <1>1, <2>1 DEF IInv, CountIsThere, IndexesClaimedOnce
    <2>4. SlotsHoldTheirReports' /\ StoredStays'
      BY <1>1, <2>1 DEF IInv, TypeOK, SlotsHoldTheirReports, StoredStays
    <2>5. DeletedLeftItsSlot' /\ RemovesAim'
      BY <1>1, <2>1, <2>2, PutStepKeepsDeletes
    <2> QED BY <1>2, <2>3, <2>4, <2>5 DEF IInv
  <1> QED BY <1>3, <1>4

LEMMA StutterInv == IInv /\ UNCHANGED vars => IInv'
  BY DEF vars, memory, locals, IInv, TypeOK, CountIsThere, IndexesClaimedOnce,
         SlotsHoldTheirReports, StoredStays, DeletedLeftItsSlot, RemovesAim, Claimed, Stored

LEMMA NextInv == IInv /\ [Next]_vars => IInv'
  <1> SUFFICES ASSUME IInv, [Next]_vars PROVE IInv'
    OBVIOUS
  <1>1. ASSUME NEW p \in Puts, PutStep(p) PROVE IInv'
    BY <1>1, LoadOrStoreCountInv, LoadCountInv, CompareAndSwapInv, StoreReportInv, NotifyInv
       DEF PutStep
  <1>2. ASSUME NEW g \in Gets, GetStep(g) PROVE IInv'
    BY <1>2, LoadBoundInv, CollectInv, EndScanInv DEF GetStep
  <1>3. ASSUME NEW d \in Deletes, DeleteStep(d) PROVE IInv'
    BY <1>3, LoadBoundInv, ExamineInv, EndScanInv, RemoveInv, NotifyInv DEF DeleteStep
  <1> QED BY <1>1, <1>2, <1>3, StutterInv DEF Next

LEMMA Invariant == Spec => []IInv
  BY InitInv, NextInv, PTL DEF Spec

\* Whatever Puts, Gets and Deletes run at once, the state has its types.
THEOREM TypeCorrect == Spec => []TypeOK
  <1>1. IInv => TypeOK
    BY DEF IInv
  <1> QED BY <1>1, Invariant, PTL

\* No two Puts claim one index, and every claimed index is below the count.
THEOREM ClaimsAreUnique == Spec => []IndexesClaimedOnce
  <1>1. IInv => IndexesClaimedOnce
    BY DEF IInv
  <1> QED BY <1>1, Invariant, PTL

\* "No report is ever lost": a stored report stays at its index until a delete of
\* that very report removes it.
THEOREM NoneLost == Spec => []NoReportLost
  <1>1. IInv => NoReportLost
    BY DEF IInv, NoReportLost, StoredStays, DeletedLeftItsSlot
  <1> QED BY <1>1, Invariant, PTL
-------------------------------------------------------------------------------
(***************************************************************************)
(* The refinement of ReportBook: only a Put's Store adds a report, only a  *)
(* Remove takes one away, and every other step stutters.                   *)
(***************************************************************************)
LEMMA StoreIsPut == ASSUME IInv, NEW p \in Puts, StoreReport(p) PROVE Book!Put(p)
  <1>1. /\ TypeOK /\ pc[p] = "store" /\ deleted' = deleted
        /\ reports' = Store(reports, idx[p], p)
    BY DEF IInv, StoreReport
  <1>2. ~Stored(p)
    BY <1>1 DEF Stored
  <1>3. p \notin Range(reports) /\ p \notin deleted
    BY <1>2 DEF IInv, SlotsHoldTheirReports, DeletedLeftItsSlot, Range
  <1>4. idx[p] \notin DOMAIN reports
    <2>1. SUFFICES ASSUME idx[p] \in DOMAIN reports PROVE FALSE
      OBVIOUS
    <2>2. /\ reports[idx[p]] \in Puts /\ Claimed(reports[idx[p]])
          /\ reports[idx[p]] # p /\ idx[reports[idx[p]]] = idx[p]
      BY <1>1, <1>2, <2>1 DEF TypeOK, IInv, SlotsHoldTheirReports, Stored, Claimed
    <2> QED BY <1>1, <2>2 DEF IInv, IndexesClaimedOnce, Claimed
  <1>5. Range(reports') = Range(reports) \cup {p}
    BY <1>1, <1>4 DEF Store, Range
  <1> QED BY <1>1, <1>3, <1>5 DEF Book!Put

LEMMA RemoveIsDelete ==
    ASSUME IInv, NEW d \in Deletes, Remove(d)
    PROVE  Book!Delete(Target[d]) \/ UNCHANGED Book!vars
  <1>1. pc[d] = "remove" /\ reports' = Delete(reports, idx[d])
    BY DEF Remove
  <1>2. CASE idx[d] \notin DOMAIN reports
    <2>1. Range(reports') = Range(reports)
      BY <1>1, <1>2 DEF Delete, Restrict, Range
    <2> QED BY <1>2, <2>1 DEF Remove, Book!vars
  <1>3. CASE idx[d] \in DOMAIN reports
    <2>1. reports[idx[d]] = Target[d]
      BY <1>1, <1>3, RemoveTakesTarget
    <2>2. deleted' = deleted \cup {Target[d]}
      BY <1>3, <2>1 DEF Remove
    <2>3. \A i \in DOMAIN reports : reports[i] = Target[d] => i = idx[d]
      BY <1>3, <2>1 DEF IInv, SlotsHoldTheirReports
    <2>4. Range(reports') = Range(reports) \ {Target[d]}
      BY <1>1, <2>1, <2>3 DEF Delete, Restrict, Range
    <2>5. Target[d] \in Range(reports)
      BY <1>3, <2>1 DEF Range
    <2> QED BY <2>2, <2>4, <2>5 DEF Book!Delete
  <1> QED BY <1>2, <1>3

LEMMA RefinesNext == IInv /\ [Next]_vars => [Book!Next]_(Book!vars)
  <1> SUFFICES ASSUME IInv, [Next]_vars PROVE Book!Next \/ UNCHANGED Book!vars
    OBVIOUS
  <1> USE DEF Book!vars, memory
  <1>1. ASSUME NEW p \in Puts, PutStep(p) PROVE Book!Next \/ UNCHANGED Book!vars
    BY <1>1, StoreIsPut
       DEF PutStep, LoadOrStoreCount, LoadCount, CompareAndSwap, Notify, Book!Next
  <1>2. ASSUME NEW g \in Gets, GetStep(g) PROVE UNCHANGED Book!vars
    BY <1>2 DEF GetStep, LoadBound, Collect, EndScan
  <1>3. ASSUME NEW d \in Deletes, DeleteStep(d) PROVE Book!Next \/ UNCHANGED Book!vars
    BY <1>3, RemoveIsDelete, OpsAssumption
       DEF DeleteStep, LoadBound, Examine, EndScan, Notify, Book!Next
  <1>4. UNCHANGED vars => UNCHANGED Book!vars
    BY DEF vars
  <1> QED BY <1>1, <1>2, <1>3, <1>4 DEF Next

\* The lock-free maps implement the book: every report is stored at most once and a
\* deleted one never comes back.
THEOREM Refinement == Spec => ImplementsReportBook
  <1>1. Init => Book!Init
    BY DEF Init, Book!Init, Range
  <1> QED BY <1>1, RefinesNext, Invariant, PTL DEF Spec, ImplementsReportBook, Book!Spec
--------------------------------------------------------------------------------
(***************************************************************************)
(* What a scan of the maps finds, however it interleaves with Puts and     *)
(* Deletes: a Get returns every report that was filed when it began, once  *)
(* and in order, and a Delete overlooks none.                              *)
(*                                                                         *)
(* A report filed before the scan began has an index below the bound the   *)
(* scan has read; when the loop variable has gone past that index, the     *)
(* report has been dealt with (MissesNothing).  The reports collected      *)
(* have ascending indexes (Ascends), and indexes are claimed in the order  *)
(* of Puts that follow one another (BeforeIsEarlier).                      *)
(***************************************************************************)
Scans == Gets \cup Deletes

BeforeHasReturned == \A o \in Ops : \A p \in before[o] : pc[p] = "done"

BeforeIsEarlier ==
    \A p, q \in Puts :
      p \in before[q] /\ pc[q] \in {"cas", "store", "notify", "done"} => idx[p] < idx[q]

Fresh(o) ==
    /\ pc[o] = "load" => idx[o] = 0 /\ (o \in Gets => out[o] = <<>>)
    /\ pc[o] # "done" => result[o] = "none"

\* Scan o has dealt with report p, or need not.
Passed(o, p) ==
    \/ p \in deleted
    \/ o \in Gets /\ p \in Range(out[o])
    \/ o \in Deletes /\ p # Target[o]

MissesNothing(o) ==
    \A p \in before[o] :
      /\ pc[o] = "scan" => idx[p] < bound[o] /\ (idx[p] < idx[o] => Passed(o, p))
      /\ pc[o] = "done" /\ (o \in Deletes => result[o] = "notFound") => Passed(o, p)

Ascends(g) ==
    /\ \A i \in DOMAIN out[g] :
         Stored(out[g][i]) /\ (pc[g] = "scan" => idx[out[g][i]] < idx[g])
    /\ \A i, j \in DOMAIN out[g] : i < j => idx[out[g][i]] < idx[out[g][j]]

ScanInv(o) == Fresh(o) /\ MissesNothing(o) /\ (o \in Gets => Ascends(o))

SInv == BeforeHasReturned /\ BeforeIsEarlier /\ \A o \in Scans : ScanInv(o)
-------------------------------------------------------------------------------
LEMMA InitScan == Init => SInv
  BY DEF Init, SInv, BeforeHasReturned, BeforeIsEarlier, Scans, ScanInv, Fresh,
         MissesNothing, Ascends, Ops

\* Reports that were filed when an op began keep their index and stay filed.
LEMMA BeforeFacts ==
    ASSUME IInv, SInv, NEW o \in Ops, NEW p \in before[o]
    PROVE  p \in Puts /\ Stored(p) /\ idx[p] \in Nat
  BY DEF IInv, TypeOK, SInv, BeforeHasReturned, Stored, Ops

LEMMA OutFacts ==
    ASSUME IInv, NEW g \in Gets
    PROVE  /\ out[g] \in Seq(Puts) /\ Len(out[g]) \in Nat /\ DOMAIN out[g] = 1..Len(out[g])
           /\ \A i \in DOMAIN out[g] : out[g][i] \in Puts /\ idx[out[g][i]] \in Nat
  <1>1. out[g] \in Seq(Puts) /\ \A p \in Puts : idx[p] \in Nat
    BY DEF IInv, TypeOK, Ops
  <1> QED BY <1>1

\* A scan that does not move is none the worse for what the others do.
LEMMA ScanInvStable ==
    ASSUME IInv, SInv, NEW o \in Scans,
           pc'[o] = pc[o], idx'[o] = idx[o], bound'[o] = bound[o],
           result'[o] = result[o], before'[o] = before[o],
           o \in Gets => out'[o] = out[o],
           deleted \subseteq deleted',
           \A q \in Puts : Stored(q) => Stored(q)' /\ idx'[q] = idx[q]
    PROVE  ScanInv(o)'
  <1>1. ScanInv(o) /\ o \in Ops
    BY DEF SInv, Scans, Ops
  <1>2. Fresh(o)'
    BY <1>1 DEF ScanInv, Fresh
  <1>3. MissesNothing(o)'
    <2>1. \A p \in before[o] : idx'[p] = idx[p] /\ (Passed(o, p) => Passed(o, p)')
      BY <1>1, BeforeFacts DEF Passed
    <2> QED BY <1>1, <2>1 DEF ScanInv, MissesNothing
  <1>4. ASSUME o \in Gets PROVE Ascends(o)'
    <2>1. \A i \in DOMAIN out[o] : Stored(out[o][i])' /\ idx'[out[o][i]] = idx[out[o][i]]
      BY <1>1, <1>4, OutFacts DEF ScanInv, Ascends
    <2> QED BY <1>1, <1>4, <2>1 DEF ScanInv, Ascends
  <1> QED BY <1>2, <1>3, <1>4 DEF ScanInv
-------------------------------------------------------------------------------
(***************************************************************************)
(* The steps of a Put.                                                     *)
(***************************************************************************)
LEMMA PutFrame ==
    ASSUME IInv, NEW p \in Puts, PutStep(p)
    PROVE  /\ pc[p] # "done" /\ UNCHANGED <<out, deleted>>
           /\ \A x \in Ops \ {p} : /\ pc'[x] = pc[x] /\ idx'[x] = idx[x]
                                   /\ bound'[x] = bound[x] /\ result'[x] = result[x]
                                   /\ before'[x] = before[x]
           /\ before'[p] \in {before[p], Returned}
           /\ pc'[p] \in {"cas", "store", "notify", "done"} =>
                /\ before'[p] = before[p]
                /\ \/ idx'[p] = count /\ count \in Nat
                   \/ idx'[p] = idx[p] /\ pc[p] \in {"cas", "store", "notify"}
           /\ Stored(p) => Stored(p)' /\ idx'[p] = idx[p]
  <1> USE DEF IInv, TypeOK, Ops
  <1>1. CASE LoadOrStoreCount(p)
    BY <1>1 DEF LoadOrStoreCount, Goto, Begin, Stored
  <1>2. CASE LoadCount(p)
    BY <1>2 DEF LoadCount, Goto, Stored, CountIsThere
  <1>3. CASE CompareAndSwap(p)
    BY <1>3 DEF CompareAndSwap, Goto, Retry, Stored
  <1>4. CASE StoreReport(p)
    BY <1>4 DEF StoreReport, Goto, Stored
  <1>5. CASE Notify(p)
    BY <1>5 DEF Notify, Return, Goto, Stored
  <1> QED BY <1>1, <1>2, <1>3, <1>4, <1>5 DEF PutStep

LEMMA PutStepScan == ASSUME IInv, SInv, NEW p \in Puts, PutStep(p) PROVE SInv'
  <1>1. /\ pc[p] # "done" /\ UNCHANGED <<out, deleted>>
        /\ \A x \in Ops \ {p} : /\ pc'[x] = pc[x] /\ idx'[x] = idx[x]
                                /\ bound'[x] = bound[x] /\ result'[x] = result[x]
                                /\ before'[x] = before[x]
        /\ before'[p] \in {before[p], Returned}
        /\ pc'[p] \in {"cas", "store", "notify", "done"} =>
             /\ before'[p] = before[p]
             /\ \/ idx'[p] = count /\ count \in Nat
                \/ idx'[p] = idx[p] /\ pc[p] \in {"cas", "store", "notify"}
        /\ Stored(p) => Stored(p)' /\ idx'[p] = idx[p]
    BY PutFrame
  <1>2. \A q \in Puts : /\ Stored(q) => Stored(q)' /\ idx'[q] = idx[q]
                        /\ pc[q] = "done" => pc'[q] = "done"
    BY <1>1 DEF Ops, Stored
  <1>3. BeforeHasReturned'
    <2>1. \A q \in Returned : q \in Puts /\ pc[q] = "done"
      BY DEF Returned
    <2>2. \A o \in Ops : before'[o] \in {before[o], Returned}
      BY <1>1
    <2>3. \A o \in Ops : \A q \in before[o] : q \in Puts /\ pc[q] = "done"
      BY BeforeFacts DEF SInv, BeforeHasReturned
    <2> QED BY <1>2, <2>1, <2>2, <2>3 DEF BeforeHasReturned
  <1>4. BeforeIsEarlier'
    <2>1. SUFFICES ASSUME NEW r \in Puts, NEW q \in Puts, r \in before'[q],
                          pc'[q] \in {"cas", "store", "notify", "done"}
                   PROVE  idx'[r] < idx'[q]
      BY DEF BeforeIsEarlier
    <2>2. before'[q] = before[q]
      BY <1>1, <2>1 DEF Ops
    <2>3. Stored(r) /\ idx'[r] = idx[r]
      BY <1>2, <2>1, <2>2, BeforeFacts DEF Ops
    <2>4. CASE idx'[q] = idx[q] /\ pc[q] \in {"cas", "store", "notify", "done"}
      BY <2>1, <2>2, <2>3, <2>4 DEF SInv, BeforeIsEarlier
    <2>5. CASE idx'[q] = count
      BY <2>3, <2>5 DEF IInv, IndexesClaimedOnce, Stored, Claimed
    <2> QED BY <1>1, <2>1, <2>4, <2>5 DEF Ops
  <1>5. \A o \in Scans : o \in Ops \ {p}
    BY OpsAssumption DEF Scans, Ops
  <1>6. \A o \in Scans : ScanInv(o)'
    BY <1>1, <1>2, <1>5, ScanInvStable
  <1> QED BY <1>3, <1>4, <1>6 DEF SInv
-------------------------------------------------------------------------------
(***************************************************************************)
(* The steps of a Get or a Delete: the scan itself.                        *)
(***************************************************************************)
LEMMA BeginScan ==
    ASSUME IInv, SInv, NEW o \in Scans, LoadBound(o)
    PROVE  ScanInv(o)'
  <1>1. /\ o \in Ops /\ pc[o] = "load" /\ idx[o] = 0 /\ result[o] = "none"
        /\ o \in Gets => out[o] = <<>>
        /\ UNCHANGED <<count, reports, out, deleted>> /\ before'[o] = Returned
    BY DEF IInv, TypeOK, SInv, ScanInv, Fresh, Scans, Ops, LoadBound, Begin, memory
  <1>2. CASE count = Absent
    <2>1. Returned = {}
      BY <1>2 DEF Returned, IInv, CountIsThere
    <2>2. pc'[o] = "done"
      BY <1>1, <1>2 DEF LoadBound, Return, Goto, IInv, TypeOK
    <2> QED BY <1>1, <2>1, <2>2 DEF ScanInv, Fresh, MissesNothing, Ascends
  <1>3. CASE count # Absent
    <2>1. /\ pc'[o] = "scan" /\ bound'[o] = count /\ idx'[o] = 0 /\ result'[o] = "none"
          /\ \A p \in Puts : idx'[p] = idx[p]
      BY <1>1, <1>3 DEF LoadBound, Goto, IInv, TypeOK, Ops
    <2>2. \A p \in Returned : p \in Puts /\ idx[p] \in Nat /\ idx[p] < count
      BY DEF Returned, IInv, TypeOK, Ops, IndexesClaimedOnce, Claimed
    <2> QED BY <1>1, <2>1, <2>2 DEF ScanInv, Fresh, MissesNothing, Ascends
  <1> QED BY <1>2, <1>3

\* The one report a scan could overlook in a turn of its loop is the one whose index
\* it has reached: that report is in its slot, or deleted.
LEMMA ReachedIsThere ==
    ASSUME IInv, SInv, NEW o \in Scans, NEW p \in before[o], idx[p] = idx[o]
    PROVE  \/ p \in deleted
           \/ idx[o] \in DOMAIN reports /\ reports[idx[o]] = p
  BY BeforeFacts DEF IInv, StoredStays, Scans, Ops

LEMMA CollectScan == ASSUME IInv, SInv, NEW g \in Gets, Collect(g) PROVE ScanInv(g)'
  <1>1. /\ g \in Scans /\ g \in Ops /\ g \notin Deletes /\ ScanInv(g) /\ idx[g] \in Nat
        /\ bound[g] \in Nat /\ pc[g] = "scan" /\ idx[g] < bound[g]
    BY OpsAssumption DEF Collect, MoreToScan, IInv, TypeOK, SInv, Scans, Ops
  <1>2. /\ out'[g] = Collected(g) /\ idx'[g] = idx[g] + 1
        /\ \A p \in Puts : idx'[p] = idx[p]
        /\ UNCHANGED <<pc, bound, result, before, deleted>>
    BY <1>1, OpsAssumption DEF Collect, IInv, TypeOK, Ops
  <1>3. CASE idx[g] \notin DOMAIN reports
    <2>1. out'[g] = out[g]
      BY <1>2, <1>3 DEF Collected
    <2>2. MissesNothing(g)'
      <3>1. SUFFICES ASSUME NEW p \in before[g], idx[p] < idx[g] + 1 PROVE Passed(g, p)'
        BY <1>1, <1>2, BeforeFacts DEF MissesNothing, ScanInv
      <3>2. CASE idx[p] < idx[g]
        BY <1>1, <1>2, <2>1, <3>2 DEF MissesNothing, ScanInv, Passed
      <3>3. CASE idx[p] = idx[g]
        BY <1>1, <1>2, <1>3, <3>3, ReachedIsThere DEF Passed
      <3> QED BY <1>1, <3>1, <3>2, <3>3, BeforeFacts
    <2>3. Ascends(g)'
      BY <1>1, <1>2, <2>1, OutFacts DEF ScanInv, Ascends, Stored
    <2> QED BY <1>1, <1>2, <2>2, <2>3 DEF ScanInv, Fresh
  <1>4. CASE idx[g] \in DOMAIN reports
    <2> DEFINE r == reports[idx[g]]
               s == out[g]
    <2>1. r \in Puts /\ Stored(r) /\ idx[r] = idx[g]
      BY <1>4 DEF IInv, TypeOK, SlotsHoldTheirReports
    <2>2. out'[g] = Append(s, r) /\ s \in Seq(Puts)
      BY <1>2, <1>4, OutFacts DEF Collected
    <2>3. /\ DOMAIN out'[g] = DOMAIN s \cup {Len(s) + 1} /\ DOMAIN s = 1..Len(s)
          /\ Len(s) \in Nat /\ out'[g][Len(s) + 1] = r
          /\ \A i \in DOMAIN s : out'[g][i] = s[i]
      <3> HIDE DEF r, s
      <3> QED BY <2>1, <2>2
    <2>4. Range(s) \subseteq Range(out'[g]) /\ r \in Range(out'[g])
      <3> HIDE DEF r, s
      <3> QED BY <2>3 DEF Range
    <2>5. MissesNothing(g)'
      <3>1. SUFFICES ASSUME NEW p \in before[g], idx[p] < idx[g] + 1 PROVE Passed(g, p)'
        BY <1>1, <1>2, BeforeFacts DEF MissesNothing, ScanInv
      <3>2. CASE idx[p] < idx[g]
        BY <1>1, <1>2, <2>4, <3>2 DEF MissesNothing, ScanInv, Passed
      <3>3. CASE idx[p] = idx[g]
        BY <1>1, <1>2, <2>4, <3>3, ReachedIsThere DEF Passed
      <3> QED BY <1>1, <3>1, <3>2, <3>3, BeforeFacts
    <2>6. /\ \A i \in DOMAIN s : /\ s[i] \in Puts /\ Stored(s[i]) /\ idx[s[i]] < idx[g]
                               /\ idx[s[i]] \in Nat
          /\ \A i, j \in DOMAIN s : i < j => idx[s[i]] < idx[s[j]]
      BY <1>1, OutFacts DEF ScanInv, Ascends
    <2>7. Ascends(g)'
      <3> HIDE DEF r, s
      <3>1. \A i \in DOMAIN out'[g] : Stored(out'[g][i]) /\ out'[g][i] \in Puts
                                     /\ idx[out'[g][i]] < idx[g] + 1
        BY <1>1, <2>1, <2>3, <2>6
      <3>2. \A i, j \in DOMAIN out'[g] : i < j => idx[out'[g][i]] < idx[out'[g][j]]
        BY <1>1, <2>1, <2>3, <2>6
      <3> QED BY <1>2, <3>1, <3>2 DEF Ascends, Stored
    <2> QED BY <1>1, <1>2, <2>5, <2>7 DEF ScanInv, Fresh
  <1> QED BY <1>3, <1>4

LEMMA ExamineScan == ASSUME IInv, SInv, NEW d \in Deletes, Examine(d) PROVE ScanInv(d)'
  <1>1. /\ d \in Scans /\ d \in Ops /\ d \notin Gets /\ ScanInv(d) /\ idx[d] \in Nat
        /\ pc[d] = "scan" /\ UNCHANGED <<memory, bound, out, result, before, deleted>>
    BY OpsAssumption DEF Examine, IInv, TypeOK, SInv, Scans, Ops
  <1>2. CASE idx[d] \in DOMAIN reports /\ reports[idx[d]] = Target[d]
    <2>1. pc'[d] = "remove"
      BY <1>1, <1>2 DEF Examine, Goto, IInv, TypeOK
    <2> QED BY <1>1, <2>1 DEF ScanInv, Fresh, MissesNothing
  <1>3. CASE ~(idx[d] \in DOMAIN reports /\ reports[idx[d]] = Target[d])
    <2>1. /\ pc' = pc /\ idx'[d] = idx[d] + 1
          /\ \A p \in Puts : idx'[p] = idx[p]
      BY <1>1, <1>3, OpsAssumption DEF Examine, IInv, TypeOK, Ops
    <2>2. MissesNothing(d)'
      <3>1. SUFFICES ASSUME NEW p \in before[d], idx[p] < idx[d] + 1 PROVE Passed(d, p)
        BY <1>1, <2>1, BeforeFacts DEF MissesNothing, ScanInv, Passed
      <3>2. CASE idx[p] < idx[d]
        BY <1>1, <3>2 DEF MissesNothing, ScanInv
      <3>3. CASE idx[p] = idx[d]
        BY <1>1, <1>3, <3>3, ReachedIsThere DEF Passed
      <3> QED BY <1>1, <3>1, <3>2, <3>3, BeforeFacts
    <2> QED BY <1>1, <2>1, <2>2 DEF ScanInv, Fresh
  <1> QED BY <1>2, <1>3

LEMMA EndScanScan == ASSUME IInv, SInv, NEW o \in Scans, EndScan(o) PROVE ScanInv(o)'
  <1>1. /\ o \in Ops /\ o \notin Puts /\ ScanInv(o) /\ pc[o] = "scan"
        /\ idx[o] \in Nat /\ bound[o] \in Nat /\ bound[o] <= idx[o]
        /\ UNCHANGED <<out, before, deleted>>
    BY OpsAssumption DEF EndScan, MoreToScan, IInv, TypeOK, SInv, Scans, Ops
  <1>2. pc'[o] = "done" /\ \A p \in Puts : pc'[p] = pc[p] /\ idx'[p] = idx[p]
    BY <1>1 DEF EndScan, Return, Goto, IInv, TypeOK, Ops
  <1>3. \A p \in before[o] : Passed(o, p)
    BY <1>1, BeforeFacts DEF ScanInv, MissesNothing
  <1>4. MissesNothing(o)'
    BY <1>1, <1>2, <1>3 DEF MissesNothing, Passed
  <1>5. ASSUME o \in Gets PROVE Ascends(o)'
    BY <1>1, <1>2, <1>5, OutFacts DEF ScanInv, Ascends, Stored
  <1> QED BY <1>2, <1>4, <1>5 DEF ScanInv, Fresh

LEMMA RemoveScan == ASSUME IInv, SInv, NEW d \in Deletes, Remove(d) PROVE ScanInv(d)'
  <1>1. /\ d \notin Gets /\ ScanInv(d) /\ pc[d] = "remove" /\ pc'[d] = "notify"
        /\ result' = result
    BY OpsAssumption DEF Remove, Goto, IInv, TypeOK, SInv, Scans, Ops
  <1> QED BY <1>1 DEF ScanInv, Fresh, MissesNothing

LEMMA NotifyScan == ASSUME IInv, SInv, NEW d \in Deletes, Notify(d) PROVE ScanInv(d)'
  <1>1. d \notin Gets /\ pc'[d] = "done" /\ result'[d] = "nil"
    BY OpsAssumption DEF Notify, Return, Goto, IInv, TypeOK, Ops
  <1> QED BY <1>1 DEF ScanInv, Fresh, MissesNothing

LEMMA ScanFrame ==
    ASSUME IInv, NEW o \in Scans,
           \/ LoadBound(o) \/ EndScan(o)
           \/ o \in Gets /\ Collect(o)
           \/ o \in Deletes /\ (Examine(o) \/ Remove(o) \/ Notify(o))
    PROVE  /\ \A x \in Ops \ {o} : /\ pc'[x] = pc[x] /\ idx'[x] = idx[x]
                                   /\ bound'[x] = bound[x] /\ result'[x] = result[x]
                                   /\ before'[x] = before[x]
           /\ \A g \in Gets \ {o} : out'[g] = out[g]
           /\ before'[o] \in {before[o], Returned}
           /\ deleted \subseteq deleted'
  <1> USE DEF IInv, TypeOK, Scans, Ops
  <1>1. CASE LoadBound(o)
    BY <1>1 DEF LoadBound, Return, Goto, Begin
  <1>2. CASE EndScan(o)
    BY <1>2 DEF EndScan, Return, Goto
  <1>3. CASE o \in Gets /\ Collect(o)
    BY <1>3 DEF Collect
  <1>4. CASE Examine(o)
    BY <1>4 DEF Examine, Goto
  <1>5. CASE Remove(o)
    BY <1>5 DEF Remove, Goto
  <1>6. CASE Notify(o)
    BY <1>6 DEF Notify, Return, Goto
  <1> QED BY <1>1, <1>2, <1>3, <1>4, <1>5, <1>6

LEMMA ScanStepScan ==
    ASSUME IInv, SInv, NEW o \in Scans, (o \in Gets /\ GetStep(o)) \/ (o \in Deletes /\ DeleteStep(o))
    PROVE  SInv'
  <1>1. /\ \A x \in Ops \ {o} : /\ pc'[x] = pc[x] /\ idx'[x] = idx[x]
                                /\ bound'[x] = bound[x] /\ result'[x] = result[x]
                                /\ before'[x] = before[x]
        /\ \A g \in Gets \ {o} : out'[g] = out[g]
        /\ before'[o] \in {before[o], Returned}
        /\ deleted \subseteq deleted'
    BY ScanFrame DEF GetStep, DeleteStep
  <1>2. \A p \in Puts : pc'[p] = pc[p] /\ idx'[p] = idx[p] /\ before'[p] = before[p]
    BY <1>1, OpsAssumption DEF Scans, Ops
  <1>3. ScanInv(o)'
    BY BeginScan, CollectScan, ExamineScan, EndScanScan, RemoveScan, NotifyScan
       DEF GetStep, DeleteStep
  <1>4. \A x \in Scans \ {o} : ScanInv(x)'
    <2>1. SUFFICES ASSUME NEW x \in Scans \ {o} PROVE ScanInv(x)'
      OBVIOUS
    <2>2. x \in Ops \ {o}
      BY DEF Scans, Ops
    <2> QED BY <1>1, <1>2, <2>2, ScanInvStable DEF Stored
  <1>5. BeforeHasReturned'
    <2>1. \A q \in Returned : q \in Puts /\ pc[q] = "done"
      BY DEF Returned
    <2>2. \A x \in Ops : before'[x] \in {before[x], Returned}
      BY <1>1
    <2>3. \A x \in Ops : \A q \in before[x] : q \in Puts /\ pc[q] = "done"
      BY BeforeFacts DEF SInv, BeforeHasReturned
    <2> QED BY <1>2, <2>1, <2>2, <2>3 DEF BeforeHasReturned
  <1>6. BeforeIsEarlier'
    BY <1>2 DEF SInv, BeforeIsEarlier
  <1> QED BY <1>3, <1>4, <1>5, <1>6 DEF SInv

LEMMA NextScan == IInv /\ SInv /\ [Next]_vars => SInv'
  <1>1. CASE UNCHANGED vars
    BY <1>1 DEF vars, memory, locals, SInv, BeforeHasReturned, BeforeIsEarlier, ScanInv,
                Fresh, MissesNothing, Passed, Ascends, Stored
  <1>2. ASSUME IInv, SInv, Next PROVE SInv'
    <2>1. ASSUME NEW p \in Puts, PutStep(p) PROVE SInv'
      BY <1>2, <2>1, PutStepScan
    <2>2. ASSUME NEW g \in Gets, GetStep(g) PROVE SInv'
      BY <1>2, <2>2, ScanStepScan DEF Scans
    <2>3. ASSUME NEW d \in Deletes, DeleteStep(d) PROVE SInv'
      BY <1>2, <2>3, ScanStepScan DEF Scans
    <2> QED BY <1>2, <2>1, <2>2, <2>3 DEF Next
  <1> QED BY <1>1, <1>2

LEMMA ScanInvariant == Spec => [](IInv /\ SInv)
  BY InitInv, InitScan, NextInv, NextScan, PTL DEF Spec
-------------------------------------------------------------------------------
\* The reports in an answer are distinct.
LEMMA NoneTwice ==
    ASSUME IInv, SInv, NEW g \in Gets
    PROVE  Cardinality(Range(out[g])) = Len(out[g])
  <1> DEFINE s == out[g]
  <1>1. /\ Len(s) \in Nat /\ DOMAIN s = 1..Len(s)
        /\ \A i \in DOMAIN s : s[i] \in Puts /\ idx[s[i]] \in Nat
        /\ \A i, j \in DOMAIN s : i < j => idx[s[i]] < idx[s[j]]
    BY OutFacts DEF SInv, Scans, ScanInv, Ascends
  <1>2. s \in [1..Len(s) -> Range(s)]
    BY OutFacts DEF Range
  <1> HIDE DEF s
  <1>3. \A i, j \in 1..Len(s) : s[i] = s[j] => i = j
    BY <1>1
  <1>4. s \in Injection(1..Len(s), Range(s)) /\ s \in Surjection(1..Len(s), Range(s))
    <2>1. s \in Injection(1..Len(s), Range(s))
      BY <1>2, <1>3 DEF Injection, IsInjective
    <2>2. \A y \in Range(s) : \E i \in 1..Len(s) : s[i] = y
      BY <1>1 DEF Range
    <2> QED BY <1>2, <2>1, <2>2 DEF Surjection
  <1>5. IsFiniteSet(1..Len(s)) /\ Cardinality(1..Len(s)) = Len(s)
    <2>1. 1 \in Int /\ Len(s) \in Int
      BY <1>1
    <2>2. /\ IsFiniteSet(1..Len(s))
          /\ Cardinality(1..Len(s)) = IF 1 > Len(s) THEN 0 ELSE Len(s) - 1 + 1
      BY <2>1, FS_Interval
    <2> QED BY <1>1, <2>2
  <1>6. IsFiniteSet(Range(s))
    BY <1>4, <1>5, FS_Surjection
  <1>7. Cardinality(1..Len(s)) = Cardinality(Range(s))
    BY <1>4, <1>6, FS_Injection
  <1> QED BY <1>5, <1>7 DEF s

\* A Get misses no report filed before it began, and returns none twice.
THEOREM GetIsComplete == Spec => []GetSeesCompletedPuts
  <1>1. ASSUME IInv, SInv PROVE GetSeesCompletedPuts
    <2>1. \A g \in Gets : pc[g] = "done" => before[g] \subseteq Range(out[g]) \cup deleted
      BY <1>1, OpsAssumption DEF SInv, Scans, ScanInv, MissesNothing, Passed
    <2> QED BY <1>1, <2>1, NoneTwice DEF GetSeesCompletedPuts
  <1> QED BY <1>1, ScanInvariant, PTL

\* Of two reports in one answer, the one whose Put had returned before the other's
\* began comes first.
THEOREM GetIsOrdered == Spec => []GetReturnsInOrder
  <1>1. ASSUME IInv, SInv PROVE GetReturnsInOrder
    <2>1. SUFFICES ASSUME NEW g \in Gets, NEW i \in DOMAIN out[g], NEW j \in DOMAIN out[g],
                          out[g][i] \in before[out[g][j]]
                   PROVE  i < j
      BY DEF GetReturnsInOrder
    <2>2. /\ i \in Nat /\ j \in Nat
          /\ out[g][i] \in Puts /\ out[g][j] \in Puts
          /\ idx[out[g][i]] \in Nat /\ idx[out[g][j]] \in Nat
      BY <1>1, OutFacts
    <2>3. Stored(out[g][j])
      BY <1>1 DEF SInv, Scans, ScanInv, Ascends
    <2>4. idx[out[g][i]] < idx[out[g][j]]
      BY <1>1, <2>1, <2>2, <2>3 DEF SInv, BeforeIsEarlier, Stored
    <2>5. j < i => idx[out[g][j]] < idx[out[g][i]]
      BY <1>1 DEF SInv, Scans, ScanInv, Ascends
    <2> QED BY <2>2, <2>4, <2>5
  <1> QED BY <1>1, ScanInvariant, PTL

\* A Delete says "not found" only of a report that was not filed when it began, or
\* that another Delete took.
THEOREM DeleteIsComplete == Spec => []DeleteFindsCompletedPuts
  <1>1. ASSUME IInv, SInv PROVE DeleteFindsCompletedPuts
    <2>1. SUFFICES ASSUME NEW d \in Deletes, result[d] = "notFound", Target[d] \in before[d]
                   PROVE  Target[d] \in deleted
      BY DEF DeleteFindsCompletedPuts
    <2>2. pc[d] = "done" /\ d \notin Gets
      BY <1>1, <2>1, OpsAssumption DEF SInv, Scans, ScanInv, Fresh
    <2>3. Passed(d, Target[d])
      BY <1>1, <2>1, <2>2 DEF SInv, Scans, ScanInv, MissesNothing
    <2> QED BY <2>2, <2>3 DEF Passed
  <1> QED BY <1>1, ScanInvariant, PTL
===============================================================================
