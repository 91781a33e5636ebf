----------------------------- MODULE ExamTracking -----------------------------
(***************************************************************************)
(* OnMemoryExamTrackingServer (pkg/models/examreport/examreport.go), which *)
(* keeps the reports of finished exams in two sync.Maps without a lock:    *)
(* counts (user -> number of indexes claimed) and reports ("user:index" -> *)
(* report).  Each operation on a sync.Map is one step; between two of them *)
(* any other goroutine may run.                                            *)
(*                                                                         *)
(* The keys of different users never meet (the index is what follows the   *)
(* last colon), so one user's slice of both maps is modelled.  A report    *)
(* has a fresh id: it is named here by the Put that stores it.             *)
(***************************************************************************)
EXTENDS Integers, Sequences, FiniteSets, GoMaps

CONSTANTS
    Puts,      \* calls of Put, each with its own report
    Gets,      \* calls of GetExamReportsByUserId
    Deletes,   \* calls of DeleteExamTracking
    Target,    \* [Deletes -> Puts], the report a delete asks for
    Absent     \* no entry in counts

Ops == Puts \cup Gets \cup Deletes

ASSUME OpsAssumption ==
    /\ Puts \cap Gets = {} /\ Puts \cap Deletes = {} /\ Gets \cap Deletes = {}
    /\ Target \in [Deletes -> Puts]
ASSUME AbsentAssumption == Absent \notin Nat

VARIABLES
    count,      \* counts[userid]
    reports,    \* index -> report
    pc,         \* op -> its next step
    idx,        \* Put: the index read; Get and Delete: the loop variable i
    bound,      \* Get and Delete: n, the count read first
    out,        \* Get: the slice built so far
    result      \* op -> "none", "nil" or "notFound"

memory == <<count, reports>>
locals == <<pc, idx, bound, out, result>>

\* History: what had returned when an op began, and what has been deleted.
VARIABLES
    before,     \* op -> the Puts that had returned when it began
    deleted     \* the reports removed so far

vars == <<memory, locals, before, deleted>>

Steps == {"init", "load", "cas", "store", "scan", "remove", "notify", "done"}

TypeOK ==
    /\ count \in Nat \cup {Absent}
    /\ DOMAIN reports \subseteq Nat
    /\ reports \in [DOMAIN reports -> Puts]
    /\ pc \in [Ops -> Steps]
    /\ idx \in [Ops -> Nat]
    /\ bound \in [Ops -> Nat]
    /\ out \in [Gets -> Seq(Puts)]
    /\ result \in [Ops -> {"none", "nil", "notFound"}]
    /\ before \in [Ops -> SUBSET Puts]
    /\ deleted \subseteq Puts

Init ==
    /\ count = Absent
    /\ reports = <<>>
    /\ pc = [o \in Ops |-> IF o \in Puts THEN "init" ELSE "load"]
    /\ idx = [o \in Ops |-> 0]
    /\ bound = [o \in Ops |-> 0]
    /\ out = [g \in Gets |-> <<>>]
    /\ result = [o \in Ops |-> "none"]
    /\ before = [o \in Ops |-> {}]
    /\ deleted = {}
-------------------------------------------------------------------------------
Goto(o, step) == pc' = [pc EXCEPT ![o] = step]

Returned == {p \in Puts : pc[p] = "done"}

\* An op begins with its first access to the maps.
Begin(o) == before' = [before EXCEPT ![o] = Returned]

\* The op returns; the variables of a scan go out of scope. (A Put's index is kept:
\* the properties speak of it.)
Return(o, r) ==
    /\ Goto(o, "done")
    /\ result' = [result EXCEPT ![o] = r]
    /\ idx' = IF o \in Puts THEN idx ELSE [idx EXCEPT ![o] = 0]
    /\ bound' = [bound EXCEPT ![o] = 0]

(***************************************************************************)
(* Put claims an index by advancing the count, and retries if another Put  *)
(* was faster; the report is stored only then.                             *)
(***************************************************************************)
LeftAlone == count
Initialised == IF count = Absent THEN 0 ELSE count

LoadOrStoreCount(p) ==
    /\ pc[p] = "init"
    /\ count' = Initialised
    /\ Goto(p, "load")
    /\ Begin(p)
    /\ UNCHANGED <<reports, idx, bound, out, result, deleted>>

LoadCount(p) ==
    /\ p \in Puts /\ pc[p] = "load"
    /\ idx' = [idx EXCEPT ![p] = count]
    /\ Goto(p, "cas")
    /\ UNCHANGED <<memory, bound, out, result, before, deleted>>

NotChecked(p) == TRUE
StillCurrent(p) == count = idx[p]

\* A Put that lost the race starts over with the count as it is now.
RetryBlindly == "cas"
Retry == "load"

CompareAndSwap(p) ==
    /\ pc[p] = "cas"
    /\ IF StillCurrent(p)
       THEN count' = idx[p] + 1 /\ Goto(p, "store")
       ELSE UNCHANGED count /\ Goto(p, Retry)
    /\ UNCHANGED <<reports, idx, bound, out, result, before, deleted>>

StoreReport(p) ==
    /\ pc[p] = "store"
    /\ reports' = Store(reports, idx[p], p)
    /\ Goto(p, "notify")
    /\ UNCHANGED <<count, idx, bound, out, result, before, deleted>>

\* Best effort: an error of the notifiers is logged, and the op has succeeded.
Notify(o) ==
    /\ pc[o] = "notify"
    /\ Return(o, "nil")
    /\ UNCHANGED <<memory, out, before, deleted>>
-------------------------------------------------------------------------------
(***************************************************************************)
(* Get and Delete read the count, then scan the indexes below it.          *)
(***************************************************************************)
LoadBound(o) ==
    /\ o \in Gets \cup Deletes /\ pc[o] = "load"
    /\ IF count = Absent
       THEN Return(o, IF o \in Gets THEN "nil" ELSE "notFound")
       ELSE /\ bound' = [bound EXCEPT ![o] = count]
            /\ Goto(o, "scan")
            /\ UNCHANGED <<idx, result>>
    /\ Begin(o)
    /\ UNCHANGED <<memory, out, deleted>>

CollectedInFront(g) ==
    IF idx[g] \in DOMAIN reports THEN <<reports[idx[g]]>> \o out[g] ELSE out[g]

\* One turn of Get's loop: a slot without a report is skipped.
Collected(g) ==
    IF idx[g] \in DOMAIN reports THEN Append(out[g], reports[idx[g]]) ELSE out[g]

StopsOneShort(o) == idx[o] + 1 < bound[o]
MoreToScan(o) == idx[o] < bound[o]

Collect(g) ==
    /\ g \in Gets /\ pc[g] = "scan" /\ MoreToScan(g)
    /\ out' = [out EXCEPT ![g] = Collected(g)]
    /\ idx' = [idx EXCEPT ![g] = @ + 1]
    /\ UNCHANGED <<memory, pc, bound, result, before, deleted>>

\* One turn of Delete's loop: the report is examined, or the slot skipped.
Examine(d) ==
    /\ d \in Deletes /\ pc[d] = "scan" /\ MoreToScan(d)
    /\ IF idx[d] \in DOMAIN reports /\ reports[idx[d]] = Target[d]
       THEN Goto(d, "remove") /\ UNCHANGED idx
       ELSE idx' = [idx EXCEPT ![d] = @ + 1] /\ UNCHANGED pc
    /\ UNCHANGED <<memory, bound, out, result, before, deleted>>

EndScan(o) ==
    /\ pc[o] = "scan" /\ ~MoreToScan(o)
    /\ Return(o, IF o \in Gets THEN "nil" ELSE "notFound")
    /\ UNCHANGED <<memory, out, before, deleted>>

\* s.reports.Delete(key): whatever is at the index now, or nothing.
Remove(d) ==
    /\ pc[d] = "remove"
    /\ reports' = Delete(reports, idx[d])
    /\ deleted' = IF idx[d] \in DOMAIN reports
                  THEN deleted \cup {reports[idx[d]]} ELSE deleted
    /\ Goto(d, "notify")
    /\ UNCHANGED <<count, idx, bound, out, result, before>>
-------------------------------------------------------------------------------
PutStep(p) == LoadOrStoreCount(p) \/ LoadCount(p) \/ CompareAndSwap(p)
           \/ StoreReport(p) \/ Notify(p)
GetStep(g) == LoadBound(g) \/ Collect(g) \/ EndScan(g)
DeleteStep(d) == LoadBound(d) \/ Examine(d) \/ EndScan(d) \/ Remove(d) \/ Notify(d)

Begun(o) == pc[o] # IF o \in Puts THEN "init" ELSE "load"

Next == \/ \E p \in Puts : PutStep(p)
        \/ \E g \in Gets : GetStep(g)
        \/ \E d \in Deletes : DeleteStep(d)

\* A goroutine that has begun keeps running.
Fairness == /\ \A p \in Puts : WF_vars(Begun(p) /\ PutStep(p))
            /\ \A g \in Gets : WF_vars(Begun(g) /\ GetStep(g))
            /\ \A d \in Deletes : WF_vars(Begun(d) /\ DeleteStep(d))

Spec == Init /\ [][Next]_vars
FairSpec == Spec /\ Fairness
-------------------------------------------------------------------------------
(***************************************************************************)
(* Properties.                                                             *)
(***************************************************************************)
Claimed(p) == pc[p] \in {"store", "notify", "done"}
Stored(p) == pc[p] \in {"notify", "done"}

\* Concurrent Puts never claim one index, and an index below the count is claimed
\* by some Put: a later Put can overwrite no report, a scan misses none.
IndexesClaimedOnce ==
    /\ \A p, q \in Puts : Claimed(p) /\ Claimed(q) /\ p # q => idx[p] # idx[q]
    /\ \A p \in Puts : Claimed(p) => count # Absent /\ idx[p] < count

\* "No report is ever lost": once Put has stored a report it stays where it is until
\* a delete that asked for this very report removes it.
NoReportLost ==
    \A p \in Puts : Stored(p) =>
      IF p \in deleted
      THEN \E d \in Deletes : Target[d] = p /\ pc[d] \in {"notify", "done"}
      ELSE idx[p] \in DOMAIN reports /\ reports[idx[p]] = p

\* Get returns every report whose Put had returned before it began, unless the
\* report is deleted meanwhile, and returns none twice.
GetSeesCompletedPuts ==
    \A g \in Gets : pc[g] = "done" =>
      /\ before[g] \subseteq Range(out[g]) \cup deleted
      /\ Cardinality(Range(out[g])) = Len(out[g])

\* "In the order they were Put": of two reports in one answer, the one whose Put had
\* returned before the other's began comes first.
GetReturnsInOrder ==
    \A g \in Gets : \A i, j \in DOMAIN out[g] :
      out[g][i] \in before[out[g][j]] => i < j

\* A delete fails only if the report was not yet safely stored when it began, or
\* another delete took it.
DeleteFindsCompletedPuts ==
    \A d \in Deletes :
      result[d] = "notFound" => Target[d] \notin before[d] \/ Target[d] \in deleted

\* Every call returns (again and again no call is under way): a Put that loses the
\* race retries, but only as often as another Put wins it.
EveryCallReturns == []<>(\A o \in Ops : Begun(o) => pc[o] = "done")

Book == INSTANCE ReportBook WITH
    Reports <- Puts, stored <- Range(reports), deleted <- deleted

\* The lock-free maps implement a book in which reports appear and disappear once.
ImplementsReportBook == Book!Spec
===============================================================================
