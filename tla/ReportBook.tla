------------------------------ MODULE ReportBook ------------------------------
(***************************************************************************)
(* What the exam tracking server promises about the reports of one user: a *)
(* report is stored at most once, and a report that was deleted is gone    *)
(* for good.                                                               *)
(***************************************************************************)
CONSTANT Reports

VARIABLES stored, deleted

vars == <<stored, deleted>>

Init == stored = {} /\ deleted = {}

Put(r) ==
    /\ r \notin stored \cup deleted
    /\ stored' = stored \cup {r}
    /\ UNCHANGED deleted

Delete(r) ==
    /\ r \in stored
    /\ stored' = stored \ {r}
    /\ deleted' = deleted \cup {r}

Next == \E r \in Reports : Put(r) \/ Delete(r)

Spec == Init /\ [][Next]_vars
===============================================================================
