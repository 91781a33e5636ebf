---------------------------- MODULE MCExamTracking ----------------------------
(***************************************************************************)
(* ExamTracking for TLC: two Puts, a Get, and two deletes of one report.   *)
(***************************************************************************)
EXTENDS ExamTracking

CONSTANTS p1, p2

MCTarget == [d \in Deletes |-> p1]
===============================================================================
