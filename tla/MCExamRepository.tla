--------------------------- MODULE MCExamRepository ---------------------------
(***************************************************************************)
(* ExamRepository for TLC: a lookup by u beside a listing by v, whose      *)
(* uploads hold exams of the same id "mine"; a broken file comes with a    *)
(* good one that has that id, too.                                         *)
(***************************************************************************)
EXTENDS ExamRepository

CONSTANTS u, v, broken, good, upU, upV, upU2, lookup, listing, ccna, mine

MCOwner        == [n \in Uploads |-> IF n = upV THEN v ELSE u]
MCContent      == [n \in Uploads |-> IF n = upU2 THEN ccna ELSE mine]
MCFirstEdition == [f \in Files |-> IF f = broken THEN Broken ELSE mine]
MCEditions     == [f \in Files |-> IF f = broken THEN {Broken, Missing, mine} ELSE {mine, ccna}]
MCCaller       == [r \in Requests |-> IF r = lookup THEN u ELSE v]
MCWanted       == [l \in Lookups |-> mine]
MCFilter       == [s \in Listings |-> {mine}]
===============================================================================
