----------------------------- MODULE MCExamServer -----------------------------
(***************************************************************************)
(* Instances of ExamServer for TLC: a practice exam of two collections, a  *)
(* certification exam that samples two of three questions, and (for        *)
(* ExamServerSharedIds.cfg) a practice exam whose two collections each   *)
(* have a question "q1", which exam.xsd allows.                            *)
(***************************************************************************)
EXTENDS ExamServer, TLC

CONSTANTS alice, visitor, practice, certification, sharedIds

Q(id, type, options) == [id |-> id, type |-> type, options |-> options]

Practice ==
    [category |-> "practice", sample |-> 0, from |-> {},
     collections |-> << <<Q("q1", "single", 2)>>, <<Q("q2", "multiple", 1)>> >>]

Certification ==
    [category |-> "certification", sample |-> 2, from |-> {1, 2},
     collections |-> << <<Q("q1", "single", 1), Q("q2", "draganddrop", 0)>>,
                        <<Q("q3", "single", 1)>> >>]

SharedIds ==
    [category |-> "practice", sample |-> 0, from |-> {},
     collections |-> << <<Q("q1", "single", 2)>>, <<Q("q1", "multiple", 1)>> >>]

MCCatalogue == practice :> Practice @@ certification :> Certification
MCCertificationOnly == certification :> Certification
MCSharedCatalogue == sharedIds :> SharedIds
MCOptionChoices == {{"seekable", "randomOptions"},
                    {"randomColl", "randomQuestions", "sendReportEmail"}}
MCAcceptChoices == {{}, {"single"}}
===============================================================================
