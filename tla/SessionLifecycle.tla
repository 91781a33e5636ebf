--------------------------- MODULE SessionLifecycle ---------------------------
(***************************************************************************)
(* What the exam server promises about a session, whatever questions it    *)
(* serves: a session is opened once and closed once; between the two the   *)
(* latest saved submission is the one that counts; and closing files a     *)
(* report of exactly that submission, or nothing if there is none.         *)
(***************************************************************************)
EXTENDS Sequences

CONSTANTS Sessions, Answers, NoAnswer

VARIABLES
    phase,       \* [Sessions -> {"unused", "open", "closed"}]
    submission,  \* [Sessions -> Answers \cup {NoAnswer}], while open
    filed        \* the reports, in the order they were filed

vars == <<phase, submission, filed>>

Init ==
    /\ phase = [s \in Sessions |-> "unused"]
    /\ submission = [s \in Sessions |-> NoAnswer]
    /\ filed = <<>>

Open(s) ==
    /\ phase[s] = "unused"
    /\ phase' = [phase EXCEPT ![s] = "open"]
    /\ UNCHANGED <<submission, filed>>

Save(s, a) ==
    /\ phase[s] = "open"
    /\ submission' = [submission EXCEPT ![s] = a]
    /\ UNCHANGED <<phase, filed>>

Close(s) ==
    /\ phase[s] = "open"
    /\ phase' = [phase EXCEPT ![s] = "closed"]
    /\ submission' = [submission EXCEPT ![s] = NoAnswer]
    /\ filed' = IF submission[s] = NoAnswer
                THEN filed
                ELSE Append(filed, [session |-> s, answer |-> submission[s]])

Next == \E s \in Sessions :
          \/ Open(s)
          \/ \E a \in Answers : Save(s, a)
          \/ Close(s)

Spec == Init /\ [][Next]_vars
===============================================================================
