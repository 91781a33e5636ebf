------------------------------ MODULE OnceService ------------------------------
(***************************************************************************)
(* What the callers of an actor may rely on.  The command of a call takes  *)
(* effect at most once, in one place of a total order; a call that was     *)
(* answered with a result has taken effect; a call that was refused has    *)
(* not, and never will; a caller that gave up cannot know.                 *)
(***************************************************************************)
EXTENDS Sequences, Functions

CONSTANT Calls

Answers == {"result", "refused", "unknown"}

VARIABLES
    answer,   \* [Calls -> {"none", "pending"} \cup Answers]
    applied   \* the commands that took effect, in order

vars == <<answer, applied>>

Init ==
    /\ answer = [c \in Calls |-> "none"]
    /\ applied = <<>>

Invoke(c) ==
    /\ answer[c] = "none"
    /\ answer' = [answer EXCEPT ![c] = "pending"]
    /\ UNCHANGED applied

Apply(c) ==
    /\ answer[c] \in {"pending", "unknown"}
    /\ c \notin Range(applied)
    /\ applied' = Append(applied, c)
    /\ UNCHANGED answer

Answer(c, a) ==
    /\ answer[c] = "pending"
    /\ a = "result" => c \in Range(applied)
    /\ a = "refused" => c \notin Range(applied)
    /\ answer' = [answer EXCEPT ![c] = a]
    /\ UNCHANGED applied

Next == \E c \in Calls :
          \/ Invoke(c)
          \/ Apply(c)
          \/ \E a \in Answers : Answer(c, a)

Spec == Init /\ [][Next]_vars
===============================================================================
