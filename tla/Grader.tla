-------------------------------- MODULE Grader --------------------------------
(***************************************************************************)
(* SimpleOnMemoryGrader of pkg/models/examserver/grader.go.                *)
(*                                                                         *)
(* A question is [id, type, score, correct, solutions]: correct is the     *)
(* sequence of its correct options, solutions the set of its connection    *)
(* solutions [connects, combinations, required].  An answer is             *)
(* [question, options, connections], and a submission a sequence of        *)
(* answers, with no promise that a question is answered once.              *)
(*                                                                         *)
(* Scores are numbers here; the float32 rounding of sums is left out.      *)
(***************************************************************************)
EXTENDS Integers, SequencesExt

CONSTANT NoPassingScore   \* nil PassingScore

\* A loop, or a filter, that keeps the members of s that are in T, in their order.
Selected(s, T) ==
    LET kept[i \in 0..Len(s)] ==
          IF i = 0 THEN <<>>
          ELSE IF s[i] \in T THEN Append(kept[i - 1], s[i]) ELSE kept[i - 1]
    IN  kept[Len(s)]

SumOf(s) ==
    LET sum[i \in 0..Len(s)] == IF i = 0 THEN 0 ELSE sum[i - 1] + s[i]
    IN  sum[Len(s)]

Gradeable == {"single", "multiple", "draganddrop"}

\* NewSimpleOnMemoryGrader: of two questions with one id the later is kept in the
\* index, and both count for the total.
QuestionsById(qc) ==
    [x \in {qc[i].id : i \in DOMAIN qc} |->
       qc[Max({i \in DOMAIN qc : qc[i].id = x})]]

TotalScore(qc) == SumOf([i \in DOMAIN qc |-> qc[i].score])

SingleChoiceCorrect(q, ans) ==
    Len(ans.options) = 1 /\ ans.options[1] \in Range(q.correct)

MultipleChoiceSubset(q, ans) == Range(q.correct) \subseteq Range(ans.options)
MultipleChoiceCorrect(q, ans) ==
    /\ Len(q.correct) = Len(ans.options)
    /\ Range(q.correct) \subseteq Range(ans.options)

AcceptedConnections(sol) ==
    sol.connects \cup UNION {c.sources \X c.destinations : c \in sol.combinations}

SolutionSatisfied(sol, submitted) ==
    Cardinality(Range(submitted) \cap AcceptedConnections(sol)) >= sol.required

IsAnswerCorrect(q, ans) ==
    \/ q.type = "single"      /\ SingleChoiceCorrect(q, ans)
    \/ q.type = "multiple"    /\ MultipleChoiceCorrect(q, ans)
    \/ q.type = "draganddrop" /\ \E sol \in q.solutions :
                                    SolutionSatisfied(sol, ans.connections)

ScoreOf(q, ans) == IF IsAnswerCorrect(q, ans) THEN q.score ELSE 0

\* Grade: answers to unknown questions, and to questions of no known type, are
\* skipped; everything else is scored, in the order of the submission.
Grade(qc, passing, practice, submission) ==
    LET byId   == QuestionsById(qc)
        graded == Selected(submission, {ans \in Range(submission) :
                    ans.question \in DOMAIN byId /\ byId[ans.question].type \in Gradeable})
        scores == [i \in DOMAIN graded |->
                     [question |-> graded[i].question,
                      earned   |-> ScoreOf(byId[graded[i].question], graded[i])]]
        earned == SumOf([i \in DOMAIN scores |-> scores[i].earned])
    IN  [scores   |-> scores,
         earned   |-> earned,
         total    |-> TotalScore(qc),
         passed   |-> passing # NoPassingScore /\ earned >= passing,
         revealed |-> IF practice THEN {graded[i].question : i \in DOMAIN graded} ELSE {}]
================================================================================
