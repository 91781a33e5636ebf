-------------------------------- MODULE ExamApi --------------------------------
(***************************************************************************)
(* The HTTP handlers of pkg/api/examsessions and pkg/api/examtrackings on  *)
(* top of the exam session server, with the grader and the notifications   *)
(* in place.                                                               *)
(*                                                                         *)
(* A handler that succeeds is an action, and an operator gives the body of *)
(* its response; a handler that refuses changes nothing and is the         *)
(* negation of the action's guard.  The status codes of refusals differ,   *)
(* but clients only ask whether a response is a success.                   *)
(***************************************************************************)
EXTENDS ExamServer, Grader, Notifications

CONSTANTS
    Bank,           \* exam -> place -> the question with its key and its score
    PassingScore,   \* exam -> number or NoPassingScore
    EmailOf         \* user -> the address in the user's profile, or NoEmail

ASSUME BankAssumption ==
    \A e \in Exams : \A p \in AllPositions(e) :
      /\ Bank[e][p].id = QuestionAt(e, p).id
      /\ Bank[e][p].type = QuestionAt(e, p).type
      /\ Bank[e][p].score \in Int
      /\ Bank[e][p].correct \in Seq(Range(Bank[e][p].correct))
      /\ IsInjective(Bank[e][p].correct)
      /\ \A sol \in Bank[e][p].solutions : sol.required \in Int

VARIABLES
    wishes,    \* history: id -> [consent, email] of the request that made the session
    discarded, \* the reports deleted again, as indexes of reports
    outbox     \* what the sinks have been handed

apiVars == <<vars, wishes, discarded, outbox>>

ApiInit == Init /\ wishes = <<>> /\ discarded = {} /\ outbox = <<>>

Logged(results) == \E r \in results : outbox' = outbox \o r.log
--------------------------------------------------------------------------------
(***************************************************************************)
(* POST /api/examsessions                                                  *)
(***************************************************************************)
ExamHasAnyType(e, accept) ==
    \E p \in AllPositions(e) : QuestionAt(e, p).type \in accept

\* The session is started, then announced, best effort.
HandleCreate(config, u, e, options, accept) ==
    /\ accept # {} => ExamHasAnyType(e, accept)
    /\ StartNewExamSession(u, e, options, accept)
    /\ wishes' = Append(wishes, [consent |-> "sendReportEmail" \in options,
                                 email   |-> EmailOf[u]])
    /\ Logged(SessionStarted(config, u, sessionCount + 1))
    /\ UNCHANGED discarded

(***************************************************************************)
(* GET /api/examsessions/{id}: what sessionExcerpt projects.               *)
(***************************************************************************)
Excerpt(id) ==
    LET sess == sessionsStore[id]
    IN  [exam      |-> sess.exam,
         index     |-> sess.index,
         question  |-> sess.question,
         questions |-> Cardinality(DOMAIN sess.paper),
         seekable  |-> "seekable" \in sess.options,
         practice  |-> Catalogue[sess.exam].category = "practice"]

(***************************************************************************)
(* GET .../questions?cursor_id=                                            *)
(***************************************************************************)
Readable(u, id, cursor) == Owns(u, id) /\ CursorAccepted(sessionsStore[id], cursor)

HandleGetNextQuestion(u, id, cursor) ==
    GetNextQuestion(u, id, cursor) /\ UNCHANGED <<wishes, discarded, outbox>>

\* The cursor of the response: null with the last question.
NextCursor(id, cursor) ==
    IF IndexOf(sessionsStore[id], cursor) + 1 \notin DOMAIN sessionsStore[id].paper
    THEN NoCursor
    ELSE IF cursor = NoCursor THEN cursorCount + 1 ELSE cursor

(***************************************************************************)
(* PUT .../cursors?index=&cursor_id=                                       *)
(***************************************************************************)
Repositionable(u, id, index) ==
    /\ Owns(u, id)
    /\ "seekable" \in sessionsStore[id].options
    /\ index >= 0 /\ InRange(sessionsStore[id], index)

HandleSeekCursor(u, id, cursor, index) ==
    /\ index >= 0
    /\ SeekCursorTo(u, id, cursor, index)
    /\ UNCHANGED <<wishes, discarded, outbox>>

RepositionedCursor == cursorCount + 1

(***************************************************************************)
(* POST .../answer?check_only=, and its response.                          *)
(***************************************************************************)
HandleSubmitAnswer(u, id, answer, checkOnly) ==
    /\ SubmitAnswer(u, id, answer, checkOnly)
    /\ UNCHANGED <<wishes, discarded, outbox>>

\* The collection the grader of a session was made with. (The order in which a
\* virtual collection was drawn is lost in its paper; it matters to the index of the
\* grader only if two drawn questions share an id.)
InOrder(S) ==
    [i \in 1..Cardinality(S) |->
       CHOOSE p \in S : Cardinality({q \in S : Before(q, p)}) = i - 1]

CollectionOfSession(sess) ==
    LET places == InOrder(Range(sess.paper))
    IN  [i \in DOMAIN places |-> Bank[sess.exam][places[i]]]

Assessment(id, answer) ==
    LET sess == sessionsStore[id]
    IN  Grade(CollectionOfSession(sess), PassingScore[sess.exam],
              Catalogue[sess.exam].category = "practice", answer)

(***************************************************************************)
(* GET .../my_answer                                                       *)
(***************************************************************************)
MyAnswer(id) == sessionsStore[id].answer

(***************************************************************************)
(* DELETE /api/examsessions/{id}: the report, if there is a submission, is *)
(* stored by Put, which then notifies; an error of a sink is only logged.  *)
(***************************************************************************)
HandleDelete(config, u, id) ==
    /\ EndExamSession(u, id)
    /\ LET sess == sessionsStore[id]
       IN  IF sess.answer = NoAnswer
           THEN UNCHANGED outbox
           ELSE Logged(Notify(config, u, EmailOf[u], id,
                              "sendReportEmail" \in sess.options, "exam_completed"))
    /\ UNCHANGED <<wishes, discarded>>

(***************************************************************************)
(* DELETE /api/examtrackings/{id}                                          *)
(***************************************************************************)
HandleDeleteTracking(config, u, i) ==
    /\ i \in DOMAIN reports \ discarded
    /\ reports[i].user = u
    /\ discarded' = discarded \cup {i}
    /\ Logged(Notify(config, u, EmailOf[u], reports[i].session, FALSE,
                     "exam_report_deleted"))
    /\ UNCHANGED <<vars, wishes>>
--------------------------------------------------------------------------------
\* The requests of any client, in the routes of ServeHTTP.
ApiNext(config) ==
    \E u \in Users :
      \/ \E e \in Exams, options \in OptionChoices, accept \in AcceptChoices :
           HandleCreate(config, u, e, options, accept)
      \/ \E id \in DOMAIN sessionsStore :
           \/ \E c \in Presentable : HandleGetNextQuestion(u, id, c)
           \/ \E c \in Presentable, i \in Askable(id) : HandleSeekCursor(u, id, c, i)
           \/ \E a \in Answers, checkOnly \in BOOLEAN :
                HandleSubmitAnswer(u, id, a, checkOnly)
           \/ HandleDelete(config, u, id)
      \/ \E i \in DOMAIN reports : HandleDeleteTracking(config, u, i)
================================================================================
