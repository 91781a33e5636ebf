------------------------------ MODULE ExamServer ------------------------------
(***************************************************************************)
(* The exam session server: OnMemoryExamServer of                          *)
(* pkg/models/examserver/examserver.go.                                    *)
(*                                                                         *)
(* Every method of the server hands one closure to the goroutine of Run,   *)
(* which executes closures one at a time; a closure is therefore one       *)
(* action here (ActorService models the hand-over itself).  A closure      *)
(* that returns an error before it changes anything is the negation of the *)
(* action's guard.                                                         *)
(*                                                                         *)
(* Session ids and cursors are fresh UUIDs in the code: here, the next     *)
(* number not used yet.  Nothing but equality is ever asked of them.       *)
(*                                                                         *)
(* Abstracted: timestamps, the exam taker's profile, scores, the wording   *)
(* of questions.  A question is the pair <<collection, place>> of its      *)
(* document, and the shuffled copy a session serves is that pair with the  *)
(* order of its options.                                                   *)
(***************************************************************************)
EXTENDS Integers, Sequences, FiniteSetsExt, GoMaps

CONSTANTS
    Users,          \* subject ids
    Visitors,       \* the subject ids with the prefix "visitor:"
    Exams,          \* ids of the exam documents
    Catalogue,      \* the document of each exam, as the loader accepts it
    OptionChoices,  \* the option bitmasks clients ask for
    AcceptChoices,  \* the sets of question types clients restrict a session to
    Answers,        \* whole submissions (<examanswer> documents)
    NoAnswer,       \* nil ExamAnswer
    NoCursor,       \* nil *QuestionCursor
    NoQuestion,     \* nil CurrentQuestion
    MaxSessions,    \* bound: sessions started in one behaviour
    MaxCursors      \* bound: cursors minted in one behaviour

ExamOptions == {"randomQuestions", "randomOptions", "seekable", "randomColl",
                "sendReportEmail"}

QuestionTypes == {"single", "multiple", "draganddrop"}

\* What FileExamLoader.validate lets through; sample = 0 is "no virtual collection".
ExamDocuments ==
    [category    : {"practice", "certification"},
     collections : Seq(Seq([id : STRING, type : QuestionTypes, options : Nat])),
     sample      : Nat,
     from        : SUBSET (Nat \ {0})]

ASSUME UsersAssumption == Visitors \subseteq Users
ASSUME CatalogueAssumption == Catalogue \in [Exams -> ExamDocuments]
ASSUME ChoicesAssumption == OptionChoices \subseteq SUBSET ExamOptions
                         /\ AcceptChoices \subseteq SUBSET QuestionTypes
ASSUME AnswersAssumption == NoAnswer \notin Answers
ASSUME CursorAssumption == NoCursor \notin Nat
ASSUME QuestionAssumption == NoQuestion \notin [position : Nat \X Nat, order : Seq(Nat)]
ASSUME BoundsAssumption == MaxSessions \in Nat /\ MaxCursors \in Nat
-------------------------------------------------------------------------------
(***************************************************************************)
(* From an exam document to the paper of a session: the questions it       *)
(* serves, in the order it serves them (Questions[QuestionPermutation[i]]  *)
(* for a virtual index i).                                                 *)
(***************************************************************************)
Positions(e, colls) ==
    UNION {{c} \X (1..Len(Catalogue[e].collections[c])) : c \in colls}

AllPositions(e) == Positions(e, DOMAIN Catalogue[e].collections)

QuestionAt(e, p) == Catalogue[e].collections[p[1]][p[2]]

Virtual(e) == Catalogue[e].category = "certification" /\ Catalogue[e].sample > 0

Smaller(a, b) == IF a < b THEN a ELSE b

\* selectQuestionCollection: the sets of questions it may resolve to.
Draws(e, opts) ==
    LET colls == DOMAIN Catalogue[e].collections
        pool  == Positions(e, Catalogue[e].from \cap colls)
    IN  IF Virtual(e)
        THEN kSubset(Smaller(Catalogue[e].sample, Cardinality(pool)), pool)
        ELSE IF "randomColl" \in opts
             THEN {Positions(e, {c}) : c \in colls}
             ELSE {AllPositions(e)}

OfAcceptedType(e, S, accept) ==
    {p \in S : accept = {} \/ QuestionAt(e, p).type \in accept}

Before(p, q) == p[1] < q[1] \/ (p[1] = q[1] /\ p[2] < q[2])

Orders(S) == Bijection(0..(Cardinality(S) - 1), S)

InDocumentOrder(f) == \A i, j \in DOMAIN f : i < j => Before(f[i], f[j])

\* newExamSession: filter by type, then shuffle, or keep the document's order.
Papers(e, opts, accept) ==
    {f \in UNION {Orders(OfAcceptedType(e, S, accept)) : S \in Draws(e, opts)} :
        Virtual(e) \/ "randomQuestions" \in opts \/ InDocumentOrder(f)}

\* buildOnMemoryQuestion: the copies of question p it may build.
Identity(S) == [x \in S |-> x]

ServedCopies(e, opts, p) ==
    LET options == 1..QuestionAt(e, p).options
    IN  {[position |-> p, order |-> o] :
           o \in IF Virtual(e) \/ "randomOptions" \in opts
                 THEN Bijection(options, options)
                 ELSE {Identity(options)}}
-------------------------------------------------------------------------------
VARIABLES
    sessionsStore,  \* id -> session, the live sessions
    userSessions,   \* user -> ids, the reverse index of sessionsStore
    sessionCount,   \* session ids handed out so far: 1..sessionCount
    cursorCount,    \* cursors handed out so far: 1..cursorCount
    reports         \* external: what ExamTrackingServer.Put has stored

serverVars == <<sessionsStore, userSessions, sessionCount, cursorCount, reports>>

\* History: what clients have been shown or told. No action reads these.
VARIABLES
    shown,          \* <<id, index, question>> returned by GetNextQuestion
    retired,        \* cursors a SeekCursorTo has invalidated
    acked           \* id -> the last submission acknowledged as saved

historyVars == <<shown, retired, acked>>
vars == <<serverVars, historyVars>>

SessionIds == 1..MaxSessions
Places     == (Nat \ {0}) \X (Nat \ {0})
Served     == [position : Places, order : Seq(Nat \ {0})]

\* OnMemoryExamSession; a cursor always names a question of the paper.
IsSession(sess) ==
    /\ sess \in [user     : Users,
                 exam     : Exams,
                 options  : SUBSET ExamOptions,
                 paper    : [DOMAIN sess.paper -> AllPositions(sess.exam)],
                 cached   : [DOMAIN sess.cached -> Served],
                 cursors  : [DOMAIN sess.cursors -> DOMAIN sess.paper],
                 index    : DOMAIN sess.paper \cup {-1},
                 question : Served \cup {NoQuestion},
                 answer   : Answers \cup {NoAnswer}]
    /\ DOMAIN sess.paper \subseteq Nat
    /\ 0 \in DOMAIN sess.paper
    /\ sess.question = NoQuestion <=> sess.index = -1

Report == [session : SessionIds, user : Users, exam : Exams, answer : Answers,
           consent : BOOLEAN]

\* Every live cursor points into its session's paper.
SessionsTyped ==
    /\ DOMAIN sessionsStore \subseteq 1..sessionCount
    /\ \A id \in DOMAIN sessionsStore :
         /\ IsSession(sessionsStore[id])
         /\ DOMAIN sessionsStore[id].cursors \subseteq 1..cursorCount

IndexTyped ==
    /\ DOMAIN userSessions \subseteq Users
    /\ \A u \in DOMAIN userSessions : userSessions[u] \subseteq 1..sessionCount

\* The state has its types: in particular every live cursor, and the index last
\* served, point into the session's QuestionPermutation, so the "no more
\* questions" branch of GetNextQuestion is never what protects the lookup.
TypeOK ==
    /\ sessionCount \in 0..MaxSessions
    /\ cursorCount \in 0..MaxCursors
    /\ SessionsTyped
    /\ IndexTyped
    /\ reports \in Seq(Report)
    /\ shown \subseteq (1..sessionCount) \X Nat \X Served
    /\ retired \subseteq 1..cursorCount
    /\ acked \in [1..sessionCount -> Answers \cup {NoAnswer}]

Init ==
    /\ sessionsStore = <<>>
    /\ userSessions = <<>>
    /\ sessionCount = 0
    /\ cursorCount = 0
    /\ reports = <<>>
    /\ shown = {}
    /\ retired = {}
    /\ acked = <<>>
-------------------------------------------------------------------------------
(***************************************************************************)
(* StartNewExamSession.                                                    *)
(***************************************************************************)
SeekableAlwaysAllowed(e, opts) == TRUE
SeekableAllowed(e, opts) ==
    ~("seekable" \in opts /\ Catalogue[e].category = "certification")

\* A visitor has no address to mail a report to: the consent is masked off.
SessionOptions(u, opts) ==
    IF u \in Visitors THEN opts \ {"sendReportEmail"} ELSE opts

NewExamSession(u, e, opts, paper) ==
    [user |-> u, exam |-> e, options |-> opts, paper |-> paper,
     cached |-> <<>>, cursors |-> <<>>, index |-> -1, question |-> NoQuestion,
     answer |-> NoAnswer]

SessionsOf(u) == IF u \in DOMAIN userSessions THEN userSessions[u] ELSE {}

StartNewExamSession(u, e, options, accept) ==
    /\ Catalogue[e].collections # <<>>
    /\ SeekableAllowed(e, options)
    /\ sessionCount < MaxSessions
    /\ LET id   == sessionCount + 1
           opts == SessionOptions(u, options)
       IN  \E paper \in Papers(e, opts, accept) :
             /\ paper # <<>>
             /\ sessionsStore' =
                  Store(sessionsStore, id, NewExamSession(u, e, opts, paper))
             /\ userSessions' = Store(userSessions, u, SessionsOf(u) \cup {id})
             /\ sessionCount' = id
             /\ acked' = Append(acked, NoAnswer)
    /\ UNCHANGED <<cursorCount, reports, shown, retired>>
-------------------------------------------------------------------------------
(***************************************************************************)
(* The guard every other command starts with: errExamNotFound, errNotOwner.*)
(***************************************************************************)
Owns(u, id) == id \in DOMAIN sessionsStore /\ sessionsStore[id].user = u

(***************************************************************************)
(* GetNextQuestion.  A nil cursor reads from the start; any other cursor   *)
(* must be in the session's table (errInvalidCursor) and is advanced in    *)
(* place.  No cursor is returned with the last question, and the cursor    *)
(* that led to it stays where it is.                                       *)
(***************************************************************************)
AnyCursorAccepted(sess, cursor) == TRUE
CursorAccepted(sess, cursor) == cursor = NoCursor \/ cursor \in DOMAIN sess.cursors

IndexOf(sess, cursor) ==
    IF cursor \in DOMAIN sess.cursors THEN sess.cursors[cursor] ELSE 0

\* The cache is keyed by the question's id attribute.
CollectionOf(e, p) == p[1]
CacheKey(e, p) == QuestionAt(e, p).id

FreshCopyEachTime(sess, p) == ServedCopies(sess.exam, sess.options, p)

\* cachedQuestion: build a copy on first access, serve that copy ever after.
CachedQuestion(sess, p) ==
    LET qid == CacheKey(sess.exam, p)
    IN  IF qid \in DOMAIN sess.cached
        THEN {sess.cached[qid]}
        ELSE ServedCopies(sess.exam, sess.options, p)

GetNextQuestion(u, id, cursor) ==
    /\ Owns(u, id)
    /\ CursorAccepted(sessionsStore[id], cursor)
    /\ LET sess == sessionsStore[id]
           idx  == IndexOf(sess, cursor)
           more == idx + 1 \in DOMAIN sess.paper
           mint == more /\ cursor = NoCursor
           next == IF mint THEN cursorCount + 1 ELSE cursor
       IN  /\ idx \in DOMAIN sess.paper
           /\ mint => cursorCount < MaxCursors
           /\ \E q \in CachedQuestion(sess, sess.paper[idx]) :
                /\ sessionsStore' = Store(sessionsStore, id,
                     [sess EXCEPT
                        !.cached   = Store(@, CacheKey(sess.exam, sess.paper[idx]), q),
                        !.cursors  = IF more THEN Store(@, next, idx + 1) ELSE @,
                        !.index    = idx,
                        !.question = q])
                /\ shown' = shown \cup {<<id, idx, q>>}
           /\ cursorCount' = IF mint THEN cursorCount + 1 ELSE cursorCount
    /\ UNCHANGED <<userSessions, sessionCount, reports, retired, acked>>
-------------------------------------------------------------------------------
(***************************************************************************)
(* SeekCursorTo mints a cursor at the wanted index and invalidates the one *)
(* it was given (which need not be a cursor of this session).              *)
(***************************************************************************)
InRangeOrAtEnd(sess, i) == i \in DOMAIN sess.paper \/ i - 1 \in DOMAIN sess.paper
InRange(sess, i) == i \in DOMAIN sess.paper

SeekCursorTo(u, id, cursor, newIndex) ==
    /\ Owns(u, id)
    /\ LET sess == sessionsStore[id]
       IN  /\ "seekable" \in sess.options
           /\ InRange(sess, newIndex)
           /\ cursorCount < MaxCursors
           /\ sessionsStore' = Store(sessionsStore, id,
                [sess EXCEPT !.cursors =
                   Delete(Store(@, cursorCount + 1, newIndex), cursor)])
           /\ retired' = retired \cup ({cursor} \cap DOMAIN sess.cursors)
    /\ cursorCount' = cursorCount + 1
    /\ UNCHANGED <<userSessions, sessionCount, reports, shown, acked>>

(***************************************************************************)
(* SubmitAnswer replaces the whole submission, unless it is a check only.  *)
(***************************************************************************)
AnswerKeptAlways(sess, answer, checkOnly) == answer
AnswerKept(sess, answer, checkOnly) == IF checkOnly THEN sess.answer ELSE answer

SubmitAnswer(u, id, answer, checkOnly) ==
    /\ Owns(u, id)
    /\ sessionsStore' = Store(sessionsStore, id,
         [sessionsStore[id] EXCEPT
            !.answer = AnswerKept(sessionsStore[id], answer, checkOnly)])
    /\ acked' = IF checkOnly THEN acked ELSE [acked EXCEPT ![id] = answer]
    /\ UNCHANGED <<userSessions, sessionCount, cursorCount, reports, shown, retired>>
-------------------------------------------------------------------------------
(***************************************************************************)
(* EndExamSession: grade and file a report if there is a submission, then  *)
(* forget the session.  Put and Grade are interfaces and may fail: the     *)
(* closure then returns with the session as it was.                        *)
(***************************************************************************)
ReportOf(id) ==
    LET sess == sessionsStore[id]
    IN  [session |-> id, user |-> sess.user, exam |-> sess.exam,
         answer |-> sess.answer, consent |-> "sendReportEmail" \in sess.options]

EntryDropped(u, id) == Delete(userSessions, u)

\* delete(sessions, examId), and the user's entry once it is empty
Unindexed(u, id) ==
    LET rest == SessionsOf(u) \ {id}
    IN  IF rest = {} THEN Delete(userSessions, u) ELSE Store(userSessions, u, rest)

Forget(id) ==
    /\ sessionsStore' = Delete(sessionsStore, id)
    /\ userSessions' = Unindexed(sessionsStore[id].user, id)

EndExamSession(u, id) ==
    /\ Owns(u, id)
    /\ IF sessionsStore[id].answer = NoAnswer
       THEN UNCHANGED reports
       ELSE reports' = Append(reports, ReportOf(id))
    /\ Forget(id)
    /\ UNCHANGED <<sessionCount, cursorCount, historyVars>>

ForgetAnyway(id) == Forget(id)
AfterFailedReport(id) == UNCHANGED <<sessionsStore, userSessions>>

EndExamSessionFails(u, id) ==
    /\ Owns(u, id)
    /\ sessionsStore[id].answer # NoAnswer
    /\ AfterFailedReport(id)
    /\ UNCHANGED <<sessionCount, cursorCount, reports, historyVars>>
-------------------------------------------------------------------------------
\* A client may present any cursor it was ever given, by any session, and ask
\* for any index: here those of the paper and the first one off each end.
Presentable == (1..cursorCount) \cup {NoCursor}
Askable(id) ==
    LET places == DOMAIN sessionsStore[id].paper
    IN  places \cup {-1} \cup {i + 1 : i \in places}

Next ==
    \E u \in Users :
      \/ \E e \in Exams, opts \in OptionChoices, accept \in AcceptChoices :
           StartNewExamSession(u, e, opts, accept)
      \/ \E id \in DOMAIN sessionsStore :
           \/ \E c \in Presentable : GetNextQuestion(u, id, c)
           \/ \E c \in Presentable, i \in Askable(id) : SeekCursorTo(u, id, c, i)
           \/ \E a \in Answers, checkOnly \in BOOLEAN :
                SubmitAnswer(u, id, a, checkOnly)
           \/ EndExamSession(u, id)
           \/ EndExamSessionFails(u, id)

Spec == Init /\ [][Next]_vars
-------------------------------------------------------------------------------
(***************************************************************************)
(* Properties.                                                             *)
(***************************************************************************)

\* The reverse index is in lock-step with the store, and holds no entry for a
\* user without sessions: ListExamSessions, which dereferences the store at every
\* id of the index, finds each of the user's sessions and no other.
IndexInLockStep ==
    /\ \A u \in DOMAIN userSessions : userSessions[u] # {}
    /\ \A u \in Users :
         SessionsOf(u) = {id \in DOMAIN sessionsStore : sessionsStore[id].user = u}

Reached(id) == {x[2] : x \in {y \in shown : y[1] = id}}

\* In a certification session no question is skipped: a question is served only
\* after every earlier one was, whatever cursors the client presents.
NoQuestionSkipped ==
    \A id \in DOMAIN sessionsStore :
      Catalogue[sessionsStore[id].exam].category = "certification" =>
        \A i \in Reached(id) : 0..i \subseteq Reached(id)

\* A candidate who comes back to a question, by any cursor, finds the question and
\* the order of its options as they were first shown.
PositionsAreStable ==
    \A x, y \in shown : x[1] = y[1] /\ x[2] = y[2] => x[3] = y[3]

\* A cursor that SeekCursorTo replaced is never valid again, in any session.
RetiredCursorsStayDead ==
    \A id \in DOMAIN sessionsStore : DOMAIN sessionsStore[id].cursors \cap retired = {}

ReportsOf(id) == {i \in DOMAIN reports : reports[i].session = id}

\* Exactly one report of the last acknowledged submission is on file for an ended
\* session that had one, none for a session without, and none while it is live.
EndedSessionsAccounted ==
    \A id \in 1..sessionCount :
      IF id \in DOMAIN sessionsStore \/ acked[id] = NoAnswer
      THEN ReportsOf(id) = {}
      ELSE \E i \in DOMAIN reports :
             ReportsOf(id) = {i} /\ reports[i].answer = acked[id]

\* A candidate who has been served every index of the paper has seen every
\* question of it ("so the candidate sees every question").
EveryQuestionSeen ==
    \A id \in DOMAIN sessionsStore :
      LET paper == sessionsStore[id].paper
      IN  Reached(id) = DOMAIN paper =>
            {x[3].position : x \in {y \in shown : y[1] = id}} = Range(paper)

\* "Questions are served one at a time in a fixed sequence: no jumping back and
\* forth": the index last served of a certification session never moves back.
FixedSequence ==
    [][\A id \in DOMAIN sessionsStore \cap DOMAIN sessionsStore' :
         Catalogue[sessionsStore[id].exam].category = "certification" =>
           sessionsStore'[id].index >= sessionsStore[id].index]_vars

\* The server implements SessionLifecycle.
Lifecycle == INSTANCE SessionLifecycle WITH
    Sessions   <- SessionIds,
    phase      <- [s \in SessionIds |->
                     IF s > sessionCount THEN "unused"
                     ELSE IF s \in DOMAIN sessionsStore THEN "open" ELSE "closed"],
    submission <- [s \in SessionIds |->
                     IF s \in DOMAIN sessionsStore
                     THEN sessionsStore[s].answer ELSE NoAnswer],
    filed      <- [i \in DOMAIN reports |->
                     [session |-> reports[i].session, answer |-> reports[i].answer]]

ImplementsLifecycle == Lifecycle!Spec
===============================================================================
