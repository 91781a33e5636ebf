--------------------------- MODULE ExamServerProofs ---------------------------
(***************************************************************************)
(* Proofs about ExamServer, for every set of users, every catalogue of     *)
(* exam documents the loader accepts, and every bound.                     *)
(***************************************************************************)
EXTENDS ExamServer, GoMapsProofs, FiniteSetTheorems

\* The questions of a document are finitely many places in it, each a question
\* record of the schema (of a known type, its number of options a natural number).
LEMMA PositionsFacts ==
    ASSUME NEW e \in Exams, NEW colls \in SUBSET DOMAIN Catalogue[e].collections
    PROVE  /\ IsFiniteSet(Positions(e, colls))
           /\ Positions(e, colls) \subseteq Places
           /\ Positions(e, colls) \subseteq AllPositions(e)
           /\ \A p \in Positions(e, colls) : /\ QuestionAt(e, p).options \in Nat
                                             /\ QuestionAt(e, p).type \in QuestionTypes
  <1> DEFINE cols == Catalogue[e].collections
             Q == [id : STRING, type : QuestionTypes, options : Nat]
             row == [c \in colls |-> {c} \X (1..Len(cols[c]))]
  <1>1. cols \in Seq(Seq(Q))
    <2>1. Catalogue[e] \in ExamDocuments
      BY CatalogueAssumption
    <2> QED BY <2>1 DEF ExamDocuments
  <1>2. /\ Len(cols) \in Nat /\ DOMAIN cols = 1..Len(cols)
        /\ \A c \in DOMAIN cols : cols[c] \in Seq(Q)
    <2> HIDE DEF cols, Q
    <2> QED BY <1>1
  <1>3. \A c \in DOMAIN cols : /\ Len(cols[c]) \in Nat
                              /\ \A i \in 1..Len(cols[c]) : cols[c][i] \in Q
    <2> HIDE DEF cols, Q
    <2> QED BY <1>2
  <1>a. Positions(e, colls) = UNION Range(row)
    BY DEF Positions, Range
  <1>4. IsFiniteSet(Positions(e, colls))
    <2>1. IsFiniteSet(colls)
      <3>1. IsFiniteSet(1..Len(cols))
        BY <1>2, FS_Interval
      <3> QED BY <1>2, <3>1, FS_Subset
    <2>2. \A r \in Range(row) : IsFiniteSet(r)
      <3>1. SUFFICES ASSUME NEW c \in colls
                     PROVE  IsFiniteSet({c} \X (1..Len(cols[c])))
        BY DEF Range
      <3>2. Len(cols[c]) \in Int
        BY <1>3
      <3>3. IsFiniteSet(1..Len(cols[c]))
        BY <3>2, FS_Interval
      <3>4. IsFiniteSet({c})
        BY FS_Singleton
      <3> QED BY <3>3, <3>4, FS_Product
    <2>3. row \in Surjection(colls, Range(row))
      BY DEF Surjection, Range
    <2>4. IsFiniteSet(Range(row))
      <3> HIDE DEF row
      <3> QED BY <2>1, <2>3, FS_Surjection
    <2> QED BY <1>a, <2>2, <2>4, FS_UNION
  <1>5. Positions(e, colls) \subseteq Places
    BY <1>2, <1>3, <1>a DEF Places, Range
  <1>6. Positions(e, colls) \subseteq AllPositions(e)
    BY DEF Positions, AllPositions
  <1>7. \A p \in Positions(e, colls) : /\ QuestionAt(e, p).options \in Nat
                                       /\ QuestionAt(e, p).type \in QuestionTypes
    BY <1>2, <1>3, <1>a DEF QuestionAt, Range
  <1> QED BY <1>4, <1>5, <1>6, <1>7
\* Every set of questions a session may be drawn from is a finite set of
\* questions of its exam.
LEMMA DrawsFacts ==
    ASSUME NEW e \in Exams, NEW opts, NEW S \in Draws(e, opts)
    PROVE  S \subseteq AllPositions(e) /\ IsFiniteSet(S)
  <1> DEFINE colls == DOMAIN Catalogue[e].collections
             pool  == Positions(e, Catalogue[e].from \cap colls)
  <1>1. pool \subseteq AllPositions(e) /\ IsFiniteSet(pool)
    BY PositionsFacts, Catalogue[e].from \cap colls \in SUBSET colls
  <1>2. AllPositions(e) \subseteq AllPositions(e) /\ IsFiniteSet(AllPositions(e))
    BY PositionsFacts DEF AllPositions
  <1>3. CASE Virtual(e)
    <2>1. S \in SUBSET pool
      BY <1>3 DEF Draws, kSubset
    <2> HIDE DEF pool
    <2> QED BY <1>1, <2>1, FS_Subset
  <1>4. CASE ~Virtual(e) /\ S \in {Positions(e, {c}) : c \in colls}
    <2>1. PICK c \in colls : S = Positions(e, {c})
      BY <1>4
    <2> QED BY <2>1, PositionsFacts, {c} \in SUBSET colls
  <1>5. CASE ~Virtual(e) /\ S = AllPositions(e)
    BY <1>2, <1>5
  <1> QED BY <1>3, <1>4, <1>5 DEF Draws

\* A paper numbers questions of its exam from 0 upwards without a gap.
LEMMA PaperFacts ==
    ASSUME NEW e \in Exams, NEW opts, NEW accept,
           NEW paper \in Papers(e, opts, accept)
    PROVE  /\ paper \in [DOMAIN paper -> AllPositions(e)]
           /\ DOMAIN paper \subseteq Nat
           /\ \A i \in DOMAIN paper : 0..i \subseteq DOMAIN paper
           /\ paper # <<>> => 0 \in DOMAIN paper
  <1>1. PICK S \in Draws(e, opts) : paper \in Orders(OfAcceptedType(e, S, accept))
    BY DEF Papers
  <1> DEFINE T == OfAcceptedType(e, S, accept)
  <1>2. T \subseteq S
    BY DEF OfAcceptedType
  <1>3. T \subseteq AllPositions(e) /\ IsFiniteSet(T)
    <2> HIDE DEF T
    <2> QED BY <1>2, DrawsFacts, FS_Subset
  <1>4. Cardinality(T) \in Nat
    <2> HIDE DEF T
    <2> QED BY <1>3, FS_CardinalityType
  <1>5. paper \in [0..(Cardinality(T) - 1) -> T]
    BY <1>1 DEF Orders, Bijection, Injection
  <1> HIDE DEF T
  <1>6. DOMAIN paper = 0..(Cardinality(T) - 1)
    BY <1>5
  <1>7. paper # <<>> => 0 \in DOMAIN paper
    <2>1. SUFFICES ASSUME 0 \notin DOMAIN paper
                   PROVE  paper = <<>>
      OBVIOUS
    <2>2. DOMAIN paper = {}
      BY <1>4, <1>6, <2>1
    <2> QED BY <1>5, <2>2, <1>6
  <1> QED BY <1>3, <1>4, <1>5, <1>6, <1>7

\* The copy of a question a session serves is a position with an order of options.
LEMMA ServedFacts ==
    ASSUME NEW e \in Exams, NEW opts, NEW p \in AllPositions(e),
           NEW q \in ServedCopies(e, opts, p)
    PROVE  q \in Served
  <1> DEFINE n == QuestionAt(e, p).options
  <1>1. n \in Nat /\ p \in Places
    BY PositionsFacts, DOMAIN Catalogue[e].collections
                         \in SUBSET DOMAIN Catalogue[e].collections DEF AllPositions
  <1>2. PICK o \in [1..n -> 1..n] : q = [position |-> p, order |-> o]
    BY DEF ServedCopies, Identity, Bijection, Injection
  <1> HIDE DEF n
  <1>3. o \in Seq(Nat \ {0})
    <2>1. o \in [1..n -> Nat \ {0}]
      BY <1>1, <1>2
    <2> QED BY <1>1, <2>1
  <1> QED BY <1>1, <1>2, <1>3 DEF Served
-------------------------------------------------------------------------------
(***************************************************************************)
(* Type correctness: one lemma per command.                                *)
(***************************************************************************)
LEMMA InitType == Init => TypeOK
  BY BoundsAssumption DEF Init, TypeOK, SessionsTyped, IndexTyped

\* A new session is a session, and has no cursors yet.
LEMMA NewSessionType ==
    ASSUME NEW u \in Users, NEW e \in Exams, NEW opts \in SUBSET ExamOptions,
           NEW accept, NEW paper \in Papers(e, opts, accept), paper # <<>>
    PROVE  IsSession(NewExamSession(u, e, opts, paper))
  <1>1. /\ paper \in [DOMAIN paper -> AllPositions(e)]
        /\ DOMAIN paper \subseteq Nat /\ 0 \in DOMAIN paper
    BY PaperFacts
  <1> QED BY <1>1 DEF IsSession, NewExamSession

LEMMA StartType ==
    ASSUME TypeOK, NEW u \in Users, NEW e \in Exams,
           NEW options \in OptionChoices, NEW accept,
           StartNewExamSession(u, e, options, accept)
    PROVE  TypeOK'
  <1> DEFINE id == sessionCount + 1
             opts == SessionOptions(u, options)
  <1>1. PICK paper \in Papers(e, opts, accept) :
          /\ paper # <<>>
          /\ sessionsStore' =
               Store(sessionsStore, id, NewExamSession(u, e, opts, paper))
    BY DEF StartNewExamSession
  <1> DEFINE new == NewExamSession(u, e, opts, paper)
  <1>2. IsSession(new) /\ new.cursors = <<>>
    <2>1. opts \in SUBSET ExamOptions
      BY ChoicesAssumption DEF SessionOptions
    <2> HIDE DEF opts
    <2> QED BY <1>1, <2>1, NewSessionType DEF NewExamSession
  <1>3. /\ sessionCount \in Nat /\ sessionCount' = id
        /\ id \in 1..MaxSessions /\ cursorCount' = cursorCount
    BY BoundsAssumption DEF TypeOK, StartNewExamSession
  <1> HIDE DEF new, id, opts
  <1>4. SessionsTyped'
    <2>1. /\ DOMAIN sessionsStore' = DOMAIN sessionsStore \cup {id}
          /\ \A i \in DOMAIN sessionsStore' :
               \/ i = id /\ sessionsStore'[i] = new
               \/ i \in DOMAIN sessionsStore /\ sessionsStore'[i] = sessionsStore[i]
      BY <1>1 DEF Store, new
    <2> QED BY <1>2, <1>3, <2>1 DEF TypeOK, SessionsTyped, id
  <1>5. IndexTyped'
    <2>1. userSessions' = Store(userSessions, u, SessionsOf(u) \cup {id})
      BY DEF StartNewExamSession, id
    <2>2. SessionsOf(u) \cup {id} \subseteq 1..sessionCount'
      BY <1>3 DEF TypeOK, IndexTyped, SessionsOf, id
    <2>3. \A v \in DOMAIN userSessions : userSessions[v] \subseteq 1..sessionCount'
      BY <1>3 DEF TypeOK, IndexTyped, id
    <2>4. /\ DOMAIN userSessions' = DOMAIN userSessions \cup {u}
          /\ \A v \in DOMAIN userSessions' :
               \/ userSessions'[v] = SessionsOf(u) \cup {id}
               \/ v \in DOMAIN userSessions /\ userSessions'[v] = userSessions[v]
      BY <2>1 DEF Store
    <2> QED BY <2>2, <2>3, <2>4 DEF TypeOK, IndexTyped
  <1>6. acked' \in [1..sessionCount' -> Answers \cup {NoAnswer}]
    <2>1. acked \in Seq(Answers \cup {NoAnswer}) /\ Len(acked) = sessionCount
      BY <1>3 DEF TypeOK
    <2>2. acked' = Append(acked, NoAnswer)
      BY DEF StartNewExamSession
    <2>3. acked' \in Seq(Answers \cup {NoAnswer}) /\ Len(acked') = sessionCount'
      BY <1>3, <2>1, <2>2 DEF id
    <2> QED BY <2>3
  <1>7. /\ sessionCount' \in 0..MaxSessions
        /\ shown' \subseteq (1..sessionCount') \X Nat \X Served
    BY <1>3 DEF TypeOK, StartNewExamSession, id
  <1> QED BY <1>3, <1>4, <1>5, <1>6, <1>7 DEF TypeOK, StartNewExamSession
\* A command that replaces one session by another, and hands out cursors at most.
LEMMA UpdateType ==
    ASSUME TypeOK, NEW id \in DOMAIN sessionsStore, NEW sess, IsSession(sess),
           cursorCount' \in 0..MaxCursors, cursorCount' >= cursorCount,
           DOMAIN sess.cursors \subseteq 1..cursorCount',
           sessionsStore' = Store(sessionsStore, id, sess),
           UNCHANGED <<userSessions, sessionCount>>
    PROVE  SessionsTyped' /\ IndexTyped'
  <1>1. DOMAIN sessionsStore' = DOMAIN sessionsStore
    BY DEF Store
  <1>2. \A i \in DOMAIN sessionsStore' :
          sessionsStore'[i] = IF i = id THEN sess ELSE sessionsStore[i]
    BY DEF Store
  <1>3. 1..cursorCount \subseteq 1..cursorCount'
    BY BoundsAssumption DEF TypeOK
  <1> QED BY <1>1, <1>2, <1>3 DEF TypeOK, SessionsTyped, IndexTyped

LEMMA SubmitType ==
    ASSUME TypeOK, NEW u, NEW id, NEW answer \in Answers, NEW checkOnly \in BOOLEAN,
           SubmitAnswer(u, id, answer, checkOnly)
    PROVE  TypeOK'
  <1> DEFINE old == sessionsStore[id]
             new == [old EXCEPT !.answer = AnswerKept(old, answer, checkOnly)]
  <1>1. id \in DOMAIN sessionsStore /\ IsSession(old)
    BY DEF SubmitAnswer, Owns, TypeOK, SessionsTyped
  <1>2. IsSession(new) /\ new.cursors = old.cursors
    <2>1. AnswerKept(old, answer, checkOnly) \in Answers \cup {NoAnswer}
      BY <1>1 DEF IsSession, AnswerKept
    <2> HIDE DEF old
    <2> QED BY <1>1, <2>1 DEF IsSession
  <1>3. sessionsStore' = Store(sessionsStore, id, new)
    BY DEF SubmitAnswer
  <1>4. SessionsTyped' /\ IndexTyped'
    <2>1. /\ cursorCount' = cursorCount /\ cursorCount \in 0..MaxCursors
          /\ UNCHANGED <<userSessions, sessionCount>>
          /\ DOMAIN old.cursors \subseteq 1..cursorCount
      BY <1>1 DEF SubmitAnswer, TypeOK, SessionsTyped
    <2>2. cursorCount' >= cursorCount
      BY <2>1, BoundsAssumption
    <2> HIDE DEF old, new
    <2> QED BY <1>1, <1>2, <1>3, <2>1, <2>2, UpdateType
  <1>5. acked' \in [1..sessionCount' -> Answers \cup {NoAnswer}]
    BY DEF SubmitAnswer, TypeOK
  <1> QED BY <1>4, <1>5 DEF SubmitAnswer, TypeOK

LEMMA SeekType ==
    ASSUME TypeOK, NEW u, NEW id, NEW cursor, NEW newIndex,
           SeekCursorTo(u, id, cursor, newIndex)
    PROVE  TypeOK'
  <1> DEFINE old == sessionsStore[id]
             stored == Store(old.cursors, cursorCount + 1, newIndex)
             new == [old EXCEPT !.cursors = Delete(stored, cursor)]
  <1>1. /\ id \in DOMAIN sessionsStore /\ IsSession(old)
        /\ newIndex \in DOMAIN old.paper
        /\ DOMAIN old.cursors \subseteq 1..cursorCount
    BY DEF SeekCursorTo, Owns, TypeOK, SessionsTyped, InRange
  <1>2. /\ cursorCount \in Nat /\ cursorCount' = cursorCount + 1
        /\ cursorCount' \in 0..MaxCursors
    BY BoundsAssumption DEF SeekCursorTo, TypeOK
  <1>3. IsSession(new) /\ DOMAIN new.cursors \subseteq 1..cursorCount'
    <2>1. stored \in [DOMAIN old.cursors \cup {cursorCount + 1} -> DOMAIN old.paper]
      <3>1. old.cursors \in [DOMAIN old.cursors -> DOMAIN old.paper]
        BY <1>1 DEF IsSession
      <3> HIDE DEF old
      <3> QED BY <1>1, <3>1, StoreType
    <2> HIDE DEF stored
    <2>2. Delete(stored, cursor) \in [DOMAIN stored \ {cursor} -> DOMAIN old.paper]
      <3> HIDE DEF old
      <3> QED BY <2>1, DeleteType
    <2>3. DOMAIN Delete(stored, cursor) \subseteq 1..cursorCount'
      BY <1>1, <1>2, <2>1, <2>2
    <2>4. new.cursors = Delete(stored, cursor)
      BY <1>1 DEF IsSession
    <2> HIDE DEF old
    <2>5. Delete(stored, cursor) \in [DOMAIN Delete(stored, cursor) -> DOMAIN old.paper]
      BY <2>2
    <2> QED BY <1>1, <2>3, <2>4, <2>5 DEF IsSession
  <1>4. SessionsTyped' /\ IndexTyped'
    <2>1. /\ sessionsStore' = Store(sessionsStore, id, new)
          /\ UNCHANGED <<userSessions, sessionCount>>
      BY DEF SeekCursorTo
    <2>2. cursorCount' >= cursorCount
      BY <1>2
    <2> HIDE DEF old, new
    <2> QED BY <1>1, <1>2, <1>3, <2>1, <2>2, UpdateType
  <1>5. retired' \subseteq 1..cursorCount'
    BY <1>1, <1>2 DEF SeekCursorTo, TypeOK
  <1> QED BY <1>2, <1>4, <1>5 DEF SeekCursorTo, TypeOK
\* What cachedQuestion may return for a question of the paper is a served copy.
LEMMA CachedQuestionType ==
    ASSUME NEW sess, IsSession(sess), NEW i \in DOMAIN sess.paper,
           NEW q \in CachedQuestion(sess, sess.paper[i])
    PROVE  q \in Served
  <1>1. /\ sess.exam \in Exams /\ sess.paper[i] \in AllPositions(sess.exam)
        /\ sess.cached \in [DOMAIN sess.cached -> Served]
    BY DEF IsSession
  <1>2. CASE q \in ServedCopies(sess.exam, sess.options, sess.paper[i])
    BY <1>1, <1>2, ServedFacts
  <1>3. CASE CacheKey(sess.exam, sess.paper[i]) \in DOMAIN sess.cached
    BY <1>1, <1>3 DEF CachedQuestion
  <1> QED BY <1>2, <1>3 DEF CachedQuestion

LEMMA GetNextType ==
    ASSUME TypeOK, NEW u, NEW id, NEW cursor \in Presentable,
           GetNextQuestion(u, id, cursor)
    PROVE  TypeOK'
  <1> DEFINE old  == sessionsStore[id]
             idx  == IndexOf(old, cursor)
             more == idx + 1 \in DOMAIN old.paper
             mint == more /\ cursor = NoCursor
             next == IF mint THEN cursorCount + 1 ELSE cursor
             qid  == CacheKey(old.exam, old.paper[idx])
             table == IF more THEN Store(old.cursors, next, idx + 1) ELSE old.cursors
  <1>1. /\ id \in DOMAIN sessionsStore /\ IsSession(old)
        /\ DOMAIN old.cursors \subseteq 1..cursorCount
        /\ idx \in DOMAIN old.paper /\ idx \in Nat
        /\ CursorAccepted(old, cursor)
    BY DEF GetNextQuestion, Owns, TypeOK, SessionsTyped, IsSession
  <1>2. PICK q \in CachedQuestion(old, old.paper[idx]) :
          /\ sessionsStore' = Store(sessionsStore, id,
               [old EXCEPT !.cached   = Store(old.cached, qid, q),
                           !.cursors  = table,
                           !.index    = idx,
                           !.question = q])
          /\ shown' = shown \cup {<<id, idx, q>>}
    BY DEF GetNextQuestion
  <1> DEFINE new == [old EXCEPT !.cached   = Store(old.cached, qid, q),
                                !.cursors  = table,
                                !.index    = idx,
                                !.question = q]
  <1>3. /\ cursorCount \in Nat /\ cursorCount' \in 0..MaxCursors
        /\ cursorCount' = IF mint THEN cursorCount + 1 ELSE cursorCount
    BY BoundsAssumption DEF GetNextQuestion, TypeOK
  <1>4. q \in Served
    BY <1>1, CachedQuestionType
  <1>5. Store(old.cached, qid, q) \in [DOMAIN Store(old.cached, qid, q) -> Served]
    <2>1. old.cached \in [DOMAIN old.cached -> Served]
      BY <1>1 DEF IsSession
    <2>2. Store(old.cached, qid, q) \in [DOMAIN old.cached \cup {qid} -> Served]
      <3> HIDE DEF old, qid
      <3> QED BY <1>4, <2>1, StoreType
    <2> QED BY <2>2
  <1>6. /\ table \in [DOMAIN table -> DOMAIN old.paper]
        /\ DOMAIN table \subseteq 1..cursorCount'
    <2>1. old.cursors \in [DOMAIN old.cursors -> DOMAIN old.paper]
      BY <1>1 DEF IsSession
    <2>2. CASE ~more
      <3> HIDE DEF old, idx, mint
      <3> QED BY <1>1, <1>3, <2>1, <2>2
    <2>3. CASE more
      <3>1. next \in 1..cursorCount'
        BY <1>1, <1>3, <2>3 DEF CursorAccepted
      <3>2. Store(old.cursors, next, idx + 1)
              \in [DOMAIN old.cursors \cup {next} -> DOMAIN old.paper]
        <4> HIDE DEF old, idx, next
        <4> QED BY <2>1, <2>3, StoreType
      <3>3. table \in [DOMAIN old.cursors \cup {next} -> DOMAIN old.paper]
        BY <2>3, <3>2
      <3>4. cursorCount' >= cursorCount
        BY <1>3
      <3> HIDE DEF old, next, table
      <3> QED BY <1>1, <1>3, <3>1, <3>3, <3>4
    <2> QED BY <2>2, <2>3
  <1> HIDE DEF table, qid
  <1>7. IsSession(new) /\ new.cursors = table
    <2> DEFINE cache == Store(old.cached, qid, q)
    <2>1. q # NoQuestion /\ idx # -1
      BY <1>1, <1>4, QuestionAssumption DEF Served, Places
    <2>2. cache \in [DOMAIN cache -> Served]
      BY <1>5
    <2>3. new = [old EXCEPT !.cached = cache, !.cursors = table,
                            !.index = idx, !.question = q]
      OBVIOUS
    <2> HIDE DEF old, idx, cache, new
    <2> QED BY <1>1, <1>4, <1>6, <2>1, <2>2, <2>3 DEF IsSession
  <1>8. SessionsTyped' /\ IndexTyped'
    <2>1. UNCHANGED <<userSessions, sessionCount>>
      BY DEF GetNextQuestion
    <2>2. cursorCount' >= cursorCount
      BY <1>3
    <2> HIDE DEF old, new
    <2> QED BY <1>1, <1>2, <1>3, <1>6, <1>7, <2>1, <2>2, UpdateType DEF new
  <1>9. shown' \subseteq (1..sessionCount') \X Nat \X Served
    BY <1>1, <1>2, <1>4 DEF GetNextQuestion, TypeOK, SessionsTyped
  <1>10. retired' \subseteq 1..cursorCount'
    BY <1>3 DEF GetNextQuestion, TypeOK
  <1> QED BY <1>3, <1>8, <1>9, <1>10 DEF GetNextQuestion, TypeOK

\* Removing a session, in EndExamSession.
LEMMA ForgetType ==
    ASSUME TypeOK, NEW id \in DOMAIN sessionsStore, Forget(id),
           UNCHANGED <<sessionCount, cursorCount>>
    PROVE  SessionsTyped' /\ IndexTyped'
  <1> DEFINE u == sessionsStore[id].user
             rest == SessionsOf(u) \ {id}
  <1>1. u \in Users
    BY DEF TypeOK, SessionsTyped, IsSession
  <1>2. SessionsTyped'
    BY DEF Forget, Delete, Restrict, TypeOK, SessionsTyped
  <1>3. rest \subseteq 1..sessionCount
    BY DEF TypeOK, IndexTyped, SessionsOf
  <1>4. userSessions' = IF rest = {} THEN Delete(userSessions, u)
                                     ELSE Store(userSessions, u, rest)
    BY DEF Forget, Unindexed
  <1> HIDE DEF u, rest
  <1>5. IndexTyped'
    BY <1>1, <1>3, <1>4 DEF Delete, Restrict, Store, TypeOK, IndexTyped
  <1> QED BY <1>2, <1>5

LEMMA EndType ==
    ASSUME TypeOK, NEW u, NEW id, EndExamSession(u, id)
    PROVE  TypeOK'
  <1>1. /\ id \in DOMAIN sessionsStore /\ Forget(id)
        /\ UNCHANGED <<sessionCount, cursorCount, historyVars>>
    BY DEF EndExamSession, Owns
  <1>2. SessionsTyped' /\ IndexTyped'
    BY <1>1, ForgetType
  <1>3. reports' \in Seq(Report)
    <2>1. CASE sessionsStore[id].answer = NoAnswer
      BY <2>1 DEF EndExamSession, TypeOK
    <2>2. CASE sessionsStore[id].answer # NoAnswer
      <3>1. IsSession(sessionsStore[id]) /\ id \in 1..MaxSessions
        BY <1>1, BoundsAssumption DEF TypeOK, SessionsTyped
      <3>2. ReportOf(id) \in Report
        BY <2>2, <3>1 DEF ReportOf, Report, IsSession, SessionIds
      <3>3. reports' = Append(reports, ReportOf(id))
        BY <2>2 DEF EndExamSession
      <3> QED BY <3>2, <3>3 DEF TypeOK
    <2> QED BY <2>1, <2>2
  <1> QED BY <1>1, <1>2, <1>3 DEF TypeOK, historyVars

LEMMA EndFailsType ==
    ASSUME TypeOK, NEW u, NEW id, EndExamSessionFails(u, id)
    PROVE  TypeOK'
  BY DEF EndExamSessionFails, AfterFailedReport, historyVars, TypeOK,
         SessionsTyped, IndexTyped

LEMMA NextType == TypeOK /\ [Next]_vars => TypeOK'
  <1>1. CASE UNCHANGED vars
    BY <1>1 DEF vars, serverVars, historyVars, TypeOK, SessionsTyped, IndexTyped
  <1>2. ASSUME TypeOK, Next PROVE TypeOK'
    BY <1>2, StartType, GetNextType, SeekType, SubmitType, EndType, EndFailsType
       DEF Next
  <1> QED BY <1>1, <1>2

\* Whatever commands the clients send, the state has its types, and every cursor
\* and the index last served lie within the session's paper.
THEOREM TypeCorrect == Spec => []TypeOK
  BY InitType, NextType, PTL DEF Spec
-------------------------------------------------------------------------------
(***************************************************************************)
(* The safety of exam sessions, for every catalogue, set of users and      *)
(* bound.  The properties of ExamServer are strengthened to an inductive   *)
(* invariant by what ties the tables of a session to its history:          *)
(*   - live sessions share no cursor, so that retiring one is final;       *)
(*   - the answer a live session holds is the one it acknowledged last;    *)
(*   - whatever was shown of a live session is in its cache;               *)
(*   - a cursor of a certification session has its way behind it shown,    *)
(*     because such a session cannot seek.                                 *)
(***************************************************************************)

CursorsApart ==
    \A i, j \in DOMAIN sessionsStore :
      i # j => DOMAIN sessionsStore[i].cursors \cap DOMAIN sessionsStore[j].cursors = {}

AnswersAcknowledged ==
    \A id \in DOMAIN sessionsStore : acked[id] = sessionsStore[id].answer

ReportsAreOfSessions == \A i \in DOMAIN reports : reports[i].session \in 1..sessionCount

KeyAt(sess, i) == CacheKey(sess.exam, sess.paper[i])

ShownIsCached ==
    \A x \in shown : x[1] \in DOMAIN sessionsStore =>
      LET sess == sessionsStore[x[1]]
      IN  /\ x[2] \in DOMAIN sess.paper /\ KeyAt(sess, x[2]) \in DOMAIN sess.cached
          /\ sess.cached[KeyAt(sess, x[2])] = x[3]

IsCertification(sess) == Catalogue[sess.exam].category = "certification"

\* S shows the indexes below i of session id.
ShownUpTo(S, id, i) == \A j \in Nat : j < i => \E q \in Served : <<id, j, q>> \in S

CertificationIsLinear ==
    /\ \A id \in DOMAIN sessionsStore : IsCertification(sessionsStore[id]) =>
         /\ "seekable" \notin sessionsStore[id].options
         /\ \A c \in DOMAIN sessionsStore[id].cursors :
              ShownUpTo(shown, id, sessionsStore[id].cursors[c])
    /\ \A x \in shown :
         x[1] \in DOMAIN sessionsStore /\ IsCertification(sessionsStore[x[1]]) =>
           ShownUpTo(shown, x[1], x[2])

SInv == /\ IndexInLockStep /\ CursorsApart /\ RetiredCursorsStayDead
        /\ AnswersAcknowledged /\ ReportsAreOfSessions /\ EndedSessionsAccounted
        /\ ShownIsCached /\ PositionsAreStable /\ CertificationIsLinear
-------------------------------------------------------------------------------
(***************************************************************************)
(* What each command does, as the proofs below use it.                     *)
(***************************************************************************)
\* A command on session id leaves the other sessions alone, and does not change
\* whose session it is, nor its exam, options and paper.
WorksOn(id) ==
    /\ id \in DOMAIN sessionsStore
    /\ DOMAIN sessionsStore' = DOMAIN sessionsStore
    /\ \A i \in DOMAIN sessionsStore \ {id} : sessionsStore'[i] = sessionsStore[i]
    /\ sessionsStore'[id].user = sessionsStore[id].user
    /\ sessionsStore'[id].exam = sessionsStore[id].exam
    /\ sessionsStore'[id].options = sessionsStore[id].options
    /\ sessionsStore'[id].paper = sessionsStore[id].paper
    /\ UNCHANGED <<userSessions, sessionCount, reports>>

LEMMA TypeFacts ==
    ASSUME TypeOK
    PROVE  /\ sessionCount \in Nat /\ cursorCount \in Nat
           /\ \A id \in DOMAIN sessionsStore :
                /\ IsSession(sessionsStore[id]) /\ id \in 1..sessionCount
                /\ DOMAIN sessionsStore[id].cursors \subseteq 1..cursorCount
           /\ retired \subseteq 1..cursorCount
           /\ acked \in Seq(Answers \cup {NoAnswer}) /\ Len(acked) = sessionCount
           /\ shown \subseteq (1..sessionCount) \X Nat \X Served
           /\ reports \in Seq(Report)
  <1>1. sessionCount \in Nat /\ cursorCount \in Nat
    BY BoundsAssumption DEF TypeOK
  <1>2. acked \in Seq(Answers \cup {NoAnswer}) /\ Len(acked) = sessionCount
    BY <1>1 DEF TypeOK
  <1> QED BY <1>1, <1>2 DEF TypeOK, SessionsTyped

\* Replacing a session that is there leaves the others alone.
LEMMA ReplaceFacts ==
    ASSUME NEW f, NEW id \in DOMAIN f, NEW s
    PROVE  /\ DOMAIN Store(f, id, s) = DOMAIN f /\ Store(f, id, s)[id] = s
           /\ \A i \in DOMAIN f \ {id} : Store(f, id, s)[i] = f[i]
  BY DEF Store

LEMMA StartSummary ==
    ASSUME TypeOK, NEW u \in Users, NEW e \in Exams, NEW options \in OptionChoices,
           NEW accept, StartNewExamSession(u, e, options, accept)
    PROVE  LET id == sessionCount + 1 IN
           /\ id \notin DOMAIN sessionsStore
           /\ DOMAIN sessionsStore' = DOMAIN sessionsStore \cup {id}
           /\ \A i \in DOMAIN sessionsStore : sessionsStore'[i] = sessionsStore[i]
           /\ sessionsStore'[id].user = u /\ sessionsStore'[id].answer = NoAnswer
           /\ sessionsStore'[id].cursors = <<>> /\ sessionsStore'[id].cached = <<>>
           /\ IsCertification(sessionsStore'[id]) =>
                "seekable" \notin sessionsStore'[id].options
           /\ userSessions' = Store(userSessions, u, SessionsOf(u) \cup {id})
           /\ sessionCount' = id /\ acked' = Append(acked, NoAnswer)
           /\ UNCHANGED <<cursorCount, reports, shown, retired>>
  <1> DEFINE id == sessionCount + 1
             opts == SessionOptions(u, options)
  <1>1. PICK paper : sessionsStore' =
                       Store(sessionsStore, id, NewExamSession(u, e, opts, paper))
    BY DEF StartNewExamSession
  <1> DEFINE new == NewExamSession(u, e, opts, paper)
  <1>2. new.user = u /\ new.answer = NoAnswer /\ new.cursors = <<>> /\ new.cached = <<>>
        /\ new.exam = e /\ new.options = opts
    BY DEF NewExamSession
  <1>3. Catalogue[e].category = "certification" => "seekable" \notin opts
    BY DEF StartNewExamSession, SeekableAllowed, SessionOptions
  <1>4. id \notin DOMAIN sessionsStore
    BY TypeFacts
  <1>5. /\ DOMAIN sessionsStore' = DOMAIN sessionsStore \cup {id}
        /\ sessionsStore'[id] = new
        /\ \A i \in DOMAIN sessionsStore : sessionsStore'[i] = sessionsStore[i]
    <2> HIDE DEF new, id
    <2> QED BY <1>1, <1>4 DEF Store, new
  <1> HIDE DEF new
  <1> QED BY <1>2, <1>3, <1>4, <1>5 DEF StartNewExamSession, IsCertification

LEMMA GetNextSummary ==
    ASSUME TypeOK, NEW u, NEW id, NEW cursor, GetNextQuestion(u, id, cursor)
    PROVE  LET old == sessionsStore[id]
               new == sessionsStore'[id]
               i   == IndexOf(old, cursor)
               key == KeyAt(old, i)
           IN  /\ WorksOn(id) /\ i \in DOMAIN old.paper /\ i \in Nat
               /\ cursor \in DOMAIN old.cursors \/ i = 0
               /\ new.answer = old.answer
               /\ \E q \in Served :
                    /\ IF key \in DOMAIN old.cached THEN q = old.cached[key]
                       ELSE q.position = old.paper[i]
                    /\ new.cached = Store(old.cached, key, q)
                    /\ shown' = shown \cup {<<id, i, q>>}
               /\ \/ new.cursors = old.cursors
                  \/ \E c \in DOMAIN old.cursors \cup {cursorCount + 1} :
                       /\ new.cursors = Store(old.cursors, c, i + 1)
                       /\ c \in DOMAIN old.cursors \/ cursorCount' = cursorCount + 1
               /\ cursorCount' \in {cursorCount, cursorCount + 1}
               /\ UNCHANGED <<retired, acked>>
  <1> DEFINE old  == sessionsStore[id]
             i    == IndexOf(old, cursor)
             key  == KeyAt(old, i)
             more == i + 1 \in DOMAIN old.paper
             mint == more /\ cursor = NoCursor
             next == IF mint THEN cursorCount + 1 ELSE cursor
             table == IF more THEN Store(old.cursors, next, i + 1) ELSE old.cursors
  <1>1. /\ id \in DOMAIN sessionsStore /\ IsSession(old) /\ i \in DOMAIN old.paper
        /\ DOMAIN old.paper \subseteq Nat /\ CursorAccepted(old, cursor)
    BY TypeFacts DEF GetNextQuestion, Owns, IsSession
  <1>2. PICK q \in CachedQuestion(old, old.paper[i]) :
          /\ sessionsStore' = Store(sessionsStore, id,
               [old EXCEPT !.cached = Store(old.cached, key, q), !.cursors = table,
                           !.index = i, !.question = q])
          /\ shown' = shown \cup {<<id, i, q>>}
    BY DEF GetNextQuestion, KeyAt
  <1> DEFINE new == [old EXCEPT !.cached = Store(old.cached, key, q), !.cursors = table,
                                !.index = i, !.question = q]
  <1>3. q \in Served /\ IF key \in DOMAIN old.cached THEN q = old.cached[key]
                        ELSE q.position = old.paper[i]
    <2>1. q \in Served
      BY <1>1, CachedQuestionType
    <2>2. \A e, o, p : \A c \in ServedCopies(e, o, p) : c.position = p
      BY DEF ServedCopies
    <2> QED BY <2>1, <2>2 DEF CachedQuestion, KeyAt
  <1>4. /\ new.cached = Store(old.cached, key, q) /\ new.cursors = table
        /\ new.user = old.user /\ new.exam = old.exam /\ new.options = old.options
        /\ new.paper = old.paper /\ new.answer = old.answer
    <2> HIDE DEF old, key, table, i
    <2> QED BY <1>1 DEF IsSession
  <1>5. /\ DOMAIN sessionsStore' = DOMAIN sessionsStore /\ sessionsStore'[id] = new
        /\ \A x \in DOMAIN sessionsStore \ {id} : sessionsStore'[x] = sessionsStore[x]
    <2> HIDE DEF old, new
    <2> QED BY <1>1, <1>2, ReplaceFacts DEF new
  <1>6. /\ cursorCount' = IF mint THEN cursorCount + 1 ELSE cursorCount
        /\ UNCHANGED <<userSessions, sessionCount, reports, retired, acked>>
    BY DEF GetNextQuestion
  <1>7. \/ table = old.cursors
        \/ /\ table = Store(old.cursors, next, i + 1)
           /\ \/ next = cursorCount + 1 /\ cursorCount' = cursorCount + 1
              \/ next \in DOMAIN old.cursors
    BY <1>1, <1>6 DEF CursorAccepted
  <1>8. cursor \in DOMAIN old.cursors \/ i = 0
    BY DEF IndexOf
  <1>9. WorksOn(id)
    <2> HIDE DEF old, new
    <2> QED BY <1>1, <1>4, <1>5, <1>6 DEF WorksOn, old
  <1> HIDE DEF new, table, next, mint, key, i
  <1>10. \/ new.cursors = old.cursors
         \/ \E c \in DOMAIN old.cursors \cup {cursorCount + 1} :
              /\ new.cursors = Store(old.cursors, c, i + 1)
              /\ c \in DOMAIN old.cursors \/ cursorCount' = cursorCount + 1
    BY <1>4, <1>7
  <1> QED BY <1>1, <1>2, <1>3, <1>4, <1>5, <1>6, <1>8, <1>9, <1>10 DEF key, i

LEMMA SeekSummary ==
    ASSUME TypeOK, NEW u, NEW id, NEW cursor, NEW newIndex,
           SeekCursorTo(u, id, cursor, newIndex)
    PROVE  LET old == sessionsStore[id]
               new == sessionsStore'[id]
           IN  /\ WorksOn(id) /\ "seekable" \in old.options
               /\ new.answer = old.answer /\ new.cached = old.cached
               /\ DOMAIN new.cursors =
                    (DOMAIN old.cursors \cup {cursorCount + 1}) \ {cursor}
               /\ retired' = retired \cup ({cursor} \cap DOMAIN old.cursors)
               /\ cursorCount' = cursorCount + 1
               /\ UNCHANGED <<shown, acked>>
  <1> DEFINE old == sessionsStore[id]
             table == Delete(Store(old.cursors, cursorCount + 1, newIndex), cursor)
             new == [old EXCEPT !.cursors = table]
  <1>1. id \in DOMAIN sessionsStore /\ IsSession(old)
    BY TypeFacts DEF SeekCursorTo, Owns
  <1>2. /\ new.cursors = table /\ new.user = old.user /\ new.exam = old.exam
        /\ new.options = old.options /\ new.paper = old.paper
        /\ new.answer = old.answer /\ new.cached = old.cached
    <2> HIDE DEF old, table
    <2> QED BY <1>1 DEF IsSession
  <1>3. DOMAIN table = (DOMAIN old.cursors \cup {cursorCount + 1}) \ {cursor}
    BY DEF Delete, Restrict, Store
  <1>4. sessionsStore' = Store(sessionsStore, id, new)
    BY DEF SeekCursorTo
  <1>5. /\ DOMAIN sessionsStore' = DOMAIN sessionsStore /\ sessionsStore'[id] = new
        /\ \A x \in DOMAIN sessionsStore \ {id} : sessionsStore'[x] = sessionsStore[x]
    <2> HIDE DEF old, new
    <2> QED BY <1>1, <1>4, ReplaceFacts DEF new
  <1>6. WorksOn(id)
    <2>1. UNCHANGED <<userSessions, sessionCount, reports>>
      BY DEF SeekCursorTo
    <2> HIDE DEF new
    <2> QED BY <1>1, <1>2, <1>5, <2>1 DEF WorksOn
  <1> HIDE DEF new, table
  <1> QED BY <1>2, <1>3, <1>5, <1>6 DEF SeekCursorTo

LEMMA SubmitSummary ==
    ASSUME TypeOK, NEW u, NEW id, NEW answer, NEW checkOnly \in BOOLEAN,
           SubmitAnswer(u, id, answer, checkOnly)
    PROVE  LET old == sessionsStore[id]
               new == sessionsStore'[id]
           IN  /\ WorksOn(id)
               /\ new.cached = old.cached /\ new.cursors = old.cursors
               /\ new.answer = IF checkOnly THEN old.answer ELSE answer
               /\ acked' = IF checkOnly THEN acked ELSE [acked EXCEPT ![id] = answer]
               /\ UNCHANGED <<cursorCount, shown, retired>>
  <1> DEFINE old == sessionsStore[id]
             kept == AnswerKept(old, answer, checkOnly)
             new == [old EXCEPT !.answer = kept]
  <1>1. id \in DOMAIN sessionsStore /\ IsSession(old)
    BY TypeFacts DEF SubmitAnswer, Owns
  <1>2. /\ new.answer = kept /\ new.cursors = old.cursors /\ new.cached = old.cached
        /\ new.user = old.user /\ new.exam = old.exam
        /\ new.options = old.options /\ new.paper = old.paper
    <2> HIDE DEF old, kept
    <2> QED BY <1>1 DEF IsSession
  <1>3. sessionsStore' = Store(sessionsStore, id, new)
    BY DEF SubmitAnswer
  <1>4. /\ DOMAIN sessionsStore' = DOMAIN sessionsStore /\ sessionsStore'[id] = new
        /\ \A x \in DOMAIN sessionsStore \ {id} : sessionsStore'[x] = sessionsStore[x]
    <2> HIDE DEF old, new
    <2> QED BY <1>1, <1>3, ReplaceFacts DEF new
  <1>5. WorksOn(id)
    <2>1. UNCHANGED <<userSessions, sessionCount, reports>>
      BY DEF SubmitAnswer
    <2> HIDE DEF new
    <2> QED BY <1>1, <1>2, <1>4, <2>1 DEF WorksOn
  <1>6. kept = IF checkOnly THEN old.answer ELSE answer
    BY DEF AnswerKept
  <1> HIDE DEF new, kept
  <1> QED BY <1>2, <1>4, <1>5, <1>6 DEF SubmitAnswer

LEMMA EndSummary ==
    ASSUME TypeOK, NEW u, NEW id, EndExamSession(u, id)
    PROVE  LET old  == sessionsStore[id]
               rest == SessionsOf(old.user) \ {id}
           IN  /\ id \in DOMAIN sessionsStore
               /\ DOMAIN sessionsStore' = DOMAIN sessionsStore \ {id}
               /\ \A i \in DOMAIN sessionsStore' : sessionsStore'[i] = sessionsStore[i]
               /\ userSessions' = IF rest = {} THEN Delete(userSessions, old.user)
                                  ELSE Store(userSessions, old.user, rest)
               /\ reports' = IF old.answer = NoAnswer THEN reports
                             ELSE Append(reports, ReportOf(id))
               /\ UNCHANGED <<sessionCount, cursorCount, historyVars>>
  <1>1. id \in DOMAIN sessionsStore /\ Forget(id)
    BY DEF EndExamSession, Owns
  <1>2. /\ DOMAIN sessionsStore' = DOMAIN sessionsStore \ {id}
        /\ \A i \in DOMAIN sessionsStore' : sessionsStore'[i] = sessionsStore[i]
    BY <1>1 DEF Forget, Delete, Restrict
  <1> QED BY <1>1, <1>2 DEF EndExamSession, Forget, Unindexed
-------------------------------------------------------------------------------
LEMMA InitSafe == Init => SInv
  BY DEF Init, SInv, IndexInLockStep, SessionsOf, CursorsApart, RetiredCursorsStayDead,
         AnswersAcknowledged, ReportsAreOfSessions, EndedSessionsAccounted,
         ShownIsCached, PositionsAreStable, CertificationIsLinear

(***************************************************************************)
(* What a command that works on one session cannot disturb.                *)
(***************************************************************************)
LEMMA WorksOnKeeps ==
    ASSUME TypeOK, SInv, NEW id, WorksOn(id),
           acked' = acked \/ \E a \in Answers : acked' = [acked EXCEPT ![id] = a]
    PROVE  (IndexInLockStep /\ ReportsAreOfSessions /\ EndedSessionsAccounted)'
  <1>1. IndexInLockStep'
    BY DEF WorksOn, SInv, IndexInLockStep, SessionsOf
  <1>2. ReportsAreOfSessions'
    BY DEF WorksOn, SInv, ReportsAreOfSessions
  <1>3. \A k \in 1..sessionCount : k \notin DOMAIN sessionsStore => acked'[k] = acked[k]
    <2>1. DOMAIN acked = 1..sessionCount
      BY TypeFacts
    <2>2. \A k \in DOMAIN acked \ {id} : acked'[k] = acked[k]
      OBVIOUS
    <2> QED BY <2>1, <2>2 DEF WorksOn
  <1>4. EndedSessionsAccounted'
    BY <1>3 DEF WorksOn, SInv, EndedSessionsAccounted, ReportsOf
  <1> QED BY <1>1, <1>2, <1>4

\* Cursors stay apart, and dead ones stay dead, if a command gives a session no
\* cursor but a fresh one and takes away those it retires.
LEMMA CursorsKept ==
    ASSUME TypeOK, SInv, NEW id, WorksOn(id), NEW R \in SUBSET DOMAIN sessionsStore[id].cursors,
           DOMAIN sessionsStore'[id].cursors
             \subseteq (DOMAIN sessionsStore[id].cursors \cup {cursorCount + 1}) \ R,
           retired' = retired \cup R
    PROVE  CursorsApart' /\ RetiredCursorsStayDead'
  <1>1. /\ cursorCount \in Nat /\ retired \subseteq 1..cursorCount
        /\ \A i \in DOMAIN sessionsStore : DOMAIN sessionsStore[i].cursors \subseteq 1..cursorCount
    BY TypeFacts
  <1>2. cursorCount + 1 \notin 1..cursorCount
    BY <1>1
  <1>3. \A i \in DOMAIN sessionsStore \ {id} : sessionsStore'[i] = sessionsStore[i]
    BY DEF WorksOn
  <1>4. id \in DOMAIN sessionsStore /\ DOMAIN sessionsStore' = DOMAIN sessionsStore
    BY DEF WorksOn
  <1>5. CursorsApart'
    BY <1>1, <1>2, <1>3, <1>4 DEF SInv, CursorsApart
  <1>6. RetiredCursorsStayDead'
    BY <1>1, <1>2, <1>3, <1>4 DEF SInv, CursorsApart, RetiredCursorsStayDead
  <1> QED BY <1>5, <1>6

\* The history of a session is kept by a command that shows no question.
LEMMA NothingShown ==
    ASSUME TypeOK, SInv, NEW id, WorksOn(id), shown' = shown,
           sessionsStore'[id].cached = sessionsStore[id].cached,
           \/ sessionsStore'[id].cursors = sessionsStore[id].cursors
           \/ "seekable" \in sessionsStore[id].options
    PROVE  (ShownIsCached /\ PositionsAreStable /\ CertificationIsLinear)'
  <1>1. ShownIsCached'
    BY DEF WorksOn, SInv, ShownIsCached, KeyAt
  <1>2. PositionsAreStable'
    BY DEF SInv, PositionsAreStable
  <1>3. \A k \in DOMAIN sessionsStore :
          IsCertification(sessionsStore'[k]) =>
            /\ IsCertification(sessionsStore[k])
            /\ sessionsStore'[k].options = sessionsStore[k].options
            /\ sessionsStore'[k].cursors = sessionsStore[k].cursors
    BY DEF WorksOn, SInv, CertificationIsLinear, IsCertification
  <1>4. CertificationIsLinear'
    BY <1>3 DEF WorksOn, SInv, CertificationIsLinear, ShownUpTo
  <1> QED BY <1>1, <1>2, <1>4
-------------------------------------------------------------------------------
LEMMA SeekSafe ==
    ASSUME TypeOK, SInv, NEW u, NEW id, NEW cursor, NEW newIndex,
           SeekCursorTo(u, id, cursor, newIndex)
    PROVE  SInv'
  <1>1. /\ WorksOn(id) /\ "seekable" \in sessionsStore[id].options
        /\ sessionsStore'[id].answer = sessionsStore[id].answer
        /\ sessionsStore'[id].cached = sessionsStore[id].cached
        /\ DOMAIN sessionsStore'[id].cursors =
             (DOMAIN sessionsStore[id].cursors \cup {cursorCount + 1}) \ {cursor}
        /\ retired' = retired \cup ({cursor} \cap DOMAIN sessionsStore[id].cursors)
        /\ UNCHANGED <<shown, acked>>
    BY SeekSummary
  <1>2. CursorsApart' /\ RetiredCursorsStayDead'
    <2> DEFINE R == {cursor} \cap DOMAIN sessionsStore[id].cursors
    <2>1. R \in SUBSET DOMAIN sessionsStore[id].cursors
      OBVIOUS
    <2>2. DOMAIN sessionsStore'[id].cursors
            \subseteq (DOMAIN sessionsStore[id].cursors \cup {cursorCount + 1}) \ R
      BY <1>1
    <2> HIDE DEF R
    <2> QED BY <1>1, <2>1, <2>2, CursorsKept DEF R
  <1>3. AnswersAcknowledged'
    BY <1>1 DEF WorksOn, SInv, AnswersAcknowledged
  <1> QED BY <1>1, <1>2, <1>3, WorksOnKeeps, NothingShown DEF SInv

LEMMA SubmitSafe ==
    ASSUME TypeOK, SInv, NEW u, NEW id, NEW answer \in Answers, NEW checkOnly \in BOOLEAN,
           SubmitAnswer(u, id, answer, checkOnly)
    PROVE  SInv'
  <1>1. /\ WorksOn(id)
        /\ sessionsStore'[id].cached = sessionsStore[id].cached
        /\ sessionsStore'[id].cursors = sessionsStore[id].cursors
        /\ sessionsStore'[id].answer = IF checkOnly THEN sessionsStore[id].answer ELSE answer
        /\ acked' = IF checkOnly THEN acked ELSE [acked EXCEPT ![id] = answer]
        /\ UNCHANGED <<shown, retired>>
    BY SubmitSummary
  <1>2. CursorsApart' /\ RetiredCursorsStayDead'
    <2>1. /\ {} \in SUBSET DOMAIN sessionsStore[id].cursors
          /\ DOMAIN sessionsStore'[id].cursors
               \subseteq (DOMAIN sessionsStore[id].cursors \cup {cursorCount + 1}) \ {}
          /\ retired' = retired \cup {}
      BY <1>1
    <2> QED BY <1>1, <2>1, CursorsKept
  <1>3. AnswersAcknowledged'
    <2>1. \A k \in DOMAIN sessionsStore : k \in DOMAIN acked
      BY TypeFacts
    <2>2. \A k \in DOMAIN sessionsStore \ {id} : acked'[k] = acked[k]
      BY <1>1, <2>1
    <2>3. acked'[id] = sessionsStore'[id].answer
      BY <1>1, <2>1 DEF WorksOn, SInv, AnswersAcknowledged
    <2> QED BY <1>1, <2>2, <2>3 DEF WorksOn, SInv, AnswersAcknowledged
  <1>4. acked' = acked \/ \E a \in Answers : acked' = [acked EXCEPT ![id] = a]
    BY <1>1
  <1> QED BY <1>1, <1>2, <1>3, <1>4, WorksOnKeeps, NothingShown DEF SInv

LEMMA GetNextSafe ==
    ASSUME TypeOK, SInv, NEW u, NEW id, NEW cursor, GetNextQuestion(u, id, cursor)
    PROVE  SInv'
  <1> DEFINE old == sessionsStore[id]
             new == sessionsStore'[id]
             i   == IndexOf(old, cursor)
             key == KeyAt(old, i)
  <1>1. /\ WorksOn(id) /\ i \in DOMAIN old.paper /\ i \in Nat
        /\ cursor \in DOMAIN old.cursors \/ i = 0
        /\ new.answer = old.answer
        /\ UNCHANGED <<retired, acked>>
    BY GetNextSummary
  <1>2. PICK q \in Served :
          /\ key \in DOMAIN old.cached => q = old.cached[key]
          /\ new.cached = Store(old.cached, key, q)
          /\ shown' = shown \cup {<<id, i, q>>}
    BY GetNextSummary
  <1>3. \/ new.cursors = old.cursors
        \/ \E c \in DOMAIN old.cursors \cup {cursorCount + 1} :
             new.cursors = Store(old.cursors, c, i + 1)
    BY GetNextSummary
  <1>4. i = IF cursor \in DOMAIN old.cursors THEN old.cursors[cursor] ELSE 0
    BY DEF IndexOf
  <1> HIDE DEF i, key
  <1>5. CursorsApart' /\ RetiredCursorsStayDead'
    <2>1. DOMAIN new.cursors \subseteq DOMAIN old.cursors \cup {cursorCount + 1}
      BY <1>3 DEF Store
    <2>2. /\ {} \in SUBSET DOMAIN old.cursors
          /\ DOMAIN new.cursors \subseteq (DOMAIN old.cursors \cup {cursorCount + 1}) \ {}
          /\ retired' = retired \cup {}
      BY <1>1, <2>1
    <2> QED BY <1>1, <2>2, CursorsKept
  <1>6. AnswersAcknowledged'
    BY <1>1 DEF WorksOn, SInv, AnswersAcknowledged
  <1>7. ShownIsCached'
    <2>1. SUFFICES ASSUME NEW x \in shown', x[1] \in DOMAIN sessionsStore
                   PROVE  LET s == sessionsStore'[x[1]]
                          IN  /\ x[2] \in DOMAIN s.paper /\ KeyAt(s, x[2]) \in DOMAIN s.cached
                              /\ s.cached[KeyAt(s, x[2])] = x[3]
      BY <1>1 DEF ShownIsCached, WorksOn
    <2>2. \A k \in DOMAIN old.paper : KeyAt(new, k) = KeyAt(old, k)
      BY <1>1 DEF KeyAt, WorksOn
    <2>3. /\ DOMAIN new.cached = DOMAIN old.cached \cup {key} /\ new.cached[key] = q
          /\ \A k \in DOMAIN old.cached : k # key => new.cached[k] = old.cached[k]
      BY <1>2 DEF Store
    <2>4. CASE x = <<id, i, q>>
      BY <1>1, <2>2, <2>3, <2>4 DEF WorksOn, key
    <2>5. CASE x \in shown /\ x[1] # id
      BY <1>1, <2>1, <2>5 DEF WorksOn, SInv, ShownIsCached
    <2>6. CASE x \in shown /\ x[1] = id
      <3>1. /\ x[2] \in DOMAIN old.paper /\ KeyAt(old, x[2]) \in DOMAIN old.cached
            /\ old.cached[KeyAt(old, x[2])] = x[3]
        BY <2>1, <2>6 DEF SInv, ShownIsCached
      <3>2. new.cached[KeyAt(old, x[2])] = x[3]
        BY <1>2, <2>3, <3>1
      <3> QED BY <1>1, <2>2, <2>3, <2>6, <3>1, <3>2 DEF WorksOn
    <2> QED BY <1>2, <2>1, <2>4, <2>5, <2>6
  <1>8. PositionsAreStable'
    <2>1. \A x \in shown : x[1] = id /\ x[2] = i => x[3] = q
      BY <1>1, <1>2 DEF WorksOn, SInv, ShownIsCached, key
    <2> QED BY <1>2, <2>1 DEF SInv, PositionsAreStable
  <1>9. CertificationIsLinear'
    <2>1. \A k, n : ShownUpTo(shown, k, n) => ShownUpTo(shown', k, n)
      BY <1>2 DEF ShownUpTo
    <2>2. IsCertification(old) => ShownUpTo(shown, id, i)
      BY <1>1, <1>4 DEF WorksOn, SInv, CertificationIsLinear, ShownUpTo
    <2>3. IsCertification(old) => ShownUpTo(shown', id, i + 1)
      <3>1. SUFFICES ASSUME IsCertification(old), NEW j \in Nat, j < i + 1
                     PROVE  \E p \in Served : <<id, j, p>> \in shown'
        BY DEF ShownUpTo
      <3>2. CASE j = i
        BY <1>2, <3>2
      <3>3. CASE j < i
        BY <1>2, <2>2, <3>1, <3>3 DEF ShownUpTo
      <3> QED BY <1>1, <3>1, <3>2, <3>3
    <2>4. \A k \in DOMAIN sessionsStore :
            /\ IsCertification(sessionsStore'[k]) <=> IsCertification(sessionsStore[k])
            /\ sessionsStore'[k].options = sessionsStore[k].options
            /\ k # id => sessionsStore'[k].cursors = sessionsStore[k].cursors
      BY <1>1 DEF WorksOn, IsCertification
    <2>5. IsCertification(old) =>
            \A c \in DOMAIN new.cursors : ShownUpTo(shown', id, new.cursors[c])
      <3>1. SUFFICES ASSUME IsCertification(old), NEW c \in DOMAIN new.cursors
                     PROVE  ShownUpTo(shown', id, new.cursors[c])
        OBVIOUS
      <3>2. \/ c \in DOMAIN old.cursors /\ new.cursors[c] = old.cursors[c]
            \/ new.cursors[c] = i + 1
        BY <1>3 DEF Store
      <3>3. c \in DOMAIN old.cursors => ShownUpTo(shown, id, old.cursors[c])
        BY <1>1, <3>1 DEF WorksOn, SInv, CertificationIsLinear
      <3> QED BY <2>1, <2>3, <3>1, <3>2, <3>3
    <2>6. \A k \in DOMAIN sessionsStore' : IsCertification(sessionsStore'[k]) =>
            /\ "seekable" \notin sessionsStore'[k].options
            /\ \A c \in DOMAIN sessionsStore'[k].cursors :
                 ShownUpTo(shown', k, sessionsStore'[k].cursors[c])
      BY <1>1, <2>1, <2>4, <2>5 DEF WorksOn, SInv, CertificationIsLinear
    <2>7. \A x \in shown' :
            x[1] \in DOMAIN sessionsStore' /\ IsCertification(sessionsStore'[x[1]]) =>
              ShownUpTo(shown', x[1], x[2])
      BY <1>1, <1>2, <2>1, <2>2, <2>4 DEF WorksOn, SInv, CertificationIsLinear
    <2> QED BY <2>6, <2>7 DEF CertificationIsLinear, IsCertification
  <1> QED BY <1>1, <1>5, <1>6, <1>7, <1>8, <1>9, WorksOnKeeps DEF SInv

LEMMA StartSafe ==
    ASSUME TypeOK, SInv, NEW u \in Users, NEW e \in Exams, NEW options \in OptionChoices,
           NEW accept, StartNewExamSession(u, e, options, accept)
    PROVE  SInv'
  <1> DEFINE id == sessionCount + 1
  <1>1. /\ id \notin DOMAIN sessionsStore
        /\ DOMAIN sessionsStore' = DOMAIN sessionsStore \cup {id}
        /\ \A i \in DOMAIN sessionsStore : sessionsStore'[i] = sessionsStore[i]
        /\ sessionsStore'[id].user = u /\ sessionsStore'[id].answer = NoAnswer
        /\ sessionsStore'[id].cursors = <<>>
        /\ IsCertification(sessionsStore'[id]) => "seekable" \notin sessionsStore'[id].options
        /\ userSessions' = Store(userSessions, u, SessionsOf(u) \cup {id})
        /\ sessionCount' = id /\ acked' = Append(acked, NoAnswer)
        /\ UNCHANGED <<cursorCount, reports, shown, retired>>
    BY StartSummary
  <1>2. /\ sessionCount \in Nat /\ id \in Nat
        /\ 1..id = (1..sessionCount) \cup {id} /\ id \notin 1..sessionCount
    BY TypeFacts
  <1>3. /\ DOMAIN acked = 1..sessionCount
        /\ acked'[id] = NoAnswer /\ \A k \in 1..sessionCount : acked'[k] = acked[k]
    BY <1>1, TypeFacts
  <1> HIDE DEF id
  <1>4. IndexInLockStep'
    <2>1. \A v : SessionsOf(v)' = IF v = u THEN SessionsOf(u) \cup {id} ELSE SessionsOf(v)
      BY <1>1 DEF SessionsOf, Store
    <2>2. \A v \in DOMAIN userSessions' : userSessions'[v] = SessionsOf(v)'
      BY DEF SessionsOf
    <2>3. \A v \in DOMAIN userSessions' : userSessions'[v] # {}
      <3>1. \A v \in DOMAIN userSessions' : v = u \/ v \in DOMAIN userSessions
        BY <1>1 DEF Store
      <3> QED BY <2>1, <2>2, <3>1 DEF SInv, IndexInLockStep, SessionsOf
    <2>4. \A v \in Users : SessionsOf(v)' =
            {i \in DOMAIN sessionsStore' : sessionsStore'[i].user = v}
      BY <1>1, <2>1 DEF SInv, IndexInLockStep
    <2> QED BY <2>3, <2>4 DEF IndexInLockStep
  <1>5. CursorsApart' /\ RetiredCursorsStayDead'
    BY <1>1 DEF SInv, CursorsApart, RetiredCursorsStayDead
  <1>6. AnswersAcknowledged'
    BY <1>1, <1>3, TypeFacts DEF SInv, AnswersAcknowledged
  <1>7. ReportsAreOfSessions'
    BY <1>1, <1>2 DEF SInv, ReportsAreOfSessions
  <1>8. EndedSessionsAccounted'
    <2>1. ReportsOf(id) = {}
      BY <1>2 DEF SInv, ReportsAreOfSessions, ReportsOf
    <2>2. \A k : ReportsOf(k)' = ReportsOf(k)
      BY <1>1 DEF ReportsOf
    <2> QED BY <1>1, <1>2, <1>3, <2>1, <2>2 DEF SInv, EndedSessionsAccounted
  <1>9. \A x \in shown : x[1] # id
    BY <1>2, TypeFacts
  <1>10. (ShownIsCached /\ PositionsAreStable /\ CertificationIsLinear)'
    <2>1. ShownIsCached' /\ PositionsAreStable'
      BY <1>1, <1>9 DEF SInv, ShownIsCached, PositionsAreStable
    <2>2. CertificationIsLinear'
      BY <1>1, <1>9 DEF SInv, CertificationIsLinear
    <2> QED BY <2>1, <2>2
  <1> QED BY <1>4, <1>5, <1>6, <1>7, <1>8, <1>10 DEF SInv

LEMMA EndSafe == ASSUME TypeOK, SInv, NEW u, NEW id, EndExamSession(u, id) PROVE SInv'
  <1> DEFINE old  == sessionsStore[id]
             rest == SessionsOf(old.user) \ {id}
  <1>1. /\ id \in DOMAIN sessionsStore
        /\ DOMAIN sessionsStore' = DOMAIN sessionsStore \ {id}
        /\ \A i \in DOMAIN sessionsStore' : sessionsStore'[i] = sessionsStore[i]
        /\ userSessions' = IF rest = {} THEN Delete(userSessions, old.user)
                           ELSE Store(userSessions, old.user, rest)
        /\ reports' = IF old.answer = NoAnswer THEN reports
                      ELSE Append(reports, ReportOf(id))
        /\ UNCHANGED <<sessionCount, cursorCount, shown, retired, acked>>
    BY EndSummary DEF historyVars
  <1>2. id \in 1..sessionCount /\ acked[id] = old.answer
    BY <1>1, TypeFacts DEF SInv, AnswersAcknowledged
  <1>3. IndexInLockStep'
    <2>1. \A v : SessionsOf(v)' = IF v = old.user THEN rest ELSE SessionsOf(v)
      <3> HIDE DEF old, rest
      <3> QED BY <1>1 DEF SessionsOf, Store, Delete, Restrict
    <2>2. \A v \in DOMAIN userSessions' : userSessions'[v] # {}
      <3> HIDE DEF old, rest
      <3> QED BY <1>1 DEF SInv, IndexInLockStep, Store, Delete, Restrict
    <2>3. \A v \in Users : SessionsOf(v)' =
            {i \in DOMAIN sessionsStore' : sessionsStore'[i].user = v}
      BY <1>1, <2>1 DEF SInv, IndexInLockStep
    <2> QED BY <2>2, <2>3 DEF IndexInLockStep
  <1>4. CursorsApart' /\ RetiredCursorsStayDead'
    BY <1>1 DEF SInv, CursorsApart, RetiredCursorsStayDead
  <1>5. AnswersAcknowledged'
    BY <1>1 DEF SInv, AnswersAcknowledged
  <1>6. ReportsAreOfSessions' /\ EndedSessionsAccounted'
    <2>1. CASE old.answer = NoAnswer
      <3>1. \A k : ReportsOf(k)' = ReportsOf(k)
        BY <1>1, <2>1 DEF ReportsOf
      <3> QED BY <1>1, <1>2, <2>1, <3>1
              DEF SInv, ReportsAreOfSessions, EndedSessionsAccounted
    <2>2. CASE old.answer # NoAnswer
      <3> DEFINE r == ReportOf(id)
                 n == Len(reports) + 1
      <3>1. r.session = id /\ r.answer = old.answer
        BY DEF ReportOf
      <3>2. reports' = Append(reports, r) /\ reports \in Seq(Report)
        BY <1>1, <2>2, TypeFacts
      <3>3. /\ DOMAIN reports' = DOMAIN reports \cup {n} /\ n \notin DOMAIN reports
            /\ reports'[n] = r /\ \A i \in DOMAIN reports : reports'[i] = reports[i]
        <4> HIDE DEF r
        <4> QED BY <3>2
      <3> HIDE DEF r, n
      <3>4. \A k : ReportsOf(k)' = IF k = id THEN ReportsOf(id) \cup {n} ELSE ReportsOf(k)
        BY <3>1, <3>3 DEF ReportsOf
      <3>5. ReportsOf(id)' = {n} /\ n \in DOMAIN reports' /\ reports'[n].answer = acked'[id]
        BY <1>1, <1>2, <3>1, <3>3, <3>4 DEF SInv, EndedSessionsAccounted
      <3>6. ReportsAreOfSessions'
        BY <1>1, <1>2, <3>1, <3>3 DEF SInv, ReportsAreOfSessions
      <3>7. EndedSessionsAccounted'
        <4>1. SUFFICES ASSUME NEW k \in 1..sessionCount
                       PROVE  IF k \in DOMAIN sessionsStore' \/ acked'[k] = NoAnswer
                              THEN ReportsOf(k)' = {}
                              ELSE \E i \in DOMAIN reports' :
                                     ReportsOf(k)' = {i} /\ reports'[i].answer = acked'[k]
          BY <1>1 DEF EndedSessionsAccounted
        <4>2. CASE k = id
          BY <1>1, <1>2, <2>2, <3>5, <4>2
        <4>3. CASE k # id
          <5>1. ReportsOf(k)' = ReportsOf(k) /\ acked'[k] = acked[k]
            BY <1>1, <3>4, <4>3
          <5>2. k \in DOMAIN sessionsStore' <=> k \in DOMAIN sessionsStore
            BY <1>1, <4>3
          <5> QED BY <3>3, <5>1, <5>2 DEF SInv, EndedSessionsAccounted
        <4> QED BY <4>2, <4>3
      <3> QED BY <3>6, <3>7
    <2> QED BY <2>1, <2>2
  <1>7. (ShownIsCached /\ PositionsAreStable /\ CertificationIsLinear)'
    BY <1>1 DEF SInv, ShownIsCached, PositionsAreStable, CertificationIsLinear
  <1> QED BY <1>3, <1>4, <1>5, <1>6, <1>7 DEF SInv

LEMMA StandStillSafe ==
    ASSUME SInv, UNCHANGED vars
    PROVE  SInv'
  BY DEF vars, serverVars, historyVars, SInv, IndexInLockStep, SessionsOf, CursorsApart,
         RetiredCursorsStayDead, AnswersAcknowledged, ReportsAreOfSessions,
         EndedSessionsAccounted, ReportsOf, ShownIsCached, PositionsAreStable,
         CertificationIsLinear

LEMMA NextSafe == TypeOK /\ SInv /\ [Next]_vars => SInv'
  <1> SUFFICES ASSUME TypeOK, SInv, [Next]_vars PROVE SInv'
    OBVIOUS
  <1>1. ASSUME NEW u, NEW id, EndExamSessionFails(u, id) PROVE UNCHANGED vars
    BY <1>1 DEF EndExamSessionFails, AfterFailedReport, vars, serverVars, historyVars
  <1> QED BY <1>1, StartSafe, GetNextSafe, SeekSafe, SubmitSafe, EndSafe, StandStillSafe
          DEF Next

LEMMA SafeInvariant == Spec => [](TypeOK /\ SInv)
  BY InitType, InitSafe, NextType, NextSafe, PTL DEF Spec
-------------------------------------------------------------------------------
\* The reverse index of the store finds each of a user's sessions and no other.
THEOREM LockStep == Spec => []IndexInLockStep
  <1>1. SInv => IndexInLockStep
    BY DEF SInv
  <1> QED BY <1>1, SafeInvariant, PTL

\* A cursor a seek has replaced is dead in every session, for good.
THEOREM RetiredStayDead == Spec => []RetiredCursorsStayDead
  <1>1. SInv => RetiredCursorsStayDead
    BY DEF SInv
  <1> QED BY <1>1, SafeInvariant, PTL

\* An index of a session shows the same question with the same order of options
\* whenever the candidate comes back to it, even if question ids are not unique.
THEOREM Stable == Spec => []PositionsAreStable
  <1>1. SInv => PositionsAreStable
    BY DEF SInv
  <1> QED BY <1>1, SafeInvariant, PTL

\* An ended session has exactly one report of its last acknowledged submission on
\* file, or none if there was no submission.
THEOREM Accounted == Spec => []EndedSessionsAccounted
  <1>1. SInv => EndedSessionsAccounted
    BY DEF SInv
  <1> QED BY <1>1, SafeInvariant, PTL

\* No question of a certification session is served before all earlier ones were.
THEOREM NoneSkipped == Spec => []NoQuestionSkipped
  <1>1. ASSUME TypeOK, SInv PROVE NoQuestionSkipped
    <2>1. SUFFICES ASSUME NEW id \in DOMAIN sessionsStore, IsCertification(sessionsStore[id]),
                          NEW x \in shown, x[1] = id, NEW j \in 0..x[2]
                   PROVE  j \in Reached(id)
      BY DEF NoQuestionSkipped, IsCertification, Reached
    <2>2. x[2] \in Nat
      BY <1>1, TypeFacts
    <2>3. CASE j = x[2]
      BY <2>1, <2>3 DEF Reached
    <2>4. CASE j < x[2]
      <3>1. PICK q \in Served : <<id, j, q>> \in shown
        BY <1>1, <2>1, <2>2, <2>4 DEF SInv, CertificationIsLinear, ShownUpTo
      <3> QED BY <3>1 DEF Reached
    <2> QED BY <2>2, <2>3, <2>4
  <1> QED BY <1>1, SafeInvariant, PTL
-------------------------------------------------------------------------------
(***************************************************************************)
(* Where the ids of an exam's questions are unique, which exam.xsd asks    *)
(* only within a collection, the cache returns the question it is asked    *)
(* for, and the candidate sees every question of the paper.                *)
(***************************************************************************)
IdsAreUnique ==
    \A e \in Exams : \A p, q \in AllPositions(e) : CacheKey(e, p) = CacheKey(e, q) => p = q

CopiesAreTrue ==
    \A id \in DOMAIN sessionsStore :
      LET sess == sessionsStore[id]
      IN  \A p \in AllPositions(sess.exam) :
            CacheKey(sess.exam, p) \in DOMAIN sess.cached =>
              sess.cached[CacheKey(sess.exam, p)].position = p

LEMMA GetNextCopies ==
    ASSUME IdsAreUnique, TypeOK, CopiesAreTrue, NEW u, NEW id, NEW cursor,
           GetNextQuestion(u, id, cursor)
    PROVE  CopiesAreTrue'
  <1> DEFINE old == sessionsStore[id]
             new == sessionsStore'[id]
             i   == IndexOf(old, cursor)
             key == KeyAt(old, i)
  <1>1. WorksOn(id) /\ i \in DOMAIN old.paper
    BY GetNextSummary
  <1>2. PICK q \in Served :
          /\ IF key \in DOMAIN old.cached THEN q = old.cached[key]
             ELSE q.position = old.paper[i]
          /\ new.cached = Store(old.cached, key, q)
    BY GetNextSummary
  <1>3. old.paper[i] \in AllPositions(old.exam) /\ old.exam \in Exams
    <2>1. IsSession(old)
      BY <1>1, TypeFacts DEF WorksOn
    <2> HIDE DEF old, i
    <2> QED BY <1>1, <2>1 DEF IsSession
  <1>4. q.position = old.paper[i]
    BY <1>1, <1>2, <1>3 DEF WorksOn, CopiesAreTrue, KeyAt
  <1>5. ASSUME NEW p \in AllPositions(old.exam), CacheKey(old.exam, p) \in DOMAIN new.cached
        PROVE  new.cached[CacheKey(old.exam, p)].position = p
    <2>1. CASE CacheKey(old.exam, p) = key
      BY <1>2, <1>3, <1>4, <2>1 DEF IdsAreUnique, KeyAt, Store
    <2>2. CASE CacheKey(old.exam, p) # key
      <3> HIDE DEF old, key, i
      <3>1. /\ CacheKey(old.exam, p) \in DOMAIN old.cached
            /\ new.cached[CacheKey(old.exam, p)] = old.cached[CacheKey(old.exam, p)]
        BY <1>2, <1>5, <2>2 DEF Store
      <3> QED BY <1>1, <3>1 DEF WorksOn, CopiesAreTrue, old
    <2> QED BY <2>1, <2>2
  <1> HIDE DEF i, key
  <1> QED BY <1>1, <1>5 DEF WorksOn, CopiesAreTrue

LEMMA NextCopies ==
    ASSUME IdsAreUnique, TypeOK, CopiesAreTrue, [Next]_vars
    PROVE  CopiesAreTrue'
  <1>1. ASSUME NEW u \in Users, NEW e \in Exams, NEW opts \in OptionChoices, NEW accept,
               StartNewExamSession(u, e, opts, accept)
        PROVE  CopiesAreTrue'
    <2>1. PICK id :
            /\ DOMAIN sessionsStore' = DOMAIN sessionsStore \cup {id}
            /\ \A i \in DOMAIN sessionsStore : sessionsStore'[i] = sessionsStore[i]
            /\ sessionsStore'[id].cached = <<>>
      BY <1>1, StartSummary
    <2> QED BY <2>1 DEF CopiesAreTrue
  <1>2. ASSUME NEW id, WorksOn(id), sessionsStore'[id].cached = sessionsStore[id].cached
        PROVE  CopiesAreTrue'
    BY <1>2 DEF WorksOn, CopiesAreTrue
  <1>3. ASSUME NEW u, NEW id, NEW c, NEW i, SeekCursorTo(u, id, c, i)
        PROVE  CopiesAreTrue'
    BY <1>2, <1>3, SeekSummary
  <1>4. ASSUME NEW u, NEW id, NEW a, NEW checkOnly \in BOOLEAN,
               SubmitAnswer(u, id, a, checkOnly)
        PROVE  CopiesAreTrue'
    BY <1>2, <1>4, SubmitSummary
  <1>5. ASSUME NEW u, NEW id, EndExamSession(u, id) PROVE CopiesAreTrue'
    BY <1>5, EndSummary DEF CopiesAreTrue
  <1>6. ASSUME \/ UNCHANGED vars \/ \E u, id : EndExamSessionFails(u, id)
        PROVE  CopiesAreTrue'
    <2>1. UNCHANGED sessionsStore
      BY <1>6 DEF EndExamSessionFails, AfterFailedReport, vars, serverVars
    <2> QED BY <2>1 DEF CopiesAreTrue
  <1> QED BY <1>1, <1>3, <1>4, <1>5, <1>6, GetNextCopies DEF Next

\* A candidate who has been served every index of the paper has seen every question
\* of it, if the ids of the exam's questions are unique.
THEOREM AllSeenIfIdsAreUnique ==
    ASSUME IdsAreUnique
    PROVE  Spec => []EveryQuestionSeen
  <1>1. Init => CopiesAreTrue
    BY DEF Init, CopiesAreTrue
  <1>2. TypeOK /\ CopiesAreTrue /\ [Next]_vars => CopiesAreTrue'
    BY NextCopies
  <1>3. ASSUME TypeOK, SInv, CopiesAreTrue PROVE EveryQuestionSeen
    <2>1. SUFFICES ASSUME NEW id \in DOMAIN sessionsStore,
                          Reached(id) = DOMAIN sessionsStore[id].paper
                   PROVE  {x[3].position : x \in {y \in shown : y[1] = id}} =
                            Range(sessionsStore[id].paper)
      BY DEF EveryQuestionSeen
    <2>2. \A x \in shown : x[1] = id =>
            /\ x[2] \in DOMAIN sessionsStore[id].paper
            /\ x[3].position = sessionsStore[id].paper[x[2]]
      <3>1. SUFFICES ASSUME NEW x \in shown, x[1] = id
                     PROVE  /\ x[2] \in DOMAIN sessionsStore[id].paper
                            /\ x[3].position = sessionsStore[id].paper[x[2]]
        OBVIOUS
      <3>2. /\ x[2] \in DOMAIN sessionsStore[id].paper
            /\ KeyAt(sessionsStore[id], x[2]) \in DOMAIN sessionsStore[id].cached
            /\ sessionsStore[id].cached[KeyAt(sessionsStore[id], x[2])] = x[3]
        BY <1>3, <3>1 DEF SInv, ShownIsCached
      <3>3. sessionsStore[id].paper[x[2]] \in AllPositions(sessionsStore[id].exam)
        BY <1>3, <3>2, TypeFacts DEF IsSession
      <3> QED BY <1>3, <3>2, <3>3 DEF CopiesAreTrue, KeyAt
    <2>3. \A i \in DOMAIN sessionsStore[id].paper : \E x \in shown : x[1] = id /\ x[2] = i
      BY <2>1 DEF Reached
    <2> QED BY <2>2, <2>3 DEF Range
  <1> QED BY <1>1, <1>2, <1>3, SafeInvariant, TypeCorrect, PTL DEF Spec
-------------------------------------------------------------------------------
(***************************************************************************)
(* The refinement of SessionLifecycle.                                     *)
(***************************************************************************)
Phase(s) == IF s > sessionCount THEN "unused"
            ELSE IF s \in DOMAIN sessionsStore THEN "open" ELSE "closed"

Submission(s) == IF s \in DOMAIN sessionsStore THEN sessionsStore[s].answer ELSE NoAnswer

Filed(rs) == [i \in DOMAIN rs |-> [session |-> rs[i].session, answer |-> rs[i].answer]]

LEMMA Mapping ==
    /\ Lifecycle!vars = <<[s \in SessionIds |-> Phase(s)],
                         [s \in SessionIds |-> Submission(s)], Filed(reports)>>
    /\ Lifecycle!vars' = <<[s \in SessionIds |-> Phase(s)'],
                          [s \in SessionIds |-> Submission(s)'], Filed(reports')>>
  BY DEF Lifecycle!vars, Phase, Submission, Filed

LEMMA InitRefines == Init => Lifecycle!Init
  BY BoundsAssumption DEF Init, Lifecycle!Init, SessionIds

LEMMA OpenRefines ==
    ASSUME TypeOK, TypeOK', NEW u \in Users, NEW e \in Exams, NEW options \in OptionChoices,
           NEW accept, StartNewExamSession(u, e, options, accept),
           NEW id \in SessionIds, id = sessionCount + 1
    PROVE  Lifecycle!Open(id)
  <1>1. /\ id \notin DOMAIN sessionsStore
        /\ DOMAIN sessionsStore' = DOMAIN sessionsStore \cup {id}
        /\ \A i \in DOMAIN sessionsStore : sessionsStore'[i] = sessionsStore[i]
        /\ sessionsStore'[id].answer = NoAnswer
        /\ sessionCount' = id /\ reports' = reports
    BY StartSummary
  <1>2. sessionCount \in Nat /\ SessionIds \subseteq Nat
    BY BoundsAssumption DEF TypeOK, SessionIds
  <1>3. Phase(id) = "unused" /\ Phase(id)' = "open"
    BY <1>1, <1>2 DEF Phase
  <1>4. \A s \in SessionIds \ {id} : Phase(s)' = Phase(s)
    BY <1>1, <1>2 DEF Phase
  <1>5. \A s \in SessionIds : Submission(s)' = Submission(s)
    BY <1>1 DEF Submission
  <1> DEFINE phase == [s \in SessionIds |-> Phase(s)]
  <1>6. phase' = [phase EXCEPT ![id] = "open"] /\ phase[id] = "unused"
    BY <1>2, <1>3, <1>4
  <1>7. [s \in SessionIds |-> Submission(s)]' = [s \in SessionIds |-> Submission(s)]
    BY <1>5
  <1> QED BY <1>1, <1>6, <1>7 DEF Lifecycle!Open, Phase, Submission

LEMMA SubmitRefines ==
    ASSUME TypeOK, NEW u, NEW id, NEW answer \in Answers, NEW checkOnly \in BOOLEAN,
           SubmitAnswer(u, id, answer, checkOnly)
    PROVE  Lifecycle!Save(id, answer) \/ UNCHANGED Lifecycle!vars
  <1>1. /\ WorksOn(id)
        /\ sessionsStore'[id].answer = IF checkOnly THEN sessionsStore[id].answer ELSE answer
    BY SubmitSummary
  <1>2. /\ id \in SessionIds /\ id \in 1..sessionCount
        /\ \A s \in SessionIds : Phase(s)' = Phase(s)
    BY <1>1, TypeFacts, BoundsAssumption DEF WorksOn, Phase, TypeOK, SessionIds
  <1>3. CASE checkOnly
    <2>1. \A s \in SessionIds : Submission(s)' = Submission(s)
      BY <1>1, <1>3 DEF WorksOn, Submission
    <2> QED BY <1>1, <1>2, <2>1, Mapping DEF WorksOn
  <1>4. CASE ~checkOnly
    <2> DEFINE submission == [s \in SessionIds |-> Submission(s)]
    <2>1. /\ \A s \in SessionIds \ {id} : Submission(s)' = Submission(s)
          /\ Submission(id)' = answer
      BY <1>1, <1>4 DEF WorksOn, Submission
    <2>2. submission' = [submission EXCEPT ![id] = answer]
      BY <1>2, <2>1
    <2>3. [s \in SessionIds |-> Phase(s)]' = [s \in SessionIds |-> Phase(s)]
      BY <1>2
    <2>4. [s \in SessionIds |-> Phase(s)][id] = "open"
      BY <1>1, <1>2, TypeFacts DEF Phase, WorksOn
    <2> QED BY <1>1, <2>2, <2>3, <2>4 DEF Lifecycle!Save, Phase, Submission, WorksOn
  <1> QED BY <1>3, <1>4

LEMMA EndRefines ==
    ASSUME TypeOK, NEW u, NEW id, EndExamSession(u, id)
    PROVE  Lifecycle!Close(id)
  <1>1. /\ id \in DOMAIN sessionsStore
        /\ DOMAIN sessionsStore' = DOMAIN sessionsStore \ {id}
        /\ \A i \in DOMAIN sessionsStore' : sessionsStore'[i] = sessionsStore[i]
        /\ reports' = IF sessionsStore[id].answer = NoAnswer THEN reports
                      ELSE Append(reports, ReportOf(id))
        /\ sessionCount' = sessionCount
    BY EndSummary
  <1>2. /\ id \in SessionIds /\ ~(id > sessionCount) /\ reports \in Seq(Report)
        /\ sessionCount \in Nat
    BY <1>1, TypeFacts, BoundsAssumption DEF TypeOK, SessionIds
  <1>3. /\ Phase(id) = "open" /\ Phase(id)' = "closed"
        /\ \A s \in SessionIds \ {id} : Phase(s)' = Phase(s)
    BY <1>1, <1>2 DEF Phase
  <1>4. /\ Submission(id) = sessionsStore[id].answer /\ Submission(id)' = NoAnswer
        /\ \A s \in SessionIds \ {id} : Submission(s)' = Submission(s)
    BY <1>1, <1>2 DEF Submission
  <1> DEFINE phase == [s \in SessionIds |-> Phase(s)]
             submission == [s \in SessionIds |-> Submission(s)]
  <1>5. phase[id] = "open" /\ phase' = [phase EXCEPT ![id] = "closed"]
    BY <1>2, <1>3
  <1>6. /\ submission[id] = sessionsStore[id].answer
        /\ submission' = [submission EXCEPT ![id] = NoAnswer]
    BY <1>2, <1>4
  <1>7. Filed(reports') = IF submission[id] = NoAnswer THEN Filed(reports)
                          ELSE Append(Filed(reports),
                                      [session |-> id, answer |-> submission[id]])
    <2>1. CASE sessionsStore[id].answer = NoAnswer
      BY <1>1, <1>6, <2>1
    <2>2. CASE sessionsStore[id].answer # NoAnswer
      <3> DEFINE r == ReportOf(id)
                 a == sessionsStore[id].answer
      <3>1. r.session = id /\ r.answer = a
        BY DEF ReportOf
      <3>2. reports' = Append(reports, r)
        BY <1>1, <2>2
      <3> HIDE DEF r, a
      <3>3. /\ Len(reports) \in Nat /\ DOMAIN reports = 1..Len(reports)
            /\ DOMAIN reports' = 1..(Len(reports) + 1)
            /\ reports'[Len(reports) + 1] = r
            /\ \A i \in DOMAIN reports : reports'[i] = reports[i]
        BY <1>2, <3>2
      <3>4. Filed(reports) \in Seq(Range(Filed(reports))) /\ Len(Filed(reports)) = Len(reports)
        <4>1. Filed(reports) \in [1..Len(reports) -> Range(Filed(reports))]
          BY <3>3 DEF Filed, Range
        <4> QED BY <3>3, <4>1
      <3>5. Append(Filed(reports), [session |-> id, answer |-> a]) =
              [i \in 1..(Len(reports) + 1) |->
                 IF i = Len(reports) + 1 THEN [session |-> id, answer |-> a]
                 ELSE Filed(reports)[i]]
        BY <3>4
      <3>6. Filed(reports') = Append(Filed(reports), [session |-> id, answer |-> a])
        BY <3>1, <3>3, <3>5 DEF Filed
      <3> QED BY <1>6, <2>2, <3>6 DEF a
    <2> QED BY <2>1, <2>2
  <1> QED BY <1>5, <1>6, <1>7 DEF Lifecycle!Close, Phase, Submission, Filed

LEMMA RefinesNext ==
    TypeOK /\ TypeOK' /\ [Next]_vars => [Lifecycle!Next]_(Lifecycle!vars)
  <1> SUFFICES ASSUME TypeOK, TypeOK', [Next]_vars
               PROVE  Lifecycle!Next \/ UNCHANGED Lifecycle!vars
    OBVIOUS
  <1>1. ASSUME NEW id, WorksOn(id), sessionsStore'[id].answer = sessionsStore[id].answer
        PROVE  UNCHANGED Lifecycle!vars
    <2>1. \A s \in SessionIds : Phase(s)' = Phase(s) /\ Submission(s)' = Submission(s)
      BY <1>1 DEF WorksOn, Phase, Submission
    <2> QED BY <1>1, <2>1, Mapping DEF WorksOn
  <1>2. ASSUME NEW u \in Users, NEW e \in Exams, NEW opts \in OptionChoices, NEW accept,
               StartNewExamSession(u, e, opts, accept)
        PROVE  Lifecycle!Next
    <2>1. PICK id \in SessionIds : id = sessionCount + 1
      BY <1>2, BoundsAssumption DEF StartNewExamSession, TypeOK, SessionIds
    <2> QED BY <1>2, <2>1, OpenRefines DEF Lifecycle!Next
  <1>3. \A id \in DOMAIN sessionsStore : id \in SessionIds
    BY BoundsAssumption DEF TypeOK, SessionsTyped, SessionIds
  <1>4. ASSUME NEW u, NEW id \in DOMAIN sessionsStore, NEW c,
               GetNextQuestion(u, id, c) \/ \E i : SeekCursorTo(u, id, c, i)
        PROVE  UNCHANGED Lifecycle!vars
    BY <1>1, <1>4, GetNextSummary, SeekSummary
  <1>5. ASSUME NEW u, NEW id \in DOMAIN sessionsStore, NEW a \in Answers,
               NEW checkOnly \in BOOLEAN, SubmitAnswer(u, id, a, checkOnly)
        PROVE  Lifecycle!Next \/ UNCHANGED Lifecycle!vars
    BY <1>3, <1>5, SubmitRefines DEF Lifecycle!Next
  <1>6. ASSUME NEW u, NEW id \in DOMAIN sessionsStore, EndExamSession(u, id)
        PROVE  Lifecycle!Next
    BY <1>3, <1>6, EndRefines DEF Lifecycle!Next
  <1>7. ASSUME \/ UNCHANGED vars \/ \E u, id : EndExamSessionFails(u, id)
        PROVE  UNCHANGED Lifecycle!vars
    <2>1. UNCHANGED <<sessionsStore, sessionCount, reports>>
      BY <1>7 DEF EndExamSessionFails, AfterFailedReport, vars, serverVars
    <2> QED BY <2>1 DEF Lifecycle!vars
  <1> QED BY <1>2, <1>4, <1>5, <1>6, <1>7 DEF Next

\* The server implements the lifecycle: each session is opened once and closed once,
\* and closing it files exactly the latest saved submission.
THEOREM Refinement == Spec => ImplementsLifecycle
  BY InitRefines, RefinesNext, TypeCorrect, PTL
     DEF Spec, ImplementsLifecycle, Lifecycle!Spec
===============================================================================
