--------------------------- MODULE ExamClientProofs ---------------------------
(***************************************************************************)
(* The exam page in front of the server, for any number of tabs, users and *)
(* sessions, and any budget.                                               *)
(*                                                                         *)
(* What a tab sends has come from the server or from its user (CInv): its  *)
(* cursors have been handed out, its submissions merge known answers. So   *)
(* every step is a request the server's own specification allows, or none  *)
(* at all, and what is proved of ExamServer holds behind the pages too.    *)
(*                                                                         *)
(* About mail, the invariant ties three things that different requests     *)
(* write: what the creating request asked for, the session or its report,  *)
(* and what has been mailed about it.                                      *)
(*                                                                         *)
(* About assessments, what the loops of the grader compute is proved first,*)
(* by induction on their lengths, then that it is what the key says.       *)
(***************************************************************************)
EXTENDS ExamClient, ExamServerProofs, SequenceTheorems, WellFoundedInduction

\* Between two states of the server, whatever clients ask for: counters do not go
\* back, a session that is still there has kept its options and, unless it can seek,
\* its cursors; and once it has served a question it has a current one.
ServerMoves ==
    /\ sessionCount' >= sessionCount /\ cursorCount' >= cursorCount
    /\ \A id \in DOMAIN sessionsStore' : id \in 1..sessionCount =>
         /\ id \in DOMAIN sessionsStore
         /\ sessionsStore'[id].options = sessionsStore[id].options
         /\ \/ "seekable" \in sessionsStore[id].options
            \/ DOMAIN sessionsStore[id].cursors \subseteq DOMAIN sessionsStore'[id].cursors
         /\ sessionsStore[id].index \in Nat => sessionsStore'[id].index \in Nat

\* What a read does to the session, as far as the page of a tab is concerned.
LEMMA ReadEffect ==
    ASSUME TypeOK, NEW u, NEW id, NEW cursor \in Presentable,
           GetNextQuestion(u, id, cursor)
    PROVE  /\ id \in DOMAIN sessionsStore
           /\ sessionsStore'[id].index \in Nat
           /\ NextCursor(id, cursor) \in (1..cursorCount') \cup {NoCursor}
           /\ \/ NextCursor(id, cursor) = NoCursor
              \/ NextCursor(id, cursor) \in DOMAIN sessionsStore'[id].cursors
           /\ DOMAIN sessionsStore[id].cursors \subseteq DOMAIN sessionsStore'[id].cursors
           /\ cursorCount' >= cursorCount
           /\ cursor # NoCursor => cursor \in DOMAIN sessionsStore[id].cursors
  <1> DEFINE old  == sessionsStore[id]
             idx  == IndexOf(old, cursor)
             more == idx + 1 \in DOMAIN old.paper
             mint == more /\ cursor = NoCursor
             next == IF mint THEN cursorCount + 1 ELSE cursor
             table == IF more THEN Store(old.cursors, next, idx + 1) ELSE old.cursors
  <1>1. /\ id \in DOMAIN sessionsStore /\ IsSession(old)
        /\ idx \in DOMAIN old.paper /\ CursorAccepted(old, cursor)
        /\ cursorCount \in Nat /\ DOMAIN old.cursors \subseteq 1..cursorCount
    BY TypeFacts DEF GetNextQuestion, Owns
  <1>2. idx \in Nat
    BY <1>1 DEF IsSession
  <1>3. sessionsStore'[id].index = idx /\ sessionsStore'[id].cursors = table
    <2>1. PICK q : sessionsStore' = Store(sessionsStore, id,
            [old EXCEPT !.cached = Store(@, CacheKey(old.exam, old.paper[idx]), q),
                        !.cursors = table, !.index = idx, !.question = q])
      BY DEF GetNextQuestion
    <2> DEFINE key == CacheKey(old.exam, old.paper[idx])
               new == [old EXCEPT !.cached = Store(@, key, q),
                        !.cursors = table, !.index = idx, !.question = q]
    <2>2. new.index = idx /\ new.cursors = table
      <3> HIDE DEF old, table, idx, key
      <3> QED BY <1>1 DEF IsSession
    <2>3. sessionsStore'[id] = new
      <3>1. sessionsStore' = Store(sessionsStore, id, new)
        BY <2>1
      <3> HIDE DEF new
      <3> QED BY <1>1, <3>1, ReplaceFacts
    <2> QED BY <2>2, <2>3
  <1>4. cursorCount' = IF mint THEN cursorCount + 1 ELSE cursorCount
    BY DEF GetNextQuestion
  <1>5. NextCursor(id, cursor) = IF more THEN next ELSE NoCursor
    BY DEF NextCursor
  <1>6. cursor # NoCursor => cursor \in DOMAIN old.cursors
    BY <1>1 DEF CursorAccepted
  <1>7. /\ more => next \in DOMAIN table
        /\ DOMAIN old.cursors \subseteq DOMAIN table
    BY DEF Store
  <1> HIDE DEF old, idx, more, mint, table
  <1>8. more => next \in 1..cursorCount'
    BY <1>1, <1>4, <1>6 DEF mint
  <1> QED BY <1>1, <1>2, <1>3, <1>4, <1>5, <1>6, <1>7, <1>8 DEF old, mint

\* A command on one session moves the server as above if it treats that session so.
LEMMA WorkMoves ==
    ASSUME NEW id, WorksOn(id), sessionCount \in Nat, cursorCount' >= cursorCount,
           \/ "seekable" \in sessionsStore[id].options
           \/ DOMAIN sessionsStore[id].cursors \subseteq DOMAIN sessionsStore'[id].cursors,
           sessionsStore[id].index \in Nat => sessionsStore'[id].index \in Nat
    PROVE  ServerMoves
  <1>1. sessionCount' = sessionCount /\ DOMAIN sessionsStore' = DOMAIN sessionsStore
    BY DEF WorksOn
  <1>2. SUFFICES ASSUME NEW i \in DOMAIN sessionsStore
        PROVE /\ sessionsStore'[i].options = sessionsStore[i].options
              /\ \/ "seekable" \in sessionsStore[i].options
                 \/ DOMAIN sessionsStore[i].cursors \subseteq DOMAIN sessionsStore'[i].cursors
              /\ sessionsStore[i].index \in Nat => sessionsStore'[i].index \in Nat
    BY <1>1 DEF ServerMoves
  <1>3. CASE i = id
    BY <1>3 DEF WorksOn
  <1>4. CASE i # id
    BY <1>4 DEF WorksOn
  <1> QED BY <1>3, <1>4

LEMMA NextMoves == ASSUME TypeOK, Next PROVE ServerMoves
  <1>0. /\ sessionCount \in Nat /\ cursorCount \in Nat
        /\ \A id \in DOMAIN sessionsStore :
             IsSession(sessionsStore[id]) /\ id \in 1..sessionCount
    BY TypeFacts
  <1>1. ASSUME NEW u \in Users, NEW e \in Exams, NEW options \in OptionChoices, NEW accept,
               StartNewExamSession(u, e, options, accept)
        PROVE  ServerMoves
    <2>1. /\ sessionCount' = sessionCount + 1 /\ cursorCount' = cursorCount
          /\ DOMAIN sessionsStore' = DOMAIN sessionsStore \cup {sessionCount + 1}
          /\ \A i \in DOMAIN sessionsStore : sessionsStore'[i] = sessionsStore[i]
      BY <1>1, StartSummary
    <2> QED BY <1>0, <2>1 DEF ServerMoves
  <1>2. ASSUME NEW u, NEW id, NEW c \in Presentable, GetNextQuestion(u, id, c)
        PROVE  ServerMoves
    <2>1. /\ id \in DOMAIN sessionsStore /\ sessionsStore'[id].index \in Nat
          /\ DOMAIN sessionsStore[id].cursors \subseteq DOMAIN sessionsStore'[id].cursors
          /\ cursorCount' >= cursorCount
      BY <1>2, ReadEffect
    <2>2. WorksOn(id)
      BY <1>2, GetNextSummary
    <2> QED BY <1>0, <2>1, <2>2, WorkMoves
  <1>3. ASSUME NEW u, NEW id, NEW c, NEW i, SeekCursorTo(u, id, c, i)
        PROVE  ServerMoves
    <2>1. /\ WorksOn(id) /\ "seekable" \in sessionsStore[id].options
          /\ cursorCount' = cursorCount + 1
      BY <1>3, SeekSummary
    <2>2. sessionsStore'[id].index = sessionsStore[id].index
      <3> DEFINE old == sessionsStore[id]
                 table == Delete(Store(old.cursors, cursorCount + 1, i), c)
                 new == [old EXCEPT !.cursors = table]
      <3>1. id \in DOMAIN sessionsStore /\ IsSession(old)
        BY <1>0, <2>1 DEF WorksOn
      <3>2. sessionsStore' = Store(sessionsStore, id, new)
        BY <1>3 DEF SeekCursorTo
      <3>3. new.index = old.index
        <4> HIDE DEF old, table
        <4> QED BY <3>1 DEF IsSession
      <3> HIDE DEF new
      <3> QED BY <3>1, <3>2, <3>3, ReplaceFacts
    <2> QED BY <1>0, <2>1, <2>2, WorkMoves
  <1>4. ASSUME NEW u, NEW id, NEW a, NEW checkOnly \in BOOLEAN,
               SubmitAnswer(u, id, a, checkOnly)
        PROVE  ServerMoves
    <2>1. /\ WorksOn(id) /\ cursorCount' = cursorCount
          /\ sessionsStore'[id].cursors = sessionsStore[id].cursors
      BY <1>4, SubmitSummary
    <2>2. sessionsStore'[id].index = sessionsStore[id].index
      <3> DEFINE old == sessionsStore[id]
                 kept == AnswerKept(old, a, checkOnly)
                 new == [old EXCEPT !.answer = kept]
      <3>1. id \in DOMAIN sessionsStore /\ IsSession(old)
        BY <1>0, <2>1 DEF WorksOn
      <3>2. sessionsStore' = Store(sessionsStore, id, new)
        BY <1>4 DEF SubmitAnswer
      <3>3. new.index = old.index
        <4> HIDE DEF old, kept
        <4> QED BY <3>1 DEF IsSession
      <3> HIDE DEF new
      <3> QED BY <3>1, <3>2, <3>3, ReplaceFacts
    <2> QED BY <1>0, <2>1, <2>2, WorkMoves
  <1>5. ASSUME NEW u, NEW id, EndExamSession(u, id) PROVE ServerMoves
    <2>1. /\ DOMAIN sessionsStore' = DOMAIN sessionsStore \ {id}
          /\ \A i \in DOMAIN sessionsStore' : sessionsStore'[i] = sessionsStore[i]
          /\ UNCHANGED <<sessionCount, cursorCount>>
      BY <1>5, EndSummary
    <2> QED BY <1>0, <2>1 DEF ServerMoves
  <1>6. ASSUME NEW u, NEW id, EndExamSessionFails(u, id) PROVE ServerMoves
    BY <1>0, <1>6 DEF EndExamSessionFails, AfterFailedReport, ServerMoves
  <1> QED BY <1>1, <1>2, <1>3, <1>4, <1>5, <1>6 DEF Next
-------------------------------------------------------------------------------
(***************************************************************************)
(* Requests are steps of the server.                                       *)
(***************************************************************************)
LEMMA ApiSteps ==
    ASSUME TypeOK, NEW config, ApiNext(config)
    PROVE  [Next]_vars
  BY DEF ApiNext, Next, HandleCreate, HandleGetNextQuestion, HandleSeekCursor,
         HandleSubmitAnswer, HandleDelete, HandleDeleteTracking
-------------------------------------------------------------------------------
(***************************************************************************)
(* What the tabs know.                                                     *)
(***************************************************************************)
Known == Answers \cup {NoAnswer}

TabFields == {"page", "shown", "summary", "news", "answers", "refetch", "moves", "saves",
              "position", "watched", "cursor", "checked", "confirm"}

\* Everything a tab may send has come from the server or from its user.
TabKnows(t) ==
    /\ DOMAIN tabs[t] = TabFields
    /\ tabs[t].page \in 0..sessionCount
    /\ tabs[t].cursor \in Presentable
    /\ tabs[t].moves \in Seq(Navigations)
    /\ \A i \in DOMAIN tabs[t].moves : tabs[t].moves[i].cursor \in Presentable
    /\ tabs[t].answers \in Known \cup {Cold}
    /\ tabs[t].refetch # None => tabs[t].refetch[1] \in Known

SavingFields == {"answer", "checkOnly", "from", "last", "merged", "heard", "done", "of"}

IsSave(save) ==
    /\ DOMAIN save = SavingFields
    /\ save.answer \in AnswerOfUser
    /\ save.checkOnly \in BOOLEAN
    /\ save.from \in Nat
    /\ save.merged \in Answers \cup {None}
    /\ save.done \in BOOLEAN /\ (save.done => save.merged # None)

TabSaves(t) ==
    /\ DOMAIN tabs[t].saves = Slots
    /\ \A s \in Slots : tabs[t].saves[s] # None => IsSave(tabs[t].saves[s])

SummaryFields == {"exam", "index", "question", "questions", "seekable", "practice"}

\* A summary of the session, whenever it was served.
SummaryOf(page, summary) ==
    /\ DOMAIN summary = SummaryFields /\ summary.index \in Int
    /\ page \in DOMAIN sessionsStore =>
         (summary.seekable <=> "seekable" \in sessionsStore[page].options)

\* A cursor of the tab's own is one of the session, if that cannot seek; the tab has
\* an index on display then, unless its summary has been rewound.
TabLives(t) ==
    /\ SummaryOf(tabs[t].page, tabs[t].summary)
    /\ tabs[t].news # None => SummaryOf(tabs[t].page, tabs[t].news[1])
    /\ tabs[t].position # NoPosition => tabs[t].position.index \in Nat
    /\ tabs[t].cursor # NoCursor => tabs[t].summary.index \in Nat \/ course[t].rewound
    /\ tabs[t].page \in DOMAIN sessionsStore =>
         LET sess == sessionsStore[tabs[t].page]
         IN  "seekable" \in sess.options \/ tabs[t].cursor \in DOMAIN sess.cursors \cup {NoCursor}

BudgetKept == budget \in Budget

Courses == [due : Int, adrift : BOOLEAN, rewound : BOOLEAN]

TabInv(t) == TabKnows(t) /\ TabSaves(t) /\ TabLives(t)

CInv == /\ BudgetKept /\ DOMAIN tabs = Tabs /\ course \in [Tabs -> Courses]
        /\ \A t \in Tabs : TabInv(t)

LEMMA ClientSteps ==
    ASSUME TypeOK, CInv, ClientNext
    PROVE  ApiNext(budget.config) \/ UNCHANGED apiVars
  <1>1. /\ budget.tabs \subseteq Tabs /\ budget.exams \subseteq Exams
        /\ budget.options \subseteq OptionChoices
    BY DEF CInv, BudgetKept, Budget
  <1>2. \A t \in Tabs : UserOf[t] \in Users
    BY TabsAssumption
  <1>3. ASSUME NEW t \in budget.tabs, NavigationSteps(t)
        PROVE  ApiNext(budget.config) \/ UNCHANGED apiVars
    <2>1. t \in Tabs /\ UserOf[t] \in Users
      BY <1>1, <1>2
    <2>2. ASSUME NEW i \in DOMAIN tabs[t].moves, NEW c, c = tabs[t].moves[i].cursor,
                 HandleGetNextQuestion(UserOf[t], tabs[t].page, c)
          PROVE  ApiNext(budget.config)
      <3>1. tabs[t].page \in DOMAIN sessionsStore
        BY <2>2 DEF HandleGetNextQuestion, GetNextQuestion, Owns
      <3>2. c \in Presentable
        BY <2>1, <2>2 DEF CInv, TabInv, TabKnows
      <3> QED BY <2>1, <2>2, <3>1, <3>2 DEF ApiNext
    <2>3. ASSUME NEW i \in DOMAIN tabs[t].moves, NEW c, c = tabs[t].moves[i].cursor, NEW n,
                 HandleSeekCursor(UserOf[t], tabs[t].page, c, n)
          PROVE  ApiNext(budget.config)
      <3>1. tabs[t].page \in DOMAIN sessionsStore /\ n \in Askable(tabs[t].page)
        BY <2>3 DEF HandleSeekCursor, SeekCursorTo, Owns, InRange, Askable
      <3>2. c \in Presentable
        BY <2>1, <2>3 DEF CInv, TabInv, TabKnows
      <3> QED BY <2>1, <2>3, <3>1, <3>2 DEF ApiNext
    <2> QED BY <1>3, <2>2, <2>3
            DEF NavigationSteps, PressMove, StartMove, ReadAnswered, ReadLost,
                SeekAnswered, SeekLost, MoveFails
  <1>4. ASSUME NEW t \in budget.tabs, AnswerSteps(t)
        PROVE  ApiNext(budget.config) \/ UNCHANGED apiVars
    <2>1. ASSUME NEW s \in Slots, Posts(t, s) PROVE ApiNext(budget.config)
      <3> DEFINE save == tabs[t].saves[s]
      <3>1. t \in Tabs /\ UserOf[t] \in Users
        BY <1>1, <1>2
      <3>2. save # None /\ save.merged # None
            /\ HandleSubmitAnswer(UserOf[t], tabs[t].page, save.merged, save.checkOnly)
        BY <2>1 DEF Posts
      <3>3. save.merged \in Answers /\ save.checkOnly \in BOOLEAN
        BY <3>1, <3>2 DEF CInv, TabInv, TabSaves, IsSave
      <3>4. tabs[t].page \in DOMAIN sessionsStore
        BY <3>2 DEF HandleSubmitAnswer, SubmitAnswer, Owns
      <3> QED BY <3>1, <3>2, <3>3, <3>4 DEF ApiNext
    <2> QED BY <1>4, <2>1 DEF AnswerSteps, PressSubmit, FetchAnswered, FetchArrives,
                  PostAnswered, SaveFails
  <1>5. ASSUME NEW t \in budget.tabs, SessionSteps(t)
        PROVE  ApiNext(budget.config) \/ UNCHANGED apiVars
    <2>1. ASSUME NEW e \in budget.exams, NEW options \in budget.options,
                 NEW accept \in AcceptChoices, Create(t, e, options, accept)
          PROVE  ApiNext(budget.config)
      BY <1>1, <1>2, <2>1 DEF Create, ApiNext
    <2>2. ASSUME NEW id, Ends(t, id) PROVE ApiNext(budget.config)
      <3>1. HandleDelete(budget.config, UserOf[t], id) /\ id \in DOMAIN sessionsStore
        BY <2>2 DEF Ends, HandleDelete, EndExamSession, Owns
      <3> QED BY <1>1, <1>2, <3>1 DEF ApiNext
    <2> QED BY <1>5, <2>1, <2>2 DEF SessionSteps, Load, Leave, Open, SummaryAnswered,
              SummaryArrives, PressEnd, CancelEnd, EndAnswered, EndLost
  <1>6. ASSUME NEW u \in Users, NEW i \in DOMAIN reports, DeleteTracking(u, i)
        PROVE  ApiNext(budget.config)
    BY <1>6 DEF DeleteTracking, ApiNext
  <1>7. ASSUME NEW u \in Users, NEW id \in DOMAIN sessionsStore,
               NEW submission \in budget.raw, NEW checkOnly \in BOOLEAN,
               RawPost(u, id, submission, checkOnly)
        PROVE  ApiNext(budget.config)
    <2>1. submission \in Answers /\ HandleSubmitAnswer(u, id, submission, checkOnly)
      BY <1>7 DEF RawPost, CInv, BudgetKept, Budget
    <2> QED BY <1>7, <2>1 DEF ApiNext
  <1> QED BY <1>3, <1>4, <1>5, <1>6, <1>7 DEF ClientNext
-------------------------------------------------------------------------------
(***************************************************************************)
(* What each step does to the fields of its tab.                           *)
(***************************************************************************)
IsTab(tab) ==
    /\ DOMAIN tab = TabFields /\ DOMAIN tab.saves = Slots
    /\ \A s \in Slots : tab.saves[s] # None => DOMAIN tab.saves[s] = SavingFields

\* The tab of an action, before it and after.
Turns(t, tab, new) ==
    t \in Tabs /\ DOMAIN tabs = Tabs /\ tab = tabs[t] /\ new = tabs'[t] /\ IsTab(tab)

Keeps(tab, new, fields) ==
    DOMAIN new = TabFields /\ \A f \in TabFields \ fields : new[f] = tab[f]

MoveParts == {"moves", "watched", "cursor", "summary", "position"}

\* A submission after its request was sent, or after its page has gone.
SameSave(old, new) ==
    /\ old # None /\ DOMAIN new = SavingFields
    /\ \A f \in SavingFields \ {"done", "of"} : new[f] = old[f]
    /\ new.of \in {old.of, "tab", "nobody"}
    /\ new.done = old.done \/ (new.done = TRUE /\ old.merged # None)

\* Submissions that go on, or are given up.
SavesGoOn(tab, new) ==
    /\ DOMAIN new.saves = Slots
    /\ \A s \in Slots : new.saves[s] # None => SameSave(tab.saves[s], new.saves[s])

\* All submissions but one stay.
OtherSaves(tab, new, s) ==
    /\ DOMAIN new.saves = Slots
    /\ \A r \in Slots \ {s} : new.saves[r] = tab.saves[r]

LEMMA KeepsMore ==
    ASSUME NEW tab, NEW new, NEW F, NEW G, Keeps(tab, new, F), F \subseteq G
    PROVE  Keeps(tab, new, G)
  BY DEF Keeps

LEMMA WithMoveEffect ==
    ASSUME NEW tab, DOMAIN tab = TabFields, NEW index, NEW seek, NEW new,
           new = WithMove(tab, index, seek)
    PROVE  /\ Keeps(tab, new, {"moves", "watched", "position"})
           /\ new.moves = Append(tab.moves, Navigation(tab, index, seek))
           /\ new.watched = TRUE /\ new.position = NoPosition
  <1> DEFINE m == Append(tab.moves, Navigation(tab, index, seek))
  <1>1. new = [tab EXCEPT !.position = NoPosition, !.watched = TRUE, !.moves = m]
    BY DEF WithMove
  <1> HIDE DEF m
  <1>2. DOMAIN new = TabFields /\ new.moves = m /\ new.watched = TRUE /\ new.position = NoPosition
    BY <1>1 DEF TabFields
  <1>3. Keeps(tab, new, {"moves", "watched", "position"})
    BY <1>1 DEF TabFields, Keeps
  <1> QED BY <1>2, <1>3 DEF m

LEMMA WithoutMoveEffect ==
    ASSUME NEW tab, DOMAIN tab = TabFields, NEW i, NEW new, new = WithoutMove(tab, i)
    PROVE  /\ Keeps(tab, new, {"moves", "watched"})
           /\ new.moves = RemoveAt(tab.moves, i)
           /\ new.watched = (tab.watched /\ i # Len(tab.moves))
  <1> DEFINE m == RemoveAt(tab.moves, i)
             w == tab.watched /\ i # Len(tab.moves)
  <1>1. new = [tab EXCEPT !.moves = m, !.watched = w]
    BY DEF WithoutMove
  <1> HIDE DEF m, w
  <1>2. new.moves = m /\ new.watched = w
    BY <1>1 DEF TabFields
  <1>3. Keeps(tab, new, {"moves", "watched"})
    BY <1>1 DEF TabFields, Keeps
  <1> QED BY <1>2, <1>3 DEF m, w

\* What a tab shows once a navigation to index has arrived with question.
Shows(tab, new, index, question) ==
    /\ new.position = tab.position \/ new.position = [index |-> index, question |-> question]
    /\ new.summary = [tab.summary EXCEPT !.index = index, !.question = question]

LEMMA ArrivedEffect ==
    ASSUME NEW tab, DOMAIN tab = TabFields, NEW i, NEW question, NEW next, NEW new,
           new = Arrived(tab, i, question, next), NEW index, index = tab.moves[i].index
    PROVE  /\ Keeps(tab, new, MoveParts) /\ Shows(tab, new, index, question)
           /\ new.moves = RemoveAt(tab.moves, i) /\ new.watched \in BOOLEAN
           /\ new.cursor = IF tab.moves[i].here THEN next ELSE tab.cursor
           /\ ~(i = Len(tab.moves) /\ tab.watched) => new.position = tab.position
  <1> DEFINE onShow   == i = Len(tab.moves) /\ tab.watched
             moves    == RemoveAt(tab.moves, i)
             watched  == tab.watched /\ ~onShow
             cursor   == IF tab.moves[i].here THEN next ELSE tab.cursor
             summary  == [tab.summary EXCEPT !.index = index, !.question = question]
             position == IF onShow THEN [index |-> index, question |-> question]
                         ELSE tab.position
  <1>1. new = [tab EXCEPT !.moves = moves, !.watched = watched, !.cursor = cursor,
                          !.summary = summary, !.position = position]
    BY DEF Arrived, SyncedSummary
  <1>2. watched \in BOOLEAN
    OBVIOUS
  <1> HIDE DEF moves, watched, summary, position, cursor
  <1>3. /\ new.watched = watched /\ new.summary = summary /\ new.moves = moves
        /\ new.position = position /\ new.cursor = cursor
    BY <1>1 DEF TabFields
  <1>4. Keeps(tab, new, MoveParts)
    BY <1>1 DEF TabFields, Keeps, MoveParts
  <1>5. /\ position = tab.position \/ position = [index |-> index, question |-> question]
        /\ ~onShow => position = tab.position
    BY DEF position
  <1> QED BY <1>2, <1>3, <1>4, <1>5 DEF Shows, summary, moves, cursor

\* A navigation that goes on to its next request.
LEMMA GoOnEffect ==
    ASSUME NEW tab, DOMAIN tab = TabFields, NEW m, NEW new, new = [tab EXCEPT !.moves = m]
    PROVE  Keeps(tab, new, {"moves"}) /\ new.moves = m
  BY DEF TabFields, Keeps

\* The steps of a navigation touch nothing that submissions are made of.
LEMMA NavigationEffect ==
    ASSUME NEW t, NEW tab, NEW new, Turns(t, tab, new), tab.moves \in Seq(Navigations),
           NavigationSteps(t)
    PROVE  Keeps(tab, new, MoveParts) /\ told' = told
  <1>1. told' = told
    BY DEF NavigationSteps, PressMove, StartMove, ReadAnswered, ReadLost, SeekAnswered,
           SeekLost, MoveFails
  <1>2. /\ DOMAIN tabs = Tabs /\ DOMAIN tab = TabFields /\ tab.moves \in Seq(Navigations)
        /\ t \in Tabs /\ tab = tabs[t] /\ new = tabs'[t]
    BY DEF Turns, IsTab
  <1>3. ASSUME NEW index, PressMove(t, index) PROVE Keeps(tab, new, MoveParts)
    <2>1. PICK seek : new = WithMove(tab, index, seek)
      BY <1>2, <1>3 DEF PressMove, StartMove
    <2>3. DOMAIN tab = TabFields
      BY <1>2
    <2>2. Keeps(tab, new, {"moves", "watched", "position"})
      BY <2>1, <2>3, WithMoveEffect
    <2> QED BY <2>2, KeepsMore DEF MoveParts
  <1>4. ASSUME NEW i, ReadLost(t, i) \/ SeekLost(t, i) \/ MoveFails(t, i)
        PROVE  Keeps(tab, new, MoveParts)
    <2>1. new = WithoutMove(tab, i)
      BY <1>2, <1>4 DEF ReadLost, SeekLost, MoveFails
    <2>2. Keeps(tab, new, {"moves", "watched"})
      BY <1>2, <2>1, WithoutMoveEffect
    <2> QED BY <2>2, KeepsMore DEF MoveParts
  <1>5. ASSUME NEW m, new = [tab EXCEPT !.moves = m]
        PROVE  Keeps(tab, new, MoveParts)
    BY <1>2, <1>5, GoOnEffect, KeepsMore DEF MoveParts
  <1>6. ASSUME NEW i \in DOMAIN tab.moves, ReadAnswered(t, i)
        PROVE  Keeps(tab, new, MoveParts)
    <2> DEFINE nav  == tab.moves[i]
               next == NextCursor(tab.page, nav.cursor)
    <2>1. CASE nav.stage = "read" \/ nav.at = nav.index
      <3>1. PICK question, onward : new = Arrived(tab, i, question, onward)
        BY <1>2, <1>6, <2>1 DEF ReadAnswered
      <3>2. PICK index : index = tab.moves[i].index
        OBVIOUS
      <3> HIDE DEF nav
      <3> QED BY <1>2, <3>1, <3>2, ArrivedEffect
    <2>2. CASE ~(nav.stage = "read" \/ nav.at = nav.index)
      <3>1. tabs' = [tabs EXCEPT ![t].moves[i].at = @ + 1, ![t].moves[i].cursor = next]
        BY <1>2, <1>6, <2>2 DEF ReadAnswered
      <3> HIDE DEF next
      <3>2. PICK m : new = [tab EXCEPT !.moves = m]
        BY <1>2, <3>1 DEF TabFields
      <3> QED BY <1>5, <3>2
    <2> QED BY <2>1, <2>2
  <1>7. ASSUME NEW i \in DOMAIN tab.moves, SeekAnswered(t, i)
        PROVE  Keeps(tab, new, MoveParts)
    <2>1. PICK m : new = [tab EXCEPT !.moves = m]
      BY <1>2, <1>7 DEF TabFields, SeekAnswered
    <2> QED BY <1>5, <2>1
  <1> QED BY <1>1, <1>2, <1>3, <1>4, <1>6, <1>7 DEF NavigationSteps

\* A submission that has just been made.
Submitted(save, tab, heard, answer, checkOnly) ==
    /\ DOMAIN save = SavingFields /\ save.answer = answer /\ save.checkOnly = checkOnly
    /\ save.from = Displayed(tab).index /\ (~save.last => ~IsLastQuestion(tab))
    /\ save.merged = IF tab.answers = Cold THEN None ELSE Merged(tab.answers, answer)
    /\ save.heard = IF tab.answers = Cold THEN {} ELSE heard
    /\ save.done = FALSE /\ save.of = "page"

LEMMA SubmitEffect ==
    ASSUME NEW t, NEW tab, NEW new, Turns(t, tab, new), NEW s \in Slots,
           NEW answer, NEW checkOnly, PressSubmit(t, s, answer, checkOnly)
    PROVE  /\ Keeps(tab, new, {"saves"}) /\ OtherSaves(tab, new, s)
           /\ Submitted(new.saves[s], tab, told[t].answers, answer, checkOnly)
  <1> DEFINE from   == Displayed(tab).index
             last   == IsLastQuestion(tab)
             heard  == told[t].answers
             copy   == Merged(tab.answers, answer)
             bare   == [answer |-> answer, checkOnly |-> checkOnly, from |-> from,
                        last |-> last, merged |-> None, heard |-> {}, done |-> FALSE,
                        of |-> "page"]
             full   == [bare EXCEPT !.merged = copy, !.heard = heard]
             save   == IF tab.answers = Cold THEN bare ELSE full
  <1>1. /\ DOMAIN tab = TabFields /\ DOMAIN tabs = Tabs /\ tab = tabs[t] /\ new = tabs'[t]
        /\ t \in Tabs /\ DOMAIN tab.saves = Slots
    BY DEF Turns, IsTab
  <1>2. tabs' = [tabs EXCEPT ![t].saves[s] = save]
    BY <1>1 DEF PressSubmit, WithCopy
  <1>3. last \in BOOLEAN
    BY DEF IsLastQuestion
  <1> HIDE DEF from, last, heard, copy
  <1>4. /\ DOMAIN bare = SavingFields /\ bare.answer = answer /\ bare.checkOnly = checkOnly
        /\ bare.from = from /\ bare.last = last /\ bare.merged = None /\ bare.heard = {}
        /\ bare.done = FALSE /\ bare.of = "page"
    BY DEF SavingFields
  <1>5. /\ DOMAIN full = SavingFields /\ full.answer = answer /\ full.checkOnly = checkOnly
        /\ full.from = from /\ full.last = last /\ full.merged = copy /\ full.heard = heard
        /\ full.done = FALSE /\ full.of = "page"
    BY DEF SavingFields
  <1> HIDE DEF bare, full
  <1>6. Submitted(save, tab, told[t].answers, answer, checkOnly)
    BY <1>3, <1>4, <1>5 DEF Submitted, from, last, heard, copy
  <1> HIDE DEF save
  <1>7. Keeps(tab, new, {"saves"}) /\ new.saves = [tab.saves EXCEPT ![s] = save]
    BY <1>1, <1>2 DEF Keeps, TabFields
  <1>8. OtherSaves(tab, new, s) /\ new.saves[s] = save
    BY <1>1, <1>7 DEF OtherSaves
  <1> QED BY <1>6, <1>7, <1>8

LEMMA FetchEffect ==
    ASSUME NEW t, NEW tab, NEW new, Turns(t, tab, new), FetchAnswered(t)
    PROVE  Keeps(tab, new, {"refetch"}) /\ new.refetch = <<MyAnswer(tab.page)>>
  <1> DEFINE back == <<MyAnswer(tab.page)>>
  <1>1. tabs' = [tabs EXCEPT ![t].refetch = back]
    BY DEF FetchAnswered, Turns
  <1> HIDE DEF back
  <1>2. Keeps(tab, new, {"refetch"}) /\ new.refetch = back
    BY <1>1 DEF TabFields, Keeps, Turns, IsTab
  <1> QED BY <1>2 DEF back

\* A submission that waited for the fetch takes its copy.
Filled(old, new, saved, known) ==
    /\ old # None /\ old.merged = None /\ DOMAIN new = SavingFields
    /\ \A f \in SavingFields \ {"merged", "heard"} : new[f] = old[f]
    /\ new.merged = Merged(saved, old.answer) /\ new.heard = known

LEMMA ArrivesEffect ==
    ASSUME NEW t, NEW tab, NEW new, Turns(t, tab, new), FetchArrives(t),
           NEW saved, saved = tab.refetch[1],
           NEW known, known = told[t].answers \cap Range(Entries(saved))
    PROVE  /\ Keeps(tab, new, {"answers", "refetch", "saves"})
           /\ new.answers = saved /\ new.refetch = None
           /\ told' = [told EXCEPT ![t].answers = known]
           /\ DOMAIN new.saves = Slots
           /\ \A s \in Slots : \/ /\ new.saves[s] = tab.saves[s]
                                  /\ new.saves[s] # None => new.saves[s].merged # None
                               \/ Filled(tab.saves[s], new.saves[s], saved, known)
  <1> DEFINE saves == [s \in Slots |->
                IF tab.saves[s] = None \/ tab.saves[s].merged # None THEN tab.saves[s]
                ELSE WithCopy(tab.saves[s], saved, known)]
  <1>1. tabs' = [tabs EXCEPT ![t].answers = saved, ![t].refetch = None, ![t].saves = saves]
        /\ told' = [told EXCEPT ![t].answers = known]
    BY DEF FetchArrives, Turns
  <1>2. ASSUME NEW s \in Slots
        PROVE  \/ saves[s] = tab.saves[s] /\ (saves[s] # None => saves[s].merged # None)
               \/ Filled(tab.saves[s], saves[s], saved, known)
    <2> DEFINE old  == tab.saves[s]
               copy == Merged(saved, old.answer)
               full == [old EXCEPT !.merged = copy, !.heard = known]
    <2>1. CASE old = None \/ old.merged # None
      BY <2>1
    <2>2. CASE ~(old = None \/ old.merged # None)
      <3>1. saves[s] = full
        BY <2>2 DEF WithCopy
      <3>2. DOMAIN old = SavingFields
        BY <2>2 DEF Turns, IsTab
      <3> HIDE DEF old, copy, saves
      <3>3. /\ DOMAIN full = SavingFields /\ full.merged = copy /\ full.heard = known
            /\ \A f \in SavingFields \ {"merged", "heard"} : full[f] = old[f]
        BY <3>2 DEF SavingFields
      <3> HIDE DEF full
      <3>4. Filled(old, saves[s], saved, known)
        BY <2>2, <3>1, <3>3 DEF Filled, copy
      <3> QED BY <3>4 DEF old
    <2> QED BY <2>1, <2>2
  <1>3. DOMAIN saves = Slots
    OBVIOUS
  <1> HIDE DEF saves
  <1>4. /\ Keeps(tab, new, {"answers", "refetch", "saves"})
        /\ new.answers = saved /\ new.refetch = None /\ new.saves = saves
    BY <1>1 DEF TabFields, Keeps, Turns, IsTab
  <1> QED BY <1>1, <1>2, <1>3, <1>4

\* One submission goes on, or is given up.
LEMMA OneGoesOn ==
    ASSUME NEW tab, NEW new, IsTab(tab), NEW s \in Slots, OtherSaves(tab, new, s),
           new.saves[s] # None => SameSave(tab.saves[s], new.saves[s])
    PROVE  SavesGoOn(tab, new)
  BY DEF OtherSaves, SavesGoOn, SameSave, IsTab

LEMMA SendEffect ==
    ASSUME NEW t, NEW tab, NEW new, Turns(t, tab, new), NEW s \in Slots, Posts(t, s)
    PROVE  Keeps(tab, new, {"saves"}) /\ SavesGoOn(tab, new) /\ OtherSaves(tab, new, s)
  <1> DEFINE old  == tab.saves[s]
             sent == [old EXCEPT !.done = TRUE]
             save == IF old.of = "nobody" THEN None ELSE sent
  <1>1. tabs' = [tabs EXCEPT ![t].saves[s] = save] /\ old # None
        /\ old.merged # None
    BY DEF Posts, Turns
  <1>2. DOMAIN old = SavingFields
    BY <1>1 DEF Turns, IsTab
  <1> HIDE DEF old
  <1>3. save # None => SameSave(old, save)
    BY <1>1, <1>2 DEF SameSave, SavingFields
  <1> HIDE DEF save
  <1>4. Keeps(tab, new, {"saves"}) /\ new.saves = [tab.saves EXCEPT ![s] = save]
    BY <1>1 DEF Keeps, TabFields, Turns, IsTab
  <1>5. OtherSaves(tab, new, s) /\ new.saves[s] = save
    BY <1>4 DEF OtherSaves, Turns, IsTab
  <1> QED BY <1>3, <1>4, <1>5, OneGoesOn DEF old, Turns

LEMMA StrayEffect ==
    ASSUME NEW save, save # None => DOMAIN save = SavingFields, Stray(save) # None
    PROVE  SameSave(save, Stray(save))
  BY DEF Stray, SameSave, SavingFields

LEMMA DropEffect ==
    ASSUME NEW t, NEW tab, NEW new, Turns(t, tab, new), NEW s \in Slots, SaveFails(t, s)
    PROVE  Keeps(tab, new, {"saves"}) /\ SavesGoOn(tab, new) /\ OtherSaves(tab, new, s)
  <1>1. PICK left : /\ left \in {None, Stray(tab.saves[s])}
                    /\ tabs' = [tabs EXCEPT ![t].saves[s] = left]
    BY DEF SaveFails, Turns
  <1>2. left # None => SameSave(tab.saves[s], left)
    BY <1>1, StrayEffect DEF Turns, IsTab
  <1>3. Keeps(tab, new, {"saves"}) /\ new.saves = [tab.saves EXCEPT ![s] = left]
    BY <1>1 DEF Keeps, TabFields, Turns, IsTab
  <1>4. OtherSaves(tab, new, s) /\ new.saves[s] = left
    BY <1>3 DEF OtherSaves, Turns, IsTab
  <1> QED BY <1>2, <1>3, <1>4, OneGoesOn DEF Turns

\* After a save the page stays where it is, or goes on to the next question.
MovesOn(tab, new, save) ==
    \/ /\ ~Continues(save) /\ new.moves = tab.moves /\ new.watched = tab.watched
       /\ new.position = tab.position
    \/ /\ Continues(save) /\ ~save.last /\ new.watched = TRUE /\ new.position = NoPosition
       /\ new.moves = Append(tab.moves, Navigation(tab, save.from + 1, FALSE))

PostParts == {"answers", "checked", "confirm", "saves", "moves", "watched", "position"}

LEMMA PostEffect ==
    ASSUME NEW t, NEW tab, NEW new, Turns(t, tab, new), NEW s \in Slots, PostAnswered(t, s),
           NEW save, save = tab.saves[s]
    PROVE  /\ Keeps(tab, new, PostParts)
           /\ new.answers = IF save.checkOnly THEN tab.answers ELSE save.merged
           /\ new.checked \in {tab.checked, save.answer} /\ new.confirm \in BOOLEAN
           /\ OtherSaves(tab, new, s) /\ new.saves[s] = None /\ SavesGoOn(tab, new)
           /\ MovesOn(tab, new, save)
  <1> DEFINE answers == IF save.checkOnly THEN tab.answers ELSE save.merged
             reveals == save.of = "page" /\ save.checkOnly
             asks    == save.of = "page" /\ ~save.checkOnly /\ save.last
             checked == IF reveals THEN save.answer ELSE tab.checked
             confirm == tab.confirm \/ asks
             saves   == [tab.saves EXCEPT ![s] = None]
             saved   == [tab EXCEPT !.saves = saves, !.answers = answers,
                                    !.checked = checked, !.confirm = confirm]
  <1>1. /\ DOMAIN tab = TabFields /\ DOMAIN tabs = Tabs /\ t \in Tabs /\ tab = tabs[t]
        /\ new = tabs'[t] /\ DOMAIN tab.saves = Slots
    BY DEF Turns, IsTab
  <1>2. new = IF Continues(save) THEN WithMove(saved, save.from + 1, FALSE) ELSE saved
    <2>1. new = AfterSave(tab, s)
      BY <1>1 DEF PostAnswered
    <2>2. AfterSave(tab, s) = IF Continues(save) THEN WithMove(saved, save.from + 1, FALSE)
                              ELSE saved
      <3> HIDE DEF answers, checked, confirm
      <3>1. [tab EXCEPT !.saves[s] = None, !.answers = answers, !.checked = checked,
                        !.confirm = confirm] = saved
        BY <1>1 DEF TabFields
      <3> QED BY <3>1 DEF AfterSave, answers, checked, confirm
    <2> QED BY <2>1, <2>2
  <1>3. checked \in {tab.checked, save.answer}
    OBVIOUS
  <1>4. confirm \in BOOLEAN
    OBVIOUS
  <1> HIDE DEF answers, checked, saves, confirm
  <1>5. /\ Keeps(tab, saved, {"answers", "checked", "confirm", "saves"})
        /\ saved.answers = answers /\ saved.checked = checked /\ saved.confirm = confirm
        /\ saved.saves = saves
    BY <1>1 DEF TabFields, Keeps
  <1> HIDE DEF saved
  <1>6. /\ Keeps(tab, new, PostParts) /\ MovesOn(tab, new, save)
        /\ new.answers = answers /\ new.checked = checked /\ new.confirm = confirm
        /\ new.saves = saves
    <2>1. CASE ~Continues(save)
      <3>1. new = saved
        BY <1>2, <2>1
      <3>2. saved.moves = tab.moves /\ saved.watched = tab.watched
            /\ saved.position = tab.position
        BY <1>5 DEF Keeps, TabFields
      <3>3. Keeps(tab, saved, PostParts)
        BY <1>5, KeepsMore DEF PostParts
      <3> QED BY <1>5, <2>1, <3>1, <3>2, <3>3 DEF MovesOn
    <2>2. CASE Continues(save)
      <3>1. PICK rec, index, seek : rec = saved /\ index = save.from + 1 /\ seek = FALSE
        OBVIOUS
      <3>2. new = WithMove(rec, index, seek) /\ DOMAIN rec = TabFields
        BY <1>2, <1>5, <2>2, <3>1 DEF Keeps
      <3>3. /\ Keeps(rec, new, {"moves", "watched", "position"})
            /\ new.moves = Append(rec.moves, Navigation(rec, index, seek))
            /\ new.watched = TRUE /\ new.position = NoPosition
        BY <3>2, WithMoveEffect
      <3>4. /\ rec.moves = tab.moves /\ rec.cursor = tab.cursor /\ rec.summary = tab.summary
        BY <1>5, <3>1 DEF Keeps, TabFields
      <3>5. Navigation(rec, index, seek) = Navigation(tab, index, seek)
        BY <3>4 DEF Navigation, FirstStage
      <3>6. Keeps(tab, new, PostParts)
        BY <1>5, <3>1, <3>3 DEF Keeps, PostParts
      <3>7. /\ new.answers = answers /\ new.checked = checked /\ new.confirm = confirm
            /\ new.saves = saves
        BY <1>5, <3>1, <3>3 DEF Keeps, TabFields
      <3>8. new.moves = Append(tab.moves, Navigation(tab, save.from + 1, FALSE))
        BY <3>1, <3>3, <3>4, <3>5
      <3>9. ~save.last
        BY <2>2 DEF Continues
      <3> QED BY <2>2, <3>3, <3>6, <3>7, <3>8, <3>9 DEF MovesOn
    <2> QED BY <2>1, <2>2
  <1>7. OtherSaves(tab, new, s) /\ new.saves[s] = None
    BY <1>1, <1>6 DEF OtherSaves, saves
  <1>8. SavesGoOn(tab, new)
    BY <1>7, OneGoesOn DEF Turns
  <1> QED BY <1>3, <1>4, <1>6, <1>7, <1>8 DEF answers

LeftParts == {"shown", "position", "watched", "cursor", "checked", "confirm", "moves", "saves"}

LEMMA LeftEffect ==
    ASSUME NEW tab, IsTab(tab), NEW new, new = LeftPage(tab)
    PROVE  /\ Keeps(tab, new, LeftParts) /\ SavesGoOn(tab, new)
           /\ new.shown = FALSE /\ new.position = NoPosition /\ new.watched = FALSE
           /\ new.cursor = NoCursor /\ new.checked = None /\ new.confirm = FALSE
           /\ new.moves = [i \in DOMAIN tab.moves |-> [tab.moves[i] EXCEPT !.here = FALSE]]
  <1> DEFINE moves == [i \in DOMAIN tab.moves |-> [tab.moves[i] EXCEPT !.here = FALSE]]
             saves == [s \in Slots |->
                         IF tab.saves[s] = None \/ tab.saves[s].of = "nobody"
                         THEN tab.saves[s] ELSE [tab.saves[s] EXCEPT !.of = "tab"]]
  <1>1. new = [tab EXCEPT !.shown = FALSE, !.position = NoPosition, !.watched = FALSE,
                          !.cursor = NoCursor, !.checked = None, !.confirm = FALSE,
                          !.moves = moves, !.saves = saves]
    BY DEF LeftPage
  <1>2. ASSUME NEW s \in Slots, saves[s] # None PROVE SameSave(tab.saves[s], saves[s])
    <2> DEFINE old == tab.saves[s]
               on  == [old EXCEPT !.of = "tab"]
    <2>1. CASE old.of = "nobody"
      <3>1. saves[s] = old /\ old # None
        BY <1>2, <2>1
      <3> QED BY <3>1 DEF IsTab, SameSave
    <2>2. CASE old.of # "nobody"
      <3>1. old # None
        BY <1>2
      <3>2. saves[s] = on /\ DOMAIN old = SavingFields
        BY <2>2, <3>1 DEF IsTab
      <3> HIDE DEF saves, old
      <3>3. SameSave(old, on)
        BY <3>1, <3>2 DEF SameSave, SavingFields
      <3> QED BY <3>2, <3>3 DEF old
    <2> QED BY <2>1, <2>2
  <1>3. DOMAIN saves = Slots
    OBVIOUS
  <1> HIDE DEF moves, saves
  <1>4. /\ new.shown = FALSE /\ new.position = NoPosition /\ new.watched = FALSE
        /\ new.cursor = NoCursor /\ new.checked = None /\ new.confirm = FALSE
        /\ new.moves = moves /\ new.saves = saves
    BY <1>1 DEF IsTab, TabFields
  <1>5. Keeps(tab, new, LeftParts)
    BY <1>1 DEF IsTab, TabFields, Keeps, LeftParts
  <1>6. SavesGoOn(tab, new)
    BY <1>2, <1>3, <1>4 DEF SavesGoOn
  <1> QED BY <1>4, <1>5, <1>6 DEF moves

\* A page that has just loaded, with the submissions of the one before.
Fresh(new, id, excerpt) ==
    /\ DOMAIN new = TabFields /\ new.page = id /\ new.summary = excerpt
    /\ new.news = None /\ new.answers = Cold /\ new.refetch = None /\ new.moves = <<>>
    /\ new.position = NoPosition /\ new.watched = FALSE /\ new.cursor = NoCursor
    /\ new.checked = None /\ new.confirm = FALSE /\ new.shown \in BOOLEAN

LEMMA LoadEffect ==
    ASSUME NEW t, NEW tab, NEW new, Turns(t, tab, new), NEW id, Load(t, id),
           NEW excerpt, excerpt = Excerpt(id)
    PROVE  Fresh(new, id, excerpt) /\ SavesGoOn(tab, new)
  <1> DEFINE saves == [s \in Slots |-> Stray(tab.saves[s])]
             page  == LoadedPage(id, excerpt)
  <1>1. new = [page EXCEPT !.saves = saves]
    BY DEF Load, Turns
  <1>2. \A s \in Slots : saves[s] # None => SameSave(tab.saves[s], saves[s])
    BY StrayEffect DEF Turns, IsTab
  <1>3. DOMAIN saves = Slots
    OBVIOUS
  <1> HIDE DEF saves
  <1>4. DOMAIN page = TabFields /\ Fresh(page, id, excerpt)
    BY DEF LoadedPage, TabFields, Fresh
  <1> HIDE DEF page
  <1>5. Fresh(new, id, excerpt) /\ new.saves = saves
    BY <1>1, <1>4 DEF Fresh, TabFields
  <1> QED BY <1>2, <1>3, <1>5 DEF SavesGoOn

NoExcerpt == [exam |-> None, index |-> -1, question |-> NoQuestion, questions |-> 0,
              seekable |-> FALSE, practice |-> FALSE]

LEMMA ListEffect ==
    ASSUME NEW new, new = ListPage
    PROVE  Fresh(new, 0, NoExcerpt) /\ new.saves = [s \in Slots |-> None]
  <1> DEFINE page == LoadedPage(0, NoExcerpt)
  <1>1. new = [page EXCEPT !.shown = FALSE]
    BY DEF ListPage, NoExcerpt
  <1>2. /\ DOMAIN page = TabFields /\ Fresh(page, 0, NoExcerpt)
        /\ page.saves = [s \in Slots |-> None]
    BY DEF LoadedPage, TabFields, Fresh
  <1> HIDE DEF page
  <1> QED BY <1>1, <1>2 DEF Fresh, TabFields

LEMMA OpenEffect ==
    ASSUME NEW t, NEW tab, NEW new, Turns(t, tab, new), Open(t)
    PROVE  Keeps(tab, new, {"shown"}) /\ new.shown = TRUE
  BY DEF Open, Keeps, TabFields, Turns, IsTab

LEMMA NewsEffect ==
    ASSUME NEW t, NEW tab, NEW new, Turns(t, tab, new), SummaryAnswered(t),
           NEW excerpt, excerpt = Excerpt(tab.page)
    PROVE  Keeps(tab, new, {"news"}) /\ new.news = <<excerpt>>
  <1>1. tabs' = [tabs EXCEPT ![t].news = <<excerpt>>]
    BY DEF SummaryAnswered, Turns
  <1> QED BY <1>1 DEF Keeps, TabFields, Turns, IsTab

LEMMA SummaryEffect ==
    ASSUME NEW t, NEW tab, NEW new, Turns(t, tab, new), SummaryArrives(t)
    PROVE  /\ Keeps(tab, new, {"news", "summary"}) /\ new.news = None
           /\ tab.news # None /\ new.summary = tab.news[1]
  BY DEF SummaryArrives, Keeps, TabFields, Turns, IsTab

LEMMA ConfirmEffect ==
    ASSUME NEW t, NEW tab, NEW new, Turns(t, tab, new), PressEnd(t) \/ CancelEnd(t)
    PROVE  Keeps(tab, new, {"confirm"}) /\ new.confirm \in BOOLEAN
  <1>1. PICK open \in BOOLEAN : tabs' = [tabs EXCEPT ![t].confirm = open]
    BY DEF PressEnd, CancelEnd
  <1> QED BY <1>1 DEF Keeps, TabFields, Turns, IsTab
-------------------------------------------------------------------------------
(***************************************************************************)
(* A step of the client keeps what the tabs know.                          *)
(***************************************************************************)
LEMMA TabFacts ==
    ASSUME CInv, NEW t \in Tabs, NEW tab, NEW new, tab = tabs[t], new = tabs'[t]
    PROVE  /\ Turns(t, tab, new) /\ IsTab(tab)
           /\ tab.moves \in Seq(Navigations) /\ tab.page \in 0..sessionCount
           /\ tab.answers \in Known \cup {Cold} /\ tab.cursor \in Presentable
           /\ tab.refetch # None => tab.refetch[1] \in Known
           /\ \A s \in Slots : tab.saves[s] # None => IsSave(tab.saves[s])
           /\ TabInv(t) /\ TabKnows(t) /\ TabSaves(t) /\ TabLives(t)
  BY DEF CInv, TabInv, TabKnows, TabSaves, IsSave, Turns, IsTab

LEMMA RemoveFacts ==
    ASSUME NEW S, NEW s \in Seq(S), NEW i \in DOMAIN s
    PROVE  /\ RemoveAt(s, i) \in Seq(S)
           /\ \A j \in DOMAIN RemoveAt(s, i) : \E k \in DOMAIN s : RemoveAt(s, i)[j] = s[k]
  <1> DEFINE head == SubSeq(s, 1, i - 1)
             tail == SubSeq(s, i + 1, Len(s))
  <1>0. Len(s) \in Nat /\ DOMAIN s = 1..Len(s) /\ i \in 1..Len(s)
    OBVIOUS
  <1>1. /\ head \in Seq(S) /\ Len(head) = i - 1
        /\ \A j \in 1..(i - 1) : head[j] = s[j]
    OBVIOUS
  <1>2. /\ tail \in Seq(S) /\ Len(tail) = Len(s) - i
        /\ \A j \in 1..(Len(s) - i) : tail[j] = s[i + j]
    OBVIOUS
  <1>3. RemoveAt(s, i) = head \o tail
    BY DEF RemoveAt
  <1> HIDE DEF head, tail
  <1> DEFINE rest == head \o tail
  <1>4. /\ rest \in Seq(S) /\ Len(rest) = Len(head) + Len(tail)
        /\ \A j \in 1..(Len(head) + Len(tail)) :
             rest[j] = IF j <= Len(head) THEN head[j] ELSE tail[j - Len(head)]
    BY <1>1, <1>2, ConcatProperties
  <1> HIDE DEF rest
  <1>5. Len(rest) = Len(s) - 1 /\ DOMAIN rest = 1..(Len(s) - 1)
    <2>1. Len(rest) = Len(s) - 1
      BY <1>0, <1>1, <1>2, <1>4
    <2>2. DOMAIN rest = 1..Len(rest)
      BY <1>4
    <2> QED BY <2>1, <2>2
  <1>6. ASSUME NEW j \in 1..(Len(s) - 1) PROVE \E k \in DOMAIN s : rest[j] = s[k]
    <2>1. CASE j <= i - 1
      <3>1. rest[j] = s[j] /\ j \in DOMAIN s
        BY <1>0, <1>1, <1>2, <1>4, <2>1
      <3> QED BY <3>1
    <2>2. CASE ~(j <= i - 1)
      <3>1. rest[j] = tail[j - (i - 1)]
        BY <1>0, <1>1, <1>2, <1>4, <2>2
      <3>2. j - (i - 1) \in 1..(Len(s) - i) /\ j + 1 \in DOMAIN s
            /\ i + (j - (i - 1)) = j + 1
        BY <1>0, <2>2
      <3>3. tail[j - (i - 1)] = s[i + (j - (i - 1))]
        BY <1>2, <3>2
      <3> QED BY <3>1, <3>2, <3>3
    <2> QED BY <2>1, <2>2
  <1> QED BY <1>3, <1>4, <1>5, <1>6 DEF rest

LEMMA CursorFacts ==
    ASSUME TypeOK, TypeOK', ServerMoves
    PROVE  /\ Presentable \subseteq Cursor /\ Presentable' \subseteq Cursor
           /\ Presentable \subseteq Presentable'
           /\ NoCursor \in Presentable'
           /\ \A n \in 1..cursorCount' : n \in Presentable'
  <1>1. /\ cursorCount \in Nat /\ cursorCount' \in Nat
    BY BoundsAssumption DEF TypeOK
  <1> QED BY <1>1 DEF ServerMoves, Presentable, Cursor

LEMMA NavigationType ==
    ASSUME NEW tab, tab.cursor \in Cursor, NEW index \in Nat, NEW seek \in BOOLEAN
    PROVE  /\ Navigation(tab, index, seek) \in Navigations
           /\ Navigation(tab, index, seek).cursor = tab.cursor
  <1>1. FirstStage(tab, index, seek) \in {"seek", "read", "replay"}
    BY DEF FirstStage
  <1> QED BY <1>1 DEF Navigation, Navigations

LEMMA SpendKeeps ==
    ASSUME BudgetKept,
           NEW thing \in {"starts", "loads", "moves", "saves", "refetches", "losses", "ends"},
           Allowed(thing), Spend(thing)
    PROVE  BudgetKept'
  <1>1. budget \in Budget /\ budget[thing] \in Nat /\ budget[thing] > 0
    BY DEF BudgetKept, Budget, Allowed
  <1>2. budget' = [budget EXCEPT ![thing] = budget[thing] - 1]
    BY DEF Spend
  <1>3. budget[thing] - 1 \in Nat
    BY <1>1
  <1> QED BY <1>1, <1>2, <1>3 DEF BudgetKept, Budget

LEMMA BudgetSteps == ASSUME BudgetKept, ClientNext PROVE BudgetKept'
  <1>1. ASSUME NEW t \in budget.tabs, NavigationSteps(t) PROVE BudgetKept'
    BY <1>1, SpendKeeps DEF NavigationSteps, PressMove, StartMove, ReadAnswered, ReadLost,
         SeekAnswered, SeekLost, MoveFails, BudgetKept
  <1>2. ASSUME NEW t \in budget.tabs, AnswerSteps(t) PROVE BudgetKept'
    BY <1>2, SpendKeeps DEF AnswerSteps, PressSubmit, FetchAnswered, FetchArrives,
         Posts, PostAnswered, SaveFails, BudgetKept
  <1>3. ASSUME NEW t \in budget.tabs, SessionSteps(t) PROVE BudgetKept'
    <2>1. ASSUME NEW id, EndLost(t, id) PROVE BudgetKept'
      <3>1. budget \in Budget /\ budget.ends \in Nat /\ budget.losses \in Nat
            /\ budget.ends - 1 \in Nat /\ budget.losses - 1 \in Nat
        BY <2>1 DEF EndLost, Ends, BudgetKept, Budget, Allowed
      <3>2. budget' = [budget EXCEPT !.ends = budget.ends - 1, !.losses = budget.losses - 1]
        BY <2>1, <3>1 DEF EndLost, SpendTwo, Budget
      <3> QED BY <3>1, <3>2 DEF BudgetKept, Budget
    <2> QED BY <1>3, <2>1, SpendKeeps DEF SessionSteps, Create, Load, Leave, Open,
              SummaryAnswered, SummaryArrives, PressEnd, CancelEnd, EndAnswered, Ends,
              BudgetKept
  <1>4. ASSUME NEW u, NEW i, DeleteTracking(u, i) PROVE BudgetKept'
    BY <1>4, SpendKeeps DEF DeleteTracking
  <1>5. ASSUME NEW u, NEW id, NEW s, NEW checkOnly, RawPost(u, id, s, checkOnly)
        PROVE  BudgetKept'
    BY <1>5 DEF RawPost, BudgetKept
  <1> QED BY <1>1, <1>2, <1>3, <1>4, <1>5 DEF ClientNext

\* A session that is still there, for those who knew of it before.
LEMMA SessionStays ==
    ASSUME TypeOK, TypeOK', ServerMoves, NEW page \in 0..sessionCount,
           page \in DOMAIN sessionsStore'
    PROVE  /\ page \in DOMAIN sessionsStore
           /\ sessionsStore'[page].options = sessionsStore[page].options
           /\ \/ "seekable" \in sessionsStore[page].options
              \/ DOMAIN sessionsStore[page].cursors \subseteq DOMAIN sessionsStore'[page].cursors
  <1>1. page \in 1..sessionCount
    <2>1. sessionCount \in Nat /\ sessionCount' \in Nat
      BY BoundsAssumption DEF TypeOK
    <2>2. page \in 1..sessionCount'
      BY DEF TypeOK, SessionsTyped
    <2> QED BY <2>1, <2>2
  <1> QED BY <1>1 DEF ServerMoves

LEMMA SummaryStays ==
    ASSUME TypeOK, TypeOK', ServerMoves, NEW page \in 0..sessionCount, NEW summary,
           SummaryOf(page, summary)
    PROVE  SummaryOf(page, summary)'
  BY SessionStays DEF SummaryOf

LEMMA CountsGrow ==
    ASSUME TypeOK, TypeOK', ServerMoves
    PROVE  0..sessionCount \subseteq 0..sessionCount'
  <1>1. sessionCount \in Nat /\ sessionCount' \in Nat
    BY BoundsAssumption DEF TypeOK
  <1> QED BY <1>1 DEF ServerMoves

\* What a tab keeps when it stays on its page, with its cursor or without.
SamePage(tab, new) ==
    /\ DOMAIN new = TabFields
    /\ new.page = tab.page /\ new.summary = tab.summary /\ new.news = tab.news
    /\ new.cursor \in {tab.cursor, NoCursor}
    /\ new.position \in {tab.position, NoPosition}

LEMMA PageStays ==
    ASSUME TypeOK, TypeOK', ServerMoves, CInv, NEW t \in Tabs, NEW tab, NEW new,
           tab = tabs[t], new = tabs'[t], SamePage(tab, new),
           course'[t].rewound = course[t].rewound,
           new.moves \in Seq(Navigations),
           \A i \in DOMAIN new.moves : new.moves[i].cursor \in Presentable',
           new.answers \in Known \cup {Cold},
           new.refetch # None => new.refetch[1] \in Known
    PROVE  TabKnows(t)' /\ TabLives(t)'
  <1>1. /\ TabKnows(t) /\ TabLives(t) /\ tab.page \in 0..sessionCount
        /\ tab.cursor \in Presentable
    BY TabFacts
  <1>2. tab.cursor \in Presentable' /\ NoCursor \in Presentable'
    BY <1>1, CursorFacts
  <1>3. tab.page \in 0..sessionCount'
    BY <1>1, CountsGrow
  <1>4. TabKnows(t)'
    BY <1>2, <1>3 DEF TabKnows, SamePage
  <1>5. TabLives(t)'
    <2>1. SummaryOf(tab.page, tab.summary)'
      BY <1>1, SummaryStays DEF TabLives
    <2>2. ASSUME tab.news # None PROVE SummaryOf(tab.page, tab.news[1])'
      BY <1>1, <2>2, SummaryStays DEF TabLives
    <2>3. ASSUME tab.page \in DOMAIN sessionsStore'
          PROVE  LET sess == sessionsStore'[tab.page]
                 IN  \/ "seekable" \in sess.options
                     \/ new.cursor \in DOMAIN sess.cursors \cup {NoCursor}
      BY <1>1, <2>3, SessionStays DEF TabLives, SamePage
    <2>4. /\ new.position # NoPosition => new.position.index \in Nat
          /\ new.cursor # NoCursor => new.summary.index \in Nat \/ course'[t].rewound
      BY <1>1 DEF TabLives, SamePage
    <2>5. /\ SummaryOf(tabs[t].page, tabs[t].summary)'
          /\ tabs'[t].news # None => SummaryOf(tabs[t].page, tabs[t].news[1])'
      <3>1. /\ tabs'[t].page = tab.page /\ tabs'[t].summary = tab.summary
            /\ tabs'[t].news = tab.news
        BY DEF SamePage
      <3> QED BY <2>1, <2>2, <3>1 DEF SummaryOf
    <2>6. tabs'[t].page \in DOMAIN sessionsStore' =>
            LET sess == sessionsStore'[tabs'[t].page]
            IN  \/ "seekable" \in sess.options
                \/ tabs'[t].cursor \in DOMAIN sess.cursors \cup {NoCursor}
      BY <2>3 DEF SamePage
    <2> QED BY <2>4, <2>5, <2>6 DEF TabLives
  <1> QED BY <1>4, <1>5

\* Only what the tab knows and sends of the answers changes.
AnswerParts == {"shown", "answers", "refetch", "saves", "watched", "checked", "confirm"}

LEMMA OnlyAnswersKeeps ==
    ASSUME TypeOK, TypeOK', ServerMoves, CInv, NEW t \in Tabs, NEW tab, NEW new,
           tab = tabs[t], new = tabs'[t], Keeps(tab, new, AnswerParts),
           course'[t].rewound = course[t].rewound,
           new.answers \in Known \cup {Cold},
           new.refetch # None => new.refetch[1] \in Known
    PROVE  TabKnows(t)' /\ TabLives(t)'
  <1>1. SamePage(tab, new) /\ new.moves = tab.moves
    BY DEF Keeps, TabFields, AnswerParts, SamePage
  <1>2. /\ tab.moves \in Seq(Navigations)
        /\ \A i \in DOMAIN tab.moves : tab.moves[i].cursor \in Presentable'
    BY TabFacts, CursorFacts DEF TabKnows
  <1> QED BY <1>1, <1>2, PageStays

LEMMA SavesStay ==
    ASSUME CInv, NEW t \in Tabs, NEW tab, NEW new, tab = tabs[t], new = tabs'[t],
           SavesGoOn(tab, new)
    PROVE  TabSaves(t)'
  <1>1. \A s \in Slots : tab.saves[s] # None => IsSave(tab.saves[s])
    BY TabFacts
  <1>2. DOMAIN new.saves = Slots
    BY DEF SavesGoOn
  <1>3. ASSUME NEW s \in Slots, new.saves[s] # None PROVE IsSave(new.saves[s])
    <2>1. IsSave(tab.saves[s]) /\ SameSave(tab.saves[s], new.saves[s])
      BY <1>1, <1>3 DEF SavesGoOn, SameSave
    <2> QED BY <2>1 DEF IsSave, SameSave, SavingFields
  <1> QED BY <1>2, <1>3 DEF TabSaves

\* A tab that does nothing, beside whatever the server does.
LEMMA TabStays ==
    ASSUME TypeOK, TypeOK', ServerMoves, CInv, NEW t \in Tabs,
           tabs'[t] = tabs[t], course'[t] = course[t]
    PROVE  TabInv(t)'
  <1>1. TabSaves(t) /\ TabKnows(t)
    BY TabFacts
  <1>2. TabSaves(t)'
    BY <1>1 DEF TabSaves
  <1>3. PICK tab, new : tab = tabs[t] /\ new = tabs'[t] /\ new = tab
    OBVIOUS
  <1>4. Keeps(tab, new, AnswerParts) /\ new.answers \in Known \cup {Cold}
        /\ (new.refetch # None => new.refetch[1] \in Known)
    BY <1>1, <1>3 DEF Keeps, TabKnows
  <1>5. TabKnows(t)' /\ TabLives(t)'
    BY <1>3, <1>4, OnlyAnswersKeeps
  <1> QED BY <1>2, <1>5 DEF TabInv

\* Only whether the labels have drifted changes of the course.
LEMMA DriftOnly ==
    ASSUME course \in [Tabs -> Courses], NEW t \in Tabs, NEW drift \in BOOLEAN,
           course' = [course EXCEPT ![t].adrift = drift]
    PROVE  course' \in [Tabs -> Courses] /\ course'[t].rewound = course[t].rewound
  BY DEF Courses

LEMMA StartCourse ==
    ASSUME course \in [Tabs -> Courses], NEW t \in Tabs, NEW tab, NEW index, NEW seek,
           course' = CourseAtStart(t, tab, index, seek)
    PROVE  course' \in [Tabs -> Courses] /\ course'[t].rewound = course[t].rewound
  <1> DEFINE drift == \/ course[t].adrift
                      \/ tab.moves # <<>>
                      \/ ~Navigation(tab, index, seek).fresh /\ index # course[t].due
  <1>1. course' = [course EXCEPT ![t].adrift = drift] /\ drift \in BOOLEAN
    BY DEF CourseAtStart
  <1> HIDE DEF drift
  <1> QED BY <1>1, DriftOnly

\* The cursors of the navigations of a tab, when one is added or taken away.
LEMMA WithMoveKnown ==
    ASSUME TypeOK, TypeOK', ServerMoves, CInv, NEW t \in Tabs, NEW tab, tab = tabs[t],
           NEW index \in Nat, NEW seek \in BOOLEAN,
           NEW moves, moves = Append(tab.moves, Navigation(tab, index, seek))
    PROVE  /\ moves \in Seq(Navigations)
           /\ \A i \in DOMAIN moves : moves[i].cursor \in Presentable'
  <1> DEFINE nav == Navigation(tab, index, seek)
             old == tab.moves
  <1>1. /\ old \in Seq(Navigations) /\ tab.cursor \in Presentable' /\ tab.cursor \in Cursor
        /\ \A i \in DOMAIN old : old[i].cursor \in Presentable'
    BY TabFacts, CursorFacts DEF TabKnows
  <1>2. nav \in Navigations /\ nav.cursor = tab.cursor
    BY <1>1, NavigationType
  <1> HIDE DEF nav, old
  <1>3. moves = Append(old, nav)
    BY DEF nav, old
  <1>4. /\ moves \in Seq(Navigations) /\ Len(moves) = Len(old) + 1 /\ Len(old) \in Nat
        /\ DOMAIN moves = 1..(Len(old) + 1) /\ DOMAIN old = 1..Len(old)
        /\ \A i \in 1..Len(old) : moves[i] = old[i]
        /\ moves[Len(old) + 1] = nav
    BY <1>1, <1>2, <1>3
  <1> QED BY <1>1, <1>2, <1>4

LEMMA WithoutMoveKnown ==
    ASSUME TypeOK, TypeOK', ServerMoves, CInv, NEW t \in Tabs, NEW tab, tab = tabs[t],
           NEW i \in DOMAIN tab.moves, NEW moves, moves = RemoveAt(tab.moves, i)
    PROVE  /\ moves \in Seq(Navigations)
           /\ \A j \in DOMAIN moves : moves[j].cursor \in Presentable'
  <1>1. /\ tab.moves \in Seq(Navigations)
        /\ \A k \in DOMAIN tab.moves : tab.moves[k].cursor \in Presentable'
    BY TabFacts, CursorFacts DEF TabKnows
  <1> QED BY <1>1, RemoveFacts

\* The first request of a navigation.
LEMMA StartKeeps ==
    ASSUME TypeOK, TypeOK', ServerMoves, CInv, NEW t \in Tabs,
           NEW index, PressMove(t, index)
    PROVE  TabInv(t)' /\ course' \in [Tabs -> Courses]
  <1>1. PICK tab, new : tab = tabs[t] /\ new = tabs'[t]
    OBVIOUS
  <1>2. /\ Turns(t, tab, new) /\ DOMAIN tab = TabFields /\ tab.answers \in Known \cup {Cold}
        /\ tab.refetch # None => tab.refetch[1] \in Known
    BY <1>1, TabFacts DEF IsTab
  <1>3. /\ index \in Nat
        /\ \E seek \in BOOLEAN : /\ new = WithMove(tab, index, seek)
                                 /\ course' = CourseAtStart(t, tab, index, seek)
    <2> DEFINE seek == ~GoesNext(tab, index)
    <2>1. /\ index \in Nat /\ course' = CourseAtStart(t, tab, index, seek)
          /\ tabs' = [tabs EXCEPT ![t] = WithMove(tab, index, seek)]
      BY <1>1 DEF PressMove, StartMove, InExam
    <2>2. seek \in BOOLEAN
      BY DEF GoesNext
    <2> HIDE DEF seek
    <2>3. new = WithMove(tab, index, seek)
      BY <1>1, <1>2, <2>1 DEF Turns
    <2> QED BY <2>1, <2>2, <2>3
  <1>4. PICK seek \in BOOLEAN : new = WithMove(tab, index, seek)
                                /\ course' = CourseAtStart(t, tab, index, seek)
    BY <1>3
  <1>5. course' \in [Tabs -> Courses] /\ course'[t].rewound = course[t].rewound
    BY <1>4, StartCourse DEF CInv
  <1>6. /\ Keeps(tab, new, {"moves", "watched", "position"}) /\ new.position = NoPosition
        /\ new.moves = Append(tab.moves, Navigation(tab, index, seek))
    BY <1>2, <1>4, WithMoveEffect
  <1>7. /\ SamePage(tab, new) /\ new.answers = tab.answers /\ new.refetch = tab.refetch
        /\ new.saves = tab.saves
    BY <1>6 DEF Keeps, TabFields, SamePage
  <1>8. /\ new.moves \in Seq(Navigations)
        /\ \A i \in DOMAIN new.moves : new.moves[i].cursor \in Presentable'
    BY <1>1, <1>3, <1>6, WithMoveKnown
  <1>9. TabKnows(t)' /\ TabLives(t)'
    BY <1>1, <1>2, <1>5, <1>7, <1>8, PageStays
  <1>10. TabSaves(t)'
    BY <1>1, <1>7, TabFacts DEF TabSaves
  <1> QED BY <1>5, <1>9, <1>10 DEF TabInv

\* Of a step that only gives navigations up, or goes on with them.
LEMMA MovesKeep ==
    ASSUME TypeOK, TypeOK', ServerMoves, CInv, NEW t \in Tabs, NEW tab, NEW new,
           tab = tabs[t], new = tabs'[t], Keeps(tab, new, {"moves", "watched"}),
           course'[t].rewound = course[t].rewound,
           new.moves \in Seq(Navigations),
           \A i \in DOMAIN new.moves : new.moves[i].cursor \in Presentable'
    PROVE  TabInv(t)'
  <1>1. /\ tab.answers \in Known \cup {Cold} /\ TabSaves(t)
        /\ tab.refetch # None => tab.refetch[1] \in Known
    BY TabFacts
  <1>2. /\ SamePage(tab, new) /\ new.answers = tab.answers /\ new.refetch = tab.refetch
        /\ new.saves = tab.saves
    BY DEF Keeps, TabFields, SamePage
  <1>3. TabKnows(t)' /\ TabLives(t)'
    BY <1>1, <1>2, PageStays
  <1>4. TabSaves(t)'
    BY <1>1, <1>2 DEF TabSaves
  <1> QED BY <1>3, <1>4 DEF TabInv

\* A navigation that is given up.
LEMMA GiveUpKeeps ==
    ASSUME TypeOK, TypeOK', ServerMoves, CInv, NEW t \in Tabs,
           NEW i \in DOMAIN tabs[t].moves,
           ReadLost(t, i) \/ SeekLost(t, i) \/ MoveFails(t, i)
    PROVE  TabInv(t)' /\ course' \in [Tabs -> Courses]
  <1>1. PICK tab, new : tab = tabs[t] /\ new = tabs'[t]
    OBVIOUS
  <1>2. Turns(t, tab, new) /\ DOMAIN tab = TabFields /\ course \in [Tabs -> Courses]
    BY <1>1, TabFacts DEF IsTab, CInv
  <1>3. new = WithoutMove(tab, i)
    BY <1>1, <1>2 DEF ReadLost, SeekLost, MoveFails, Turns
  <1>4. course' \in [Tabs -> Courses] /\ course'[t].rewound = course[t].rewound
    <2>1. CASE ReadLost(t, i)
      <3> DEFINE nav == tab.moves[i]
                 drift == \/ course[t].adrift
                          \/ /\ nav.here /\ ~nav.fresh
                             /\ NextCursor(tab.page, nav.cursor) # NoCursor
      <3>1. course' = [course EXCEPT ![t].adrift = drift]
        BY <1>1, <2>1 DEF ReadLost
      <3>2. drift \in BOOLEAN
        OBVIOUS
      <3> HIDE DEF drift
      <3> QED BY <1>2, <3>1, <3>2, DriftOnly
    <2>2. CASE SeekLost(t, i) \/ MoveFails(t, i)
      BY <1>2, <2>2 DEF SeekLost, MoveFails
    <2> QED BY <2>1, <2>2
  <1>5. Keeps(tab, new, {"moves", "watched"}) /\ new.moves = RemoveAt(tab.moves, i)
    BY <1>2, <1>3, WithoutMoveEffect
  <1>6. /\ new.moves \in Seq(Navigations)
        /\ \A j \in DOMAIN new.moves : new.moves[j].cursor \in Presentable'
    BY <1>1, <1>5, WithoutMoveKnown
  <1> QED BY <1>1, <1>4, <1>5, <1>6, MovesKeep

\* A navigation that goes on to its next request.
LEMMA GoOnKeeps ==
    ASSUME TypeOK, TypeOK', ServerMoves, CInv, NEW t \in Tabs, NEW tab, NEW new,
           tab = tabs[t], new = tabs'[t], course' = course,
           NEW i \in DOMAIN tab.moves, NEW nav \in Navigations,
           nav.cursor \in Presentable',
           new = [tab EXCEPT !.moves = [tab.moves EXCEPT ![i] = nav]]
    PROVE  TabInv(t)'
  <1> DEFINE moves == [tab.moves EXCEPT ![i] = nav]
  <1>1. DOMAIN tab = TabFields /\ tab.moves \in Seq(Navigations)
    BY TabFacts DEF IsTab
  <1>2. \A k \in DOMAIN tab.moves : tab.moves[k].cursor \in Presentable'
    BY TabFacts, CursorFacts DEF TabKnows
  <1>3. /\ moves \in Seq(Navigations)
        /\ \A j \in DOMAIN moves : moves[j].cursor \in Presentable'
    BY <1>1, <1>2
  <1>6. new = [tab EXCEPT !.moves = moves]
    OBVIOUS
  <1> HIDE DEF moves
  <1>4. Keeps(tab, new, {"moves"}) /\ new.moves = moves
    BY <1>1, <1>6 DEF Keeps, TabFields
  <1>5. Keeps(tab, new, {"moves", "watched"})
    BY <1>4, KeepsMore
  <1> QED BY <1>3, <1>4, <1>5, MovesKeep

\* A read that is answered with the question.
LEMMA ArrivalKeeps ==
    ASSUME TypeOK, TypeOK', ServerMoves, CInv, NEW t \in Tabs, NEW tab, NEW new,
           tab = tabs[t], new = tabs'[t],
           NEW i \in DOMAIN tab.moves, NEW q, NEW u, NEW c \in Presentable, NEW next,
           GetNextQuestion(u, tab.page, c), next = NextCursor(tab.page, c),
           new = Arrived(tab, i, q, next), course' = CourseAtEnd(t, i)
    PROVE  TabInv(t)' /\ course' \in [Tabs -> Courses]
  <1> DEFINE page  == tab.page
             index == tab.moves[i].index
  <1>1. /\ TabKnows(t) /\ TabSaves(t) /\ TabLives(t) /\ DOMAIN tab = TabFields
        /\ tab.moves \in Seq(Navigations) /\ page \in 0..sessionCount
        /\ tab.cursor \in Presentable
        /\ tab.answers \in Known \cup {Cold} /\ (tab.refetch # None => tab.refetch[1] \in Known)
    BY TabFacts DEF IsTab
  <1>2. /\ page \in DOMAIN sessionsStore
        /\ next \in (1..cursorCount') \cup {NoCursor}
        /\ next = NoCursor \/ next \in DOMAIN sessionsStore'[page].cursors
        /\ DOMAIN sessionsStore[page].cursors \subseteq DOMAIN sessionsStore'[page].cursors
    BY ReadEffect
  <1>3. tab.moves[i] \in Navigations /\ index \in Nat
    <2>1. tab.moves[i] \in Navigations
      BY <1>1
    <2> QED BY <2>1 DEF Navigations
  <1>4. /\ Keeps(tab, new, MoveParts) /\ Shows(tab, new, index, q)
        /\ new.moves = RemoveAt(tab.moves, i) /\ new.cursor \in {next, tab.cursor}
    BY <1>1, ArrivedEffect
  <1>5. /\ new.moves \in Seq(Navigations)
        /\ \A j \in DOMAIN new.moves : new.moves[j].cursor \in Presentable'
    BY <1>4, WithoutMoveKnown
  <1>6. /\ DOMAIN new = TabFields /\ new.page = page /\ new.news = tab.news
        /\ new.answers = tab.answers /\ new.refetch = tab.refetch /\ new.saves = tab.saves
    BY <1>4 DEF Keeps, MoveParts, TabFields
  <1>7. course' \in [Tabs -> Courses]
    <2> DEFINE nav   == tab.moves[i]
               was   == course[t]
               mends == nav.here /\ nav.fresh /\ tab.watched /\ Len(tab.moves) = 1
               due   == IF nav.here THEN nav.index + 1 ELSE was.due
               drift == was.adrift /\ ~mends
    <2>1. course' = [course EXCEPT ![t] = [due |-> due, adrift |-> drift, rewound |-> FALSE]]
      BY DEF CourseAtEnd
    <2>2. course \in [Tabs -> Courses] /\ was \in Courses
      BY DEF CInv
    <2>3. drift \in BOOLEAN
      OBVIOUS
    <2>4. due \in Int
      BY <1>3, <2>2 DEF Courses
    <2> HIDE DEF due, drift
    <2> QED BY <2>1, <2>2, <2>3, <2>4 DEF Courses
  <1>8. next \in Presentable' /\ tab.cursor \in Presentable'
    BY <1>1, <1>2, CursorFacts
  <1>9. page \in 0..sessionCount'
    BY <1>1, CountsGrow
  <1>10. TabKnows(t)'
    <2> HIDE DEF page
    <2> QED BY <1>1, <1>4, <1>5, <1>6, <1>8, <1>9 DEF TabKnows
  <1>11. TabSaves(t)'
    BY <1>1, <1>6 DEF TabSaves
  <1>12. TabLives(t)'
    <2>1. /\ SummaryOf(page, tab.summary)' /\ DOMAIN tab.summary = SummaryFields
      BY <1>1, SummaryStays DEF TabLives, SummaryOf
    <2>2. /\ DOMAIN new.summary = SummaryFields /\ new.summary.index = index
          /\ new.summary.seekable = tab.summary.seekable
      BY <1>4, <2>1 DEF Shows, SummaryFields
    <2>3. /\ DOMAIN new.summary = SummaryFields /\ new.summary.index \in Int
          /\ page \in DOMAIN sessionsStore' =>
               (new.summary.seekable <=> "seekable" \in sessionsStore'[page].options)
      BY <1>3, <2>1, <2>2 DEF SummaryOf
    <2>4. ASSUME tab.news # None
          PROVE  /\ DOMAIN tab.news[1] = SummaryFields /\ tab.news[1].index \in Int
                 /\ page \in DOMAIN sessionsStore' =>
                      (tab.news[1].seekable <=> "seekable" \in sessionsStore'[page].options)
      <3>1. SummaryOf(page, tab.news[1])'
        BY <1>1, <2>4, SummaryStays DEF TabLives
      <3> QED BY <3>1 DEF SummaryOf
    <2>5. new.position # NoPosition => new.position.index \in Nat
      <3>1. CASE new.position = tab.position
        BY <1>1, <3>1 DEF TabLives
      <3>2. CASE new.position = [index |-> index, question |-> q]
        BY <1>3, <3>2
      <3> QED BY <1>4, <3>1, <3>2 DEF Shows
    <2>6. ASSUME page \in DOMAIN sessionsStore'
          PROVE  \/ "seekable" \in sessionsStore'[page].options
                 \/ new.cursor \in DOMAIN sessionsStore'[page].cursors \cup {NoCursor}
      BY <1>1, <1>2, <1>4, <2>6, SessionStays DEF TabLives
    <2>7. new.summary.index \in Nat
      BY <1>3, <2>2
    <2> HIDE DEF page, index
    <2> QED BY <1>6, <2>3, <2>4, <2>5, <2>6, <2>7 DEF TabLives, SummaryOf
  <1> QED BY <1>7, <1>10, <1>11, <1>12 DEF TabInv

LEMMA NavigationKeeps ==
    ASSUME TypeOK, TypeOK', ServerMoves, CInv, NEW t \in Tabs, NavigationSteps(t)
    PROVE  TabInv(t)' /\ course' \in [Tabs -> Courses]
  <1>1. ASSUME NEW index, PressMove(t, index)
        PROVE  TabInv(t)' /\ course' \in [Tabs -> Courses]
    BY <1>1, StartKeeps
  <1>0. PICK tab, new : tab = tabs[t] /\ new = tabs'[t]
    OBVIOUS
  <1>2. /\ DOMAIN tabs = Tabs /\ tab.moves \in Seq(Navigations)
        /\ DOMAIN tab = TabFields /\ course \in [Tabs -> Courses]
        /\ \A i \in DOMAIN tab.moves : tab.moves[i].cursor \in Presentable
    BY <1>0, TabFacts DEF CInv, TabKnows, IsTab
  <1>3. ASSUME NEW i \in DOMAIN tab.moves, ReadAnswered(t, i)
        PROVE  TabInv(t)' /\ course' \in [Tabs -> Courses]
    <2> DEFINE nav  == tab.moves[i]
               next == NextCursor(tab.page, nav.cursor)
    <2>1. nav \in Navigations /\ nav.cursor \in Presentable
      BY <1>2
    <2>2. GetNextQuestion(UserOf[t], tab.page, nav.cursor)
      BY <1>0, <1>3 DEF ReadAnswered, HandleGetNextQuestion
    <2>3. next \in Presentable'
      <3>1. next \in (1..cursorCount') \cup {NoCursor}
        BY <2>1, <2>2, ReadEffect
      <3> QED BY <3>1, CursorFacts
    <2>4. CASE nav.stage = "read" \/ nav.at = nav.index
      <3>1. /\ new = Arrived(tab, i, sessionsStore'[tab.page].question, next)
            /\ course' = CourseAtEnd(t, i)
        BY <1>0, <1>2, <1>3, <2>4 DEF ReadAnswered
      <3>2. PICK c, u, q : c = nav.cursor /\ u = UserOf[t] /\ q = sessionsStore'[tab.page].question
        OBVIOUS
      <3> HIDE DEF nav
      <3> QED BY <1>0, <2>1, <2>2, <3>1, <3>2, ArrivalKeeps
    <2>5. CASE ~(nav.stage = "read" \/ nav.at = nav.index)
      <3> DEFINE on == [nav EXCEPT !.at = nav.at + 1, !.cursor = next]
      <3>1. tabs' = [tabs EXCEPT ![t].moves[i].at = @ + 1, ![t].moves[i].cursor = next]
        BY <1>0, <1>3, <2>5 DEF ReadAnswered
      <3>4. course' = course
        BY <1>0, <1>3, <2>5 DEF ReadAnswered
      <3> HIDE DEF next
      <3>2. on \in Navigations /\ on.cursor \in Presentable'
        <4>1. nav.at + 1 \in Nat /\ next \in Cursor
          BY <2>1, <2>3, CursorFacts DEF Navigations
        <4> HIDE DEF nav
        <4> QED BY <2>1, <2>3, <4>1 DEF Navigations
      <3>3. new = [tab EXCEPT !.moves = [tab.moves EXCEPT ![i] = on]]
        BY <1>0, <1>2, <2>1, <3>1 DEF Navigations, TabFields
      <3> HIDE DEF on
      <3> HIDE DEF nav
      <3>5. TabInv(t)'
        BY <1>0, <3>2, <3>3, <3>4, GoOnKeeps
      <3> QED BY <1>2, <3>4, <3>5
    <2> QED BY <2>4, <2>5
  <1>4. ASSUME NEW i \in DOMAIN tab.moves, SeekAnswered(t, i)
        PROVE  TabInv(t)' /\ course' \in [Tabs -> Courses]
    <2> DEFINE nav == tab.moves[i]
               on  == [nav EXCEPT !.stage = "read", !.cursor = RepositionedCursor]
    <2>1. nav \in Navigations
      BY <1>2
    <2>2. RepositionedCursor \in Presentable'
      <3>1. cursorCount \in Nat /\ cursorCount' = cursorCount + 1
        BY <1>4, BoundsAssumption DEF SeekAnswered, HandleSeekCursor, SeekCursorTo, TypeOK
      <3> QED BY <3>1, CursorFacts DEF RepositionedCursor
    <2>3. on \in Navigations /\ on.cursor \in Presentable'
      BY <2>1, <2>2, CursorFacts DEF Navigations
    <2>4. /\ new = [tab EXCEPT !.moves = [tab.moves EXCEPT ![i] = on]]
          /\ course' = course
      BY <1>0, <1>2, <1>4, <2>1 DEF Navigations, TabFields, SeekAnswered
    <2> HIDE DEF on
    <2> QED BY <1>0, <1>2, <2>3, <2>4, GoOnKeeps
  <1>5. ASSUME NEW i \in DOMAIN tabs[t].moves,
               ReadLost(t, i) \/ SeekLost(t, i) \/ MoveFails(t, i)
        PROVE  TabInv(t)' /\ course' \in [Tabs -> Courses]
    BY <1>5, GiveUpKeeps
  <1> QED BY <1>0, <1>1, <1>3, <1>4, <1>5 DEF NavigationSteps

LEMMA SavedIsKnown ==
    ASSUME TypeOK, NEW u, NEW id, Owns(u, id) PROVE MyAnswer(id) \in Known
  BY TypeFacts DEF Owns, IsSession, MyAnswer, Known

LEMMA MergeIsAnswer ==
    ASSUME NEW s \in Known, NEW a \in AnswerOfUser PROVE Merged(s, a) \in Answers
  BY MergingAssumption DEF Known

LEMMA StartedIndex ==
    ASSUME NEW t, TabLives(t), Started(tabs[t]) PROVE Displayed(tabs[t]).index \in Nat
  <1>1. tabs[t].summary.index \in Int /\ Displayed(tabs[t]).index >= 0
    BY DEF TabLives, SummaryOf, Started
  <1>2. CASE tabs[t].position = NoPosition
    BY <1>1, <1>2 DEF Displayed
  <1>3. CASE tabs[t].position # NoPosition
    BY <1>3 DEF Displayed, TabLives
  <1> QED BY <1>2, <1>3

\* A step about answers that keeps its submissions in order.
LEMMA AnswersOnly ==
    ASSUME TypeOK, TypeOK', ServerMoves, CInv, NEW t \in Tabs, NEW tab, NEW new,
           tab = tabs[t], new = tabs'[t], Keeps(tab, new, AnswerParts), course' = course,
           new.answers \in Known \cup {Cold},
           new.refetch # None => new.refetch[1] \in Known,
           DOMAIN new.saves = Slots,
           \A s \in Slots : new.saves[s] # None => IsSave(new.saves[s])
    PROVE  TabInv(t)' /\ course' \in [Tabs -> Courses]
  <1>1. TabKnows(t)' /\ TabLives(t)'
    BY OnlyAnswersKeeps
  <1>2. TabSaves(t)'
    BY DEF TabSaves
  <1> QED BY <1>1, <1>2 DEF TabInv, CInv

LEMMA PressKeeps ==
    ASSUME TypeOK, TypeOK', ServerMoves, CInv, NEW t \in Tabs, NEW s \in Slots,
           NEW answer \in AnswerOfUser, NEW checkOnly \in BOOLEAN,
           PressSubmit(t, s, answer, checkOnly)
    PROVE  TabInv(t)' /\ course' \in [Tabs -> Courses]
  <1>1. PICK tab, new : tab = tabs[t] /\ new = tabs'[t]
    OBVIOUS
  <1>2. /\ Turns(t, tab, new) /\ tab.answers \in Known \cup {Cold} /\ TabLives(t)
        /\ tab.refetch # None => tab.refetch[1] \in Known
        /\ \A r \in Slots : tab.saves[r] # None => IsSave(tab.saves[r])
    BY <1>1, TabFacts
  <1>3. /\ Keeps(tab, new, {"saves"}) /\ OtherSaves(tab, new, s)
        /\ Submitted(new.saves[s], tab, told[t].answers, answer, checkOnly)
    BY <1>2, SubmitEffect
  <1>4. Displayed(tab).index \in Nat
    BY <1>1, <1>2, StartedIndex DEF PressSubmit
  <1>5. IsSave(new.saves[s])
    <2>1. tab.answers # Cold => Merged(tab.answers, answer) \in Answers
      BY <1>2, MergeIsAnswer
    <2> QED BY <1>3, <1>4, <2>1 DEF Submitted, IsSave
  <1>6. Keeps(tab, new, AnswerParts) /\ new.answers = tab.answers /\ new.refetch = tab.refetch
    BY <1>3, KeepsMore DEF AnswerParts, Keeps, TabFields
  <1>7. DOMAIN new.saves = Slots /\ \A r \in Slots : new.saves[r] # None => IsSave(new.saves[r])
    BY <1>2, <1>3, <1>5 DEF OtherSaves
  <1>8. course' = course
    BY DEF PressSubmit
  <1> QED BY <1>1, <1>2, <1>6, <1>7, <1>8, AnswersOnly

LEMMA FetchKeeps ==
    ASSUME TypeOK, TypeOK', ServerMoves, CInv, NEW t \in Tabs,
           FetchAnswered(t) \/ FetchArrives(t)
    PROVE  TabInv(t)' /\ course' \in [Tabs -> Courses]
  <1>1. PICK tab, new : tab = tabs[t] /\ new = tabs'[t]
    OBVIOUS
  <1>2. /\ Turns(t, tab, new) /\ tab.answers \in Known \cup {Cold}
        /\ tab.refetch # None => tab.refetch[1] \in Known
        /\ DOMAIN tab.saves = Slots
        /\ \A r \in Slots : tab.saves[r] # None => IsSave(tab.saves[r])
    BY <1>1, TabFacts DEF IsTab
  <1>3. course' = course
    BY DEF FetchAnswered, FetchArrives
  <1>4. CASE FetchAnswered(t)
    <2>1. Keeps(tab, new, {"refetch"}) /\ new.refetch = <<MyAnswer(tab.page)>>
      BY <1>2, <1>4, FetchEffect
    <2>2. MyAnswer(tab.page) \in Known
      BY <1>1, <1>4, SavedIsKnown DEF FetchAnswered
    <2>3. /\ Keeps(tab, new, AnswerParts) /\ new.answers = tab.answers
          /\ new.saves = tab.saves
      BY <2>1, KeepsMore DEF AnswerParts, Keeps, TabFields
    <2>4. new.refetch[1] \in Known
      BY <2>1, <2>2
    <2> QED BY <1>1, <1>2, <1>3, <2>3, <2>4, AnswersOnly
  <1>5. CASE FetchArrives(t)
    <2>1. PICK saved, known : saved = tab.refetch[1]
                              /\ known = told[t].answers \cap Range(Entries(saved))
      OBVIOUS
    <2>2. /\ Keeps(tab, new, {"answers", "refetch", "saves"})
          /\ new.answers = saved /\ new.refetch = None /\ DOMAIN new.saves = Slots
          /\ \A s \in Slots : \/ new.saves[s] = tab.saves[s]
                              \/ Filled(tab.saves[s], new.saves[s], saved, known)
      <3>1. Turns(t, tab, new)
        BY <1>2
      <3> QED BY <1>5, <2>1, <3>1, ArrivesEffect
    <2>3. saved \in Known
      BY <1>1, <1>2, <1>5, <2>1 DEF FetchArrives
    <2>4. ASSUME NEW s \in Slots, new.saves[s] # None PROVE IsSave(new.saves[s])
      <3>1. CASE new.saves[s] = tab.saves[s]
        BY <1>2, <2>4, <3>1
      <3>2. CASE Filled(tab.saves[s], new.saves[s], saved, known)
        <4>1. IsSave(tab.saves[s])
          BY <1>2, <3>2 DEF Filled
        <4>2. Merged(saved, tab.saves[s].answer) \in Answers
          BY <2>3, <4>1, MergeIsAnswer DEF IsSave
        <4> QED BY <3>2, <4>1, <4>2 DEF Filled, IsSave, SavingFields
      <3> QED BY <2>2, <3>1, <3>2
    <2>5. Keeps(tab, new, AnswerParts)
      BY <2>2, KeepsMore DEF AnswerParts
    <2> QED BY <1>1, <1>3, <2>2, <2>3, <2>4, <2>5, AnswersOnly
  <1> QED BY <1>4, <1>5

\* A submission is sent, or given up.
LEMMA SendKeeps ==
    ASSUME TypeOK, TypeOK', ServerMoves, CInv, NEW t \in Tabs, NEW s \in Slots,
           Posts(t, s) \/ SaveFails(t, s)
    PROVE  TabInv(t)' /\ course' \in [Tabs -> Courses]
  <1>1. PICK tab, new : tab = tabs[t] /\ new = tabs'[t]
    OBVIOUS
  <1>2. /\ Turns(t, tab, new) /\ tab.answers \in Known \cup {Cold}
        /\ tab.refetch # None => tab.refetch[1] \in Known
    BY <1>1, TabFacts
  <1>3. Keeps(tab, new, {"saves"}) /\ SavesGoOn(tab, new)
    BY <1>2, SendEffect, DropEffect
  <1>4. Keeps(tab, new, AnswerParts) /\ new.answers = tab.answers /\ new.refetch = tab.refetch
    BY <1>3, KeepsMore DEF AnswerParts, Keeps, TabFields
  <1>5. course' = course
    BY DEF Posts, SaveFails
  <1>6. TabKnows(t)' /\ TabLives(t)'
    BY <1>1, <1>2, <1>4, <1>5, OnlyAnswersKeeps
  <1>7. TabSaves(t)'
    BY <1>1, <1>3, SavesStay
  <1> QED BY <1>5, <1>6, <1>7 DEF TabInv, CInv

LEMMA PostKeeps ==
    ASSUME TypeOK, TypeOK', ServerMoves, CInv, NEW t \in Tabs, NEW s \in Slots,
           PostAnswered(t, s)
    PROVE  TabInv(t)' /\ course' \in [Tabs -> Courses]
  <1>1. PICK tab, new : tab = tabs[t] /\ new = tabs'[t]
    OBVIOUS
  <1>2. /\ Turns(t, tab, new) /\ tab.answers \in Known \cup {Cold}
        /\ tab.refetch # None => tab.refetch[1] \in Known
        /\ \A r \in Slots : tab.saves[r] # None => IsSave(tab.saves[r])
        /\ tab.moves \in Seq(Navigations)
        /\ \A i \in DOMAIN tab.moves : tab.moves[i].cursor \in Presentable'
    BY <1>1, TabFacts, CursorFacts DEF TabKnows
  <1>3. PICK save : save = tab.saves[s]
    OBVIOUS
  <1>4. IsSave(save) /\ save.from + 1 \in Nat
    <2>1. save # None
      BY <1>1, <1>3 DEF PostAnswered
    <2> QED BY <1>2, <1>3, <2>1 DEF IsSave
  <1>5. PICK nav : nav = Navigation(tab, save.from + 1, FALSE)
    OBVIOUS
  <1>6. /\ Keeps(tab, new, PostParts)
        /\ new.answers = IF save.checkOnly THEN tab.answers ELSE save.merged
        /\ SavesGoOn(tab, new) /\ MovesOn(tab, new, save)
    <2>1. Turns(t, tab, new)
      BY <1>2
    <2> QED BY <1>3, <2>1, PostEffect
  <1>7. /\ new.page = tab.page /\ new.summary = tab.summary /\ new.news = tab.news
        /\ new.cursor = tab.cursor /\ new.refetch = tab.refetch /\ DOMAIN new = TabFields
    BY <1>6 DEF Keeps, PostParts, TabFields
  <1>8. SamePage(tab, new)
    BY <1>6, <1>7 DEF SamePage, MovesOn
  <1>9. /\ new.moves \in Seq(Navigations)
        /\ \A i \in DOMAIN new.moves : new.moves[i].cursor \in Presentable'
    <2>1. CASE new.moves = tab.moves
      BY <1>2, <2>1
    <2>2. CASE new.moves = Append(tab.moves, nav)
      <3>1. PICK n \in Nat, seek \in BOOLEAN : nav = Navigation(tab, n, seek)
        BY <1>4, <1>5
      <3>2. PICK moves : moves = new.moves
        OBVIOUS
      <3>3. moves = Append(tab.moves, Navigation(tab, n, seek))
        BY <2>2, <3>1, <3>2
      <3> QED BY <1>1, <3>2, <3>3, WithMoveKnown
    <2> QED BY <1>5, <1>6, <2>1, <2>2 DEF MovesOn
  <1>10. course' \in [Tabs -> Courses] /\ course'[t].rewound = course[t].rewound
    <2>1. \/ course' = course
          \/ course' = CourseAtStart(t, tab, save.from + 1, FALSE)
      BY <1>1, <1>3 DEF PostAnswered
    <2>2. course \in [Tabs -> Courses]
      BY DEF CInv
    <2>3. ASSUME course' = CourseAtStart(t, tab, save.from + 1, FALSE)
          PROVE  course' \in [Tabs -> Courses] /\ course'[t].rewound = course[t].rewound
      <3>1. PICK index, seek : course' = CourseAtStart(t, tab, index, seek)
        BY <2>3
      <3> QED BY <2>2, <3>1, StartCourse
    <2> QED BY <2>1, <2>2, <2>3
  <1>11. new.answers \in Known \cup {Cold}
    <2>1. save.merged # None
      <3>1. save.done
        BY <1>1, <1>3 DEF PostAnswered
      <3> QED BY <1>4, <3>1 DEF IsSave
    <2>2. CASE save.checkOnly
      BY <1>2, <1>6, <2>2
    <2>3. CASE ~save.checkOnly
      BY <1>4, <1>6, <2>1, <2>3 DEF IsSave, Known
    <2> QED BY <2>2, <2>3
  <1>12. TabKnows(t)' /\ TabLives(t)'
    BY <1>1, <1>2, <1>7, <1>8, <1>9, <1>10, <1>11, PageStays
  <1>13. TabSaves(t)'
    BY <1>1, <1>6, SavesStay
  <1> QED BY <1>10, <1>12, <1>13 DEF TabInv

LEMMA AnswersKeep ==
    ASSUME TypeOK, TypeOK', ServerMoves, CInv, NEW t \in Tabs, AnswerSteps(t)
    PROVE  TabInv(t)' /\ course' \in [Tabs -> Courses]
  BY PressKeeps, FetchKeeps, SendKeeps, PostKeeps DEF AnswerSteps

LEMMA ExcerptFacts ==
    ASSUME TypeOK, NEW id \in DOMAIN sessionsStore
    PROVE  /\ DOMAIN Excerpt(id) = SummaryFields
           /\ Excerpt(id).index = sessionsStore[id].index /\ Excerpt(id).index \in Int
           /\ Excerpt(id).seekable <=> "seekable" \in sessionsStore[id].options
  <1>1. sessionsStore[id].index \in Int
    BY TypeFacts DEF IsSession
  <1> DEFINE exam == sessionsStore[id].exam
             index == sessionsStore[id].index
             question == sessionsStore[id].question
             questions == Cardinality(DOMAIN sessionsStore[id].paper)
             seekable == "seekable" \in sessionsStore[id].options
             practice == Catalogue[exam].category = "practice"
  <1>2. Excerpt(id) = [exam |-> exam, index |-> index, question |-> question,
           questions |-> questions, seekable |-> seekable, practice |-> practice]
    BY DEF Excerpt
  <1> HIDE DEF exam, question, questions, practice
  <1>3. DOMAIN Excerpt(id) = SummaryFields /\ Excerpt(id).index = index
    BY <1>2 DEF SummaryFields
  <1> HIDE DEF index, seekable
  <1>4. Excerpt(id).seekable = seekable
    BY <1>2
  <1> QED BY <1>1, <1>3, <1>4 DEF index, seekable


\* Sessions are opened and left, and ended.
LEMMA LoadKeeps ==
    ASSUME TypeOK, TypeOK', ServerMoves, IndexInLockStep, CInv, NEW t \in Tabs,
           NEW id, Load(t, id)
    PROVE  TabInv(t)' /\ course' \in [Tabs -> Courses]
  <1>1. PICK tab, new, excerpt : tab = tabs[t] /\ new = tabs'[t] /\ excerpt = Excerpt(id)
    OBVIOUS
  <1>2. Turns(t, tab, new) /\ course \in [Tabs -> Courses]
    BY <1>1, TabFacts DEF CInv
  <1>3. Fresh(new, id, excerpt) /\ SavesGoOn(tab, new)
    BY <1>1, <1>2, LoadEffect
  <1>4. /\ id \in DOMAIN sessionsStore /\ sessionsStore' = sessionsStore
        /\ sessionCount' = sessionCount
    <2>1. id \in SessionsOf(UserOf[t]) /\ UNCHANGED apiVars /\ UserOf[t] \in Users
      BY TabsAssumption DEF Load
    <2>2. id \in DOMAIN sessionsStore
      BY <2>1 DEF IndexInLockStep
    <2> QED BY <2>1, <2>2 DEF apiVars, vars, serverVars
  <1>5. id \in 0..sessionCount'
    <2>1. sessionCount \in Nat /\ DOMAIN sessionsStore \subseteq 1..sessionCount
      BY BoundsAssumption DEF TypeOK, SessionsTyped
    <2> QED BY <1>4, <2>1
  <1>6. SummaryOf(id, excerpt)
    BY <1>1, <1>4, ExcerptFacts DEF SummaryOf
  <1>7. NoCursor \in Presentable'
    BY CursorFacts
  <1>8. TabKnows(t)'
    <2>1. new.moves \in Seq(Navigations) /\ DOMAIN new.moves = {}
      BY <1>3 DEF Fresh
    <2> QED BY <1>1, <1>3, <1>5, <1>7, <2>1 DEF TabKnows, Fresh
  <1>9. TabLives(t)'
    BY <1>1, <1>3, <1>4, <1>6 DEF TabLives, Fresh, SummaryOf
  <1>10. TabSaves(t)'
    BY <1>1, <1>3, SavesStay
  <1>11. course' \in [Tabs -> Courses]
    BY <1>2 DEF Load, Courses
  <1> QED BY <1>8, <1>9, <1>10, <1>11 DEF TabInv

LEMMA LeavingKeeps ==
    ASSUME TypeOK, TypeOK', ServerMoves, CInv, NEW t \in Tabs,
           tabs' = [tabs EXCEPT ![t] = LeftPage(tabs[t])], course' = course
    PROVE  TabInv(t)'
  <1>1. PICK tab, new : tab = tabs[t] /\ new = tabs'[t]
    OBVIOUS
  <1>2. /\ IsTab(tab) /\ new = LeftPage(tab) /\ tab.moves \in Seq(Navigations)
        /\ \A i \in DOMAIN tab.moves : tab.moves[i].cursor \in Presentable'
        /\ tab.answers \in Known \cup {Cold} /\ (tab.refetch # None => tab.refetch[1] \in Known)
    <2>1. Turns(t, tab, new) /\ IsTab(tab) /\ TabKnows(t)
      BY <1>1, TabFacts
    <2> QED BY <1>1, <2>1, TabFacts, CursorFacts DEF TabKnows, Turns
  <1>3. /\ Keeps(tab, new, LeftParts) /\ SavesGoOn(tab, new)
        /\ new.position = NoPosition /\ new.cursor = NoCursor
        /\ new.moves = [i \in DOMAIN tab.moves |-> [tab.moves[i] EXCEPT !.here = FALSE]]
    BY <1>2, LeftEffect
  <1>4. /\ SamePage(tab, new) /\ new.answers = tab.answers /\ new.refetch = tab.refetch
    BY <1>3 DEF SamePage, Keeps, LeftParts, TabFields
  <1>5. \A i \in DOMAIN tab.moves : /\ [tab.moves[i] EXCEPT !.here = FALSE] \in Navigations
                                    /\ [tab.moves[i] EXCEPT !.here = FALSE].cursor
                                         = tab.moves[i].cursor
    <2>1. ASSUME NEW nav \in Navigations
          PROVE  /\ [nav EXCEPT !.here = FALSE] \in Navigations
                 /\ [nav EXCEPT !.here = FALSE].cursor = nav.cursor
      BY DEF Navigations
    <2>2. \A i \in DOMAIN tab.moves : tab.moves[i] \in Navigations
      BY <1>2
    <2> QED BY <2>1, <2>2
  <1>6. /\ new.moves \in Seq(Navigations)
        /\ \A i \in DOMAIN new.moves : new.moves[i].cursor \in Presentable'
    <2>1. DOMAIN tab.moves = 1..Len(tab.moves) /\ Len(tab.moves) \in Nat
      BY <1>2
    <2> QED BY <1>2, <1>3, <1>5, <2>1
  <1>7. TabKnows(t)' /\ TabLives(t)'
    BY <1>1, <1>2, <1>4, <1>6, PageStays
  <1>8. TabSaves(t)'
    BY <1>1, <1>3, SavesStay
  <1> QED BY <1>7, <1>8 DEF TabInv

\* The page is opened again, or its dialog.
LEMMA ShowingKeeps ==
    ASSUME TypeOK, TypeOK', ServerMoves, CInv, NEW t \in Tabs,
           Open(t) \/ PressEnd(t) \/ CancelEnd(t)
    PROVE  TabInv(t)' /\ course' \in [Tabs -> Courses]
  <1>1. PICK tab, new : tab = tabs[t] /\ new = tabs'[t]
    OBVIOUS
  <1>2. /\ Turns(t, tab, new) /\ tab.answers \in Known \cup {Cold} /\ TabSaves(t)
        /\ tab.refetch # None => tab.refetch[1] \in Known
    BY <1>1, TabFacts
  <1>3. Keeps(tab, new, {"shown"}) \/ Keeps(tab, new, {"confirm"})
    BY <1>2, OpenEffect, ConfirmEffect
  <1>4. /\ Keeps(tab, new, AnswerParts) /\ new.answers = tab.answers
        /\ new.refetch = tab.refetch /\ new.saves = tab.saves
    BY <1>3, KeepsMore DEF AnswerParts, Keeps, TabFields
  <1>5. course' = course
    BY DEF Open, PressEnd, CancelEnd
  <1>6. TabKnows(t)' /\ TabLives(t)'
    BY <1>1, <1>2, <1>4, <1>5, OnlyAnswersKeeps
  <1>7. TabSaves(t)'
    BY <1>1, <1>2, <1>4 DEF TabSaves
  <1> QED BY <1>5, <1>6, <1>7 DEF TabInv, CInv

\* The summary is fetched again.
LEMMA RefreshKeeps ==
    ASSUME TypeOK, TypeOK', ServerMoves, CInv, NEW t \in Tabs, NEW tab, NEW new,
           tab = tabs[t], new = tabs'[t], Keeps(tab, new, {"news", "summary"}),
           sessionsStore' = sessionsStore, SummaryOf(tab.page, new.summary),
           new.news # None => SummaryOf(tab.page, new.news[1]),
           tab.cursor # NoCursor => new.summary.index \in Nat \/ course'[t].rewound
    PROVE  TabInv(t)'
  <1>1. /\ TabKnows(t) /\ TabSaves(t) /\ TabLives(t) /\ tab.page \in 0..sessionCount
        /\ tab.cursor \in Presentable
    BY TabFacts
  <1>2. /\ DOMAIN new = TabFields /\ new.page = tab.page /\ new.cursor = tab.cursor
        /\ new.moves = tab.moves /\ new.answers = tab.answers /\ new.refetch = tab.refetch
        /\ new.saves = tab.saves /\ new.position = tab.position
    BY DEF Keeps, TabFields
  <1>3. /\ tab.page \in 0..sessionCount' /\ tab.cursor \in Presentable'
        /\ \A i \in DOMAIN tab.moves : tab.moves[i].cursor \in Presentable'
    BY <1>1, CountsGrow, CursorFacts DEF TabKnows
  <1>4. TabKnows(t)'
    BY <1>1, <1>2, <1>3 DEF TabKnows
  <1>5. TabSaves(t)'
    BY <1>1, <1>2 DEF TabSaves
  <1>6. TabLives(t)'
    BY <1>1, <1>2 DEF TabLives, SummaryOf
  <1> QED BY <1>4, <1>5, <1>6 DEF TabInv

LEMMA NewsKeeps ==
    ASSUME TypeOK, TypeOK', ServerMoves, CInv, NEW t \in Tabs, SummaryAnswered(t)
    PROVE  TabInv(t)' /\ course' \in [Tabs -> Courses]
  <1>1. PICK tab, new, excerpt : /\ tab = tabs[t] /\ new = tabs'[t]
                                 /\ excerpt = Excerpt(tab.page)
    OBVIOUS
  <1>2. Turns(t, tab, new) /\ TabLives(t)
    BY <1>1, TabFacts
  <1>3. Keeps(tab, new, {"news"}) /\ new.news = <<excerpt>>
    BY <1>1, <1>2, NewsEffect
  <1>4. Keeps(tab, new, {"news", "summary"}) /\ new.summary = tab.summary
    BY <1>3, KeepsMore DEF Keeps, TabFields
  <1>5. tab.page \in DOMAIN sessionsStore /\ sessionsStore' = sessionsStore /\ course' = course
    BY <1>1 DEF SummaryAnswered, Owns, apiVars, vars, serverVars
  <1>6. SummaryOf(tab.page, excerpt)
    BY <1>1, <1>5, ExcerptFacts DEF SummaryOf
  <1>7. /\ SummaryOf(tab.page, tab.summary)
        /\ tab.cursor # NoCursor => tab.summary.index \in Nat \/ course[t].rewound
    BY <1>1, <1>2 DEF TabLives
  <1>8. TabInv(t)'
    BY <1>1, <1>3, <1>4, <1>5, <1>6, <1>7, RefreshKeeps
  <1> QED BY <1>5, <1>8 DEF CInv

LEMMA SummaryKeeps ==
    ASSUME TypeOK, TypeOK', ServerMoves, CInv, NEW t \in Tabs, SummaryArrives(t)
    PROVE  TabInv(t)' /\ course' \in [Tabs -> Courses]
  <1>1. PICK tab, new, fetched : tab = tabs[t] /\ new = tabs'[t] /\ fetched = tab.news[1]
    OBVIOUS
  <1>2. Turns(t, tab, new) /\ TabLives(t) /\ course \in [Tabs -> Courses]
    BY <1>1, TabFacts DEF CInv
  <1>3. /\ Keeps(tab, new, {"news", "summary"}) /\ new.news = None
        /\ tab.news # None /\ new.summary = fetched
    BY <1>1, <1>2, SummaryEffect
  <1>4. SummaryOf(tab.page, fetched) /\ SummaryOf(tab.page, tab.summary)
    BY <1>1, <1>2, <1>3 DEF TabLives
  <1>5. fetched.index \in Int /\ tab.summary.index \in Int
    BY <1>4 DEF SummaryOf
  <1> DEFINE late == fetched.index < 0 /\ (course[t].rewound \/ tab.summary.index >= 0)
  <1>6. course' = [course EXCEPT ![t].rewound = late] /\ sessionsStore' = sessionsStore
    BY <1>1 DEF SummaryArrives, apiVars, vars, serverVars
  <1>7. course[t].rewound \in BOOLEAN /\ late \in BOOLEAN
    BY <1>2 DEF Courses
  <1>8. tab.cursor # NoCursor => fetched.index \in Nat \/ late
    <2>1. tab.cursor # NoCursor => tab.summary.index \in Nat \/ course[t].rewound
      BY <1>1, <1>2 DEF TabLives
    <2> QED BY <1>5, <2>1
  <1> HIDE DEF late
  <1>9. course' \in [Tabs -> Courses] /\ course'[t].rewound = late
    BY <1>2, <1>6, <1>7 DEF Courses
  <1>10. TabInv(t)'
    BY <1>1, <1>3, <1>4, <1>6, <1>8, <1>9, RefreshKeeps
  <1> QED BY <1>9, <1>10

LEMMA SessionKeeps ==
    ASSUME TypeOK, TypeOK', ServerMoves, IndexInLockStep, CInv, NEW t \in Tabs,
           SessionSteps(t)
    PROVE  TabInv(t)' /\ course' \in [Tabs -> Courses]
  <1>1. course \in [Tabs -> Courses]
    BY DEF CInv
  <1>2. ASSUME NEW e, NEW options, NEW accept, Create(t, e, options, accept)
        PROVE  TabInv(t)' /\ course' \in [Tabs -> Courses]
    BY <1>1, <1>2, TabStays DEF Create
  <1>3. ASSUME NEW id, Load(t, id) PROVE TabInv(t)' /\ course' \in [Tabs -> Courses]
    BY <1>3, LoadKeeps
  <1>4. ASSUME NEW id, EndLost(t, id) PROVE TabInv(t)' /\ course' \in [Tabs -> Courses]
    BY <1>1, <1>4, TabStays DEF EndLost, Ends
  <1>5. ASSUME NEW id, EndAnswered(t, id) PROVE TabInv(t)' /\ course' \in [Tabs -> Courses]
    BY <1>1, <1>5, LeavingKeeps DEF EndAnswered, Ends
  <1>6. CASE Leave(t)
    BY <1>1, <1>6, LeavingKeeps DEF Leave
  <1>7. CASE Open(t) \/ PressEnd(t) \/ CancelEnd(t)
    BY <1>7, ShowingKeeps
  <1>8. CASE SummaryAnswered(t) \/ SummaryArrives(t)
    BY <1>8, NewsKeeps, SummaryKeeps
  <1> QED BY <1>2, <1>3, <1>4, <1>5, <1>6, <1>7, <1>8 DEF SessionSteps

\* A step of a tab leaves the others as they are.
LEMMA OthersStay ==
    ASSUME CInv, NEW t \in Tabs, NavigationSteps(t) \/ AnswerSteps(t) \/ SessionSteps(t)
    PROVE  /\ DOMAIN tabs' = Tabs
           /\ \A x \in Tabs \ {t} : tabs'[x] = tabs[x] /\ course'[x] = course[x]
  <1>1. DOMAIN tabs = Tabs /\ course \in [Tabs -> Courses]
    BY DEF CInv
  <1>2. ASSUME NavigationSteps(t) PROVE DOMAIN tabs' = Tabs
                                        /\ \A x \in Tabs \ {t} : tabs'[x] = tabs[x]
    BY <1>1, <1>2 DEF NavigationSteps, PressMove, StartMove, ReadAnswered, ReadLost,
         SeekAnswered, SeekLost, MoveFails
  <1>3. ASSUME NavigationSteps(t) PROVE \A x \in Tabs \ {t} : course'[x] = course[x]
    BY <1>1, <1>3 DEF NavigationSteps, PressMove, StartMove, ReadAnswered, ReadLost,
         SeekAnswered, SeekLost, MoveFails, CourseAtStart, CourseAtEnd
  <1>4. ASSUME AnswerSteps(t) PROVE DOMAIN tabs' = Tabs
                                    /\ \A x \in Tabs \ {t} : tabs'[x] = tabs[x]
    <2>1. ASSUME NEW s, SaveFails(t, s)
          PROVE  DOMAIN tabs' = Tabs /\ \A x \in Tabs \ {t} : tabs'[x] = tabs[x]
      <3>1. PICK left : tabs' = [tabs EXCEPT ![t].saves[s] = left]
        BY <2>1 DEF SaveFails
      <3> QED BY <1>1, <3>1
    <2>2. ASSUME NEW s, PostAnswered(t, s)
          PROVE  DOMAIN tabs' = Tabs /\ \A x \in Tabs \ {t} : tabs'[x] = tabs[x]
      <3>1. PICK tab : tabs' = [tabs EXCEPT ![t] = tab]
        BY <2>2 DEF PostAnswered
      <3> QED BY <1>1, <3>1
    <2> QED BY <1>1, <1>4, <2>1, <2>2 DEF AnswerSteps, PressSubmit, FetchAnswered,
              FetchArrives, Posts
  <1>5. ASSUME AnswerSteps(t) PROVE \A x \in Tabs \ {t} : course'[x] = course[x]
    BY <1>1, <1>5 DEF AnswerSteps, PressSubmit, FetchAnswered, FetchArrives, Posts,
         PostAnswered, SaveFails, CourseAtStart
  <1>6. ASSUME SessionSteps(t) PROVE DOMAIN tabs' = Tabs
                                     /\ \A x \in Tabs \ {t} : tabs'[x] = tabs[x]
    BY <1>1, <1>6 DEF SessionSteps, Create, Load, EndAnswered, EndLost, Leave, Open,
         SummaryAnswered, SummaryArrives, PressEnd, CancelEnd
  <1>7. ASSUME SessionSteps(t) PROVE \A x \in Tabs \ {t} : course'[x] = course[x]
    BY <1>1, <1>7 DEF SessionSteps, Create, Load, EndAnswered, EndLost, Ends, Leave, Open,
         SummaryAnswered, SummaryArrives, PressEnd, CancelEnd
  <1> QED BY <1>2, <1>3, <1>4, <1>5, <1>6, <1>7

LEMMA ClientKeeps ==
    ASSUME TypeOK, TypeOK', ServerMoves, IndexInLockStep, CInv, ClientNext
    PROVE  CInv'
  <1>1. /\ BudgetKept' /\ budget.tabs \subseteq Tabs
        /\ DOMAIN tabs = Tabs /\ course \in [Tabs -> Courses]
    BY BudgetSteps DEF CInv, BudgetKept, Budget
  <1>2. ASSUME tabs' = tabs, course' = course PROVE CInv'
    <2>1. \A x \in Tabs : TabInv(x)'
      BY <1>2, TabStays
    <2> QED BY <1>1, <1>2, <2>1 DEF CInv
  <1>3. ASSUME NEW t \in budget.tabs,
               NavigationSteps(t) \/ AnswerSteps(t) \/ SessionSteps(t)
        PROVE  CInv'
    <2>1. t \in Tabs
      BY <1>1
    <2>2. /\ DOMAIN tabs' = Tabs
          /\ \A x \in Tabs \ {t} : tabs'[x] = tabs[x] /\ course'[x] = course[x]
      BY <1>3, <2>1, OthersStay
    <2>3. TabInv(t)' /\ course' \in [Tabs -> Courses]
      BY <1>3, <2>1, NavigationKeeps, AnswersKeep, SessionKeeps
    <2>4. \A x \in Tabs \ {t} : TabInv(x)'
      BY <2>2, TabStays
    <2> QED BY <1>1, <2>2, <2>3, <2>4 DEF CInv
  <1>4. ASSUME NEW u, NEW i, DeleteTracking(u, i) PROVE CInv'
    BY <1>2, <1>4 DEF DeleteTracking
  <1>5. ASSUME NEW u, NEW id, NEW s, NEW checkOnly, RawPost(u, id, s, checkOnly)
        PROVE  CInv'
    BY <1>2, <1>5 DEF RawPost
  <1> QED BY <1>3, <1>4, <1>5 DEF ClientNext

LEMMA InitKnows == ClientInit => TypeOK /\ SInv /\ CInv
  <1>1. SUFFICES ASSUME ClientInit PROVE TypeOK /\ SInv /\ CInv
    OBVIOUS
  <1>2. TypeOK /\ SInv
    BY <1>1, InitType, InitSafe DEF ClientInit, ApiInit
  <1>3. ASSUME NEW t \in Tabs PROVE TabInv(t)
    <2>1. PICK tab : tab = tabs[t] /\ tab = ListPage
      BY <1>1 DEF ClientInit
    <2>2. DOMAIN NoExcerpt = SummaryFields /\ NoExcerpt.index = -1
      BY DEF SummaryFields, NoExcerpt
    <2>3. sessionsStore = <<>> /\ sessionCount = 0
      BY <1>1 DEF ClientInit, ApiInit, Init
    <2>4. Fresh(tab, 0, NoExcerpt) /\ tab.saves = [s \in Slots |-> None]
      BY <2>1, ListEffect
    <2>5. <<>> \in Seq(Navigations) /\ DOMAIN <<>> = {}
      OBVIOUS
    <2>6. TabKnows(t)
      BY <2>1, <2>3, <2>4, <2>5 DEF TabKnows, Fresh, Presentable
    <2>7. TabSaves(t)
      BY <2>1, <2>4 DEF TabSaves
    <2>8. TabLives(t)
      BY <2>1, <2>2, <2>3, <2>4 DEF TabLives, SummaryOf, Fresh
    <2> QED BY <2>6, <2>7, <2>8 DEF TabInv
  <1>4. BudgetKept /\ DOMAIN tabs = Tabs
    BY <1>1, BudgetsAssumption DEF ClientInit, BudgetKept
  <1>5. course \in [Tabs -> Courses]
    BY <1>1 DEF ClientInit, Courses
  <1> QED BY <1>2, <1>3, <1>4, <1>5 DEF CInv

LEMMA StepKnows ==
    TypeOK /\ SInv /\ CInv /\ [ClientNext]_allVars =>
      [Next]_vars /\ (TypeOK /\ SInv /\ CInv)'
  <1>1. SUFFICES ASSUME TypeOK, SInv, CInv, [ClientNext]_allVars
        PROVE [Next]_vars /\ (TypeOK /\ SInv /\ CInv)'
    OBVIOUS
  <1>2. CASE UNCHANGED allVars
    <2>1. UNCHANGED vars /\ UNCHANGED <<tabs, budget, course>>
      BY <1>2 DEF allVars, apiVars, clientVars
    <2>2. TypeOK' /\ SInv'
      BY <1>1, <2>1, NextType, NextSafe
    <2>3. CInv'
      BY <1>1, <2>1 DEF vars, serverVars, CInv, BudgetKept, TabInv, TabKnows, TabSaves,
           TabLives, SummaryOf, Presentable
    <2> QED BY <2>1, <2>2, <2>3
  <1>3. CASE ClientNext
    <2>1. [Next]_vars
      <3>1. CASE ApiNext(budget.config)
        BY <1>1, <3>1, ApiSteps
      <3>2. CASE UNCHANGED apiVars
        BY <3>2 DEF apiVars
      <3> QED BY <1>1, <1>3, <3>1, <3>2, ClientSteps
    <2>2. TypeOK' /\ SInv'
      BY <1>1, <2>1, NextType, NextSafe
    <2>3. ServerMoves
      <3>1. CASE Next
        BY <1>1, <3>1, NextMoves
      <3>2. CASE UNCHANGED vars
        BY <3>2, <1>1, TypeFacts DEF vars, serverVars, ServerMoves
      <3> QED BY <2>1, <3>1, <3>2
    <2>4. IndexInLockStep
      BY <1>1 DEF SInv
    <2> QED BY <1>1, <1>3, <2>1, <2>2, <2>3, <2>4, ClientKeeps
  <1> QED BY <1>1, <1>2, <1>3

LEMMA ClientInvariant == ClientSpec => [](TypeOK /\ SInv /\ CInv)
  BY InitKnows, StepKnows, PTL DEF ClientSpec
-------------------------------------------------------------------------------
\* The pages, on their unreliable network, use the server as any client of its own
\* specification may: whatever that guarantees, it guarantees them.
THEOREM ClientsUseTheServer == ClientSpec => Spec
  <1>1. ClientInit => Init
    BY DEF ClientInit, ApiInit
  <1> QED BY <1>1, ClientInvariant, StepKnows, PTL DEF ClientSpec, Spec

\* Behind the pages, an ended session still has exactly one report, of the submission
\* it acknowledged last, whatever tabs retry, lose or interleave.
THEOREM ClientsAccounted == ClientSpec => []EndedSessionsAccounted
  BY ClientsUseTheServer, Accounted, PTL

\* A tab whose cursor is dead is on a seekable session, and on a question unless a late
\* summary has rewound it: it can seek again.
THEOREM DeadCursorsReplaced == ClientSpec => []DeadCursorsCanBeReplaced
  <1>1. TypeOK /\ SInv /\ CInv => DeadCursorsCanBeReplaced
    <2>1. SUFFICES ASSUME CInv, NEW t \in Tabs,
                          tabs[t].page \in DOMAIN sessionsStore, DeadCursor(t)
          PROVE tabs[t].summary.seekable /\ (Started(tabs[t]) \/ course[t].rewound)
      BY DEF DeadCursorsCanBeReplaced
    <2>2. TabLives(t)
      BY <2>1 DEF CInv, TabInv
    <2>3. /\ tabs[t].cursor # NoCursor
          /\ tabs[t].cursor \notin DOMAIN sessionsStore[tabs[t].page].cursors
      BY <2>1 DEF DeadCursor
    <2>4. /\ tabs[t].summary.seekable
          /\ tabs[t].summary.index \in Nat \/ course[t].rewound
      BY <2>1, <2>2, <2>3 DEF TabLives, SummaryOf
    <2>5. tabs[t].summary.index \in Nat => Displayed(tabs[t]).index \in Nat
      BY <2>2 DEF Displayed, TabLives
    <2> QED BY <2>4, <2>5 DEF Started
  <1> QED BY <1>1, ClientInvariant, PTL
-------------------------------------------------------------------------------
(***************************************************************************)
(* Whom the notifications mail.                                            *)
(***************************************************************************)
\* A mail as it may be sent about session id, on behalf of a user with this address.
MailIsRight(config, d, id, email, consent) ==
    d.sink = "email" =>
      /\ d.event = "exam_completed" /\ d.session = id
      /\ consent /\ d.to = email /\ email # NoEmail
      /\ config.smtp /\ d.from = SysadminEmail
      /\ config.signer => d.attachment # "unsigned"

LEMMA ShortLists ==
    ASSUME NEW a, NEW b PROVE <<a>> \o <<b>> = <<a, b>> /\ <<a>> \o <<>> = <<a>>
  <1> DEFINE S    == {a, b}
             x    == <<a>>
             y    == <<b>>
             both == <<a, b>>
  <1>1. /\ x \in Seq(S) /\ Len(x) = 1 /\ x[1] = a
        /\ y \in Seq(S) /\ Len(y) = 1 /\ y[1] = b
        /\ both \in Seq(S) /\ Len(both) = 2 /\ both[1] = a /\ both[2] = b
    OBVIOUS
  <1>2. x \o <<>> = x
    BY <1>1, ConcatEmptySeq
  <1> HIDE DEF S, x, y, both
  <1>3. /\ x \o y \in Seq(S) /\ Len(x \o y) = 2
        /\ \A i \in 1..2 : (x \o y)[i] = IF i <= 1 THEN x[i] ELSE y[i - 1]
    BY <1>1, ConcatProperties
  <1>4. \A i \in 1..Len(both) : (x \o y)[i] = both[i]
    BY <1>1, <1>3
  <1>5. x \o y = both
    BY <1>1, <1>3, <1>4, SeqEqual
  <1> QED BY <1>2, <1>5 DEF x, y, both

LEMMA LabelFacts ==
    ASSUME NEW name, NEW tags, NEW key, NEW v
    PROVE  v \in Labels(ServiceAddress(name, tags), key) <=>
             \E l \in tags : l[1] = key /\ l[2] = v
  <1>1. ServiceAddress(name, tags).tags = tags
    BY DEF ServiceAddress
  <1> QED BY <1>1 DEF Labels

LEMMA HopFacts ==
    ASSUME NEW config \in Configurations, NEW to
    PROVE  LET hop == GetNextHop(Routes(config), to) IN
           /\ hop \in {"console", "email", NoHop}
           /\ hop = "email" => to.family = "email" /\ config.smtp /\ config.sysadmin
  <1> DEFINE routes   == Routes(config)
             consoleR == [family |-> "console", hop |-> "console"]
             emailR   == [family |-> "email", hop |-> "email"]
             matching == {i \in DOMAIN routes : routes[i].family = to.family}
  <1>1. \/ routes = <<consoleR>>
        \/ routes = <<consoleR, emailR>> /\ config.smtp /\ config.sysadmin
    <2> HIDE DEF consoleR, emailR
    <2>1. routes = <<consoleR>> \o IF config.smtp /\ config.sysadmin THEN <<emailR>> ELSE <<>>
      BY DEF Routes, consoleR, emailR
    <2> HIDE DEF routes
    <2> QED BY <2>1, ShortLists
  <1>2. /\ DOMAIN routes \subseteq {1, 2} /\ 1 \in DOMAIN routes
        /\ routes[1] = consoleR
        /\ 2 \in DOMAIN routes => routes[2] = emailR /\ config.smtp /\ config.sysadmin
    BY <1>1
  <1> HIDE DEF routes
  <1>3. ASSUME matching # {} PROVE Min(matching) \in matching
    <2>1. matching \subseteq {1, 2}
      BY <1>2
    <2>2. \E x \in matching : \A y \in matching : x =< y
      BY <1>3, <2>1
    <2> HIDE DEF matching
    <2> QED BY <2>2 DEF Min
  <1>4. GetNextHop(routes, to) = IF matching = {} THEN NoHop ELSE routes[Min(matching)].hop
    BY DEF GetNextHop
  <1>5. CASE matching = {}
    BY <1>4, <1>5 DEF routes, NoHop
  <1>6. CASE matching # {}
    <2> DEFINE i == Min(matching)
    <2>1. i \in DOMAIN routes /\ routes[i].family = to.family
      BY <1>3, <1>6
    <2>2. GetNextHop(routes, to) = routes[i].hop
      BY <1>4, <1>6
    <2> HIDE DEF i
    <2> QED BY <1>2, <2>1, <2>2 DEF routes, NoHop
  <1> QED BY <1>5, <1>6

LEMMA NotifyFacts ==
    ASSUME NEW config \in Configurations, NEW user, NEW email, NEW id,
           NEW consent \in BOOLEAN, NEW event \in {"exam_completed", "exam_report_deleted"},
           NEW r \in Notify(config, user, email, id, consent, event)
    PROVE  /\ \/ r.log = <<>>
              \/ \E d : /\ r.log = <<d>> /\ d.sink \in {"console", "email"}
                       /\ MailIsRight(config, d, id, email, consent)
           /\ event # "exam_completed" => r.log = <<>>
  <1> DEFINE tags == {<<"msg_source", "exam_report_server">>, <<"exam_event", event>>,
                      <<"examtaker_subject_id", user>>,
                      <<"examreport_mail_consent", FormatBool(consent)>>,
                      <<"examtaker_email", email>>}
             from == ServiceAddress("exam_tracking_server", tags)
  <1>1. PICK a \in Attachments(config) :
          r \in Emit(config, from, [session |-> id, event |-> event, attachment |-> a])
    BY DEF Notify
  <1> DEFINE msg == [session |-> id, event |-> event, attachment |-> a]
             dst == DeriveDestination(from)
             hop == GetNextHop(Routes(config), dst)
             snd == DeriveSender(config, from)
  <1>2. r \in HubSend(config, from, NotificationRecipient, msg) \/ r \in {Dropped}
    BY <1>1 DEF Emit
  <1>3. /\ Labels(from, "exam_event") = {event}
        /\ Labels(from, "examreport_mail_consent") = {FormatBool(consent)}
        /\ Labels(from, "examtaker_email") = {email}
    <2>1. ASSUME NEW key, NEW v
          PROVE  v \in Labels(from, key) <=>
                   \/ key = "msg_source" /\ v = "exam_report_server"
                   \/ key = "exam_event" /\ v = event
                   \/ key = "examtaker_subject_id" /\ v = user
                   \/ key = "examreport_mail_consent" /\ v = FormatBool(consent)
                   \/ key = "examtaker_email" /\ v = email
      <3>1. v \in Labels(from, key) <=> \E l \in tags : l[1] = key /\ l[2] = v
        <4> HIDE DEF tags
        <4> QED BY LabelFacts
      <3> HIDE DEF from
      <3> QED BY <3>1
    <2> HIDE DEF from, tags
    <2>2. \A v : v \in Labels(from, "exam_event") <=> v = event
      BY <2>1
    <2>3. \A v : v \in Labels(from, "examreport_mail_consent") <=> v = FormatBool(consent)
      BY <2>1
    <2>4. \A v : v \in Labels(from, "examtaker_email") <=> v = email
      BY <2>1
    <2> QED BY <2>2, <2>3, <2>4
  <1>4. IsExamCompletion(from) => event = "exam_completed"
    BY <1>3 DEF IsExamCompletion, HasLabelValue
  <1>5. \/ dst = Stdout
        \/ dst = Mail(email) /\ consent /\ email # NoEmail
    <2>1. MailingConsentGiven(from) => consent
      BY <1>3 DEF MailingConsentGiven, HasLabelValue, FormatBool
    <2>2. CASE MailingConsentGiven(from) /\ Labels(from, "examtaker_email") \ {NoEmail} # {}
      <3>1. Labels(from, "examtaker_email") \ {NoEmail} = {email} /\ email # NoEmail
        BY <1>3, <2>2
      <3>2. dst = Mail(CHOOSE x \in {email} : TRUE)
        BY <2>2, <3>1 DEF DeriveDestination
      <3>3. (CHOOSE x \in {email} : TRUE) = email
        OBVIOUS
      <3> QED BY <2>1, <2>2, <3>1, <3>2, <3>3
    <2>3. CASE ~(MailingConsentGiven(from) /\ Labels(from, "examtaker_email") \ {NoEmail} # {})
      BY <2>3 DEF DeriveDestination
    <2> QED BY <2>2, <2>3
  <1> HIDE DEF tags, from, dst
  <1>6. /\ hop \in {"console", "email", NoHop}
        /\ hop = "email" => dst.family = "email" /\ config.smtp /\ config.sysadmin
    BY HopFacts
  <1> HIDE DEF hop
  <1>7. \/ r \in {Refused, Dropped}
        \/ event = "exam_completed" /\ hop # NoHop /\ r \in SinkSend(hop, snd, dst, msg)
    BY <1>2, <1>4 DEF HubSend, dst, hop, snd
  <1>8. CASE r \in {Refused, Dropped}
    BY <1>8 DEF Refused, Dropped
  <1>9. CASE hop = "console" /\ event = "exam_completed" /\ r \in SinkSend(hop, snd, dst, msg)
    <2>1. \/ r = Refused
          \/ r = Delivered("console", snd, dst, msg, FALSE)
      BY <1>9 DEF SinkSend, ConsoleSend
    <2>2. Delivered("console", snd, dst, msg, FALSE).log = <<Delivery("console", snd, dst, msg)>>
      BY DEF Delivered
    <2>3. Delivery("console", snd, dst, msg).sink = "console"
      BY DEF Delivery
    <2>4. Refused.log = <<>>
      BY DEF Refused
    <2> QED BY <1>9, <2>1, <2>2, <2>3, <2>4 DEF MailIsRight
  <1>10. CASE hop = "email" /\ event = "exam_completed" /\ r \in SinkSend(hop, snd, dst, msg)
    <2> DEFINE d == Delivery("email", snd, dst, msg)
    <2>1. \/ r = Refused
          \/ \E err : r = Delivered("email", snd, dst, msg, err)
      BY <1>10 DEF SinkSend, EmailSend
    <2>2. \A err : Delivered("email", snd, dst, msg, err).log = <<d>>
      BY DEF Delivered
    <2>3. Refused.log = <<>>
      BY DEF Refused
    <2>4. dst = Mail(email) /\ consent /\ email # NoEmail /\ config.smtp /\ config.sysadmin
      BY <1>5, <1>6, <1>10 DEF Stdout
    <2>5. dst.address = email /\ snd.address = SysadminEmail
      BY <2>4 DEF Mail, DeriveSender, snd
    <2>6. config.signer => a # "unsigned"
      BY DEF Attachments
    <2>7. /\ msg.session = id /\ msg.event = event /\ msg.attachment = a
      OBVIOUS
    <2>8. /\ d.event = event /\ d.session = id /\ d.to = email /\ d.from = SysadminEmail
          /\ d.attachment = a /\ d.sink = "email"
      <3> HIDE DEF msg, snd
      <3> QED BY <2>5, <2>7 DEF Delivery
    <2> HIDE DEF d
    <2>9. MailIsRight(config, d, id, email, consent)
      BY <1>10, <2>4, <2>6, <2>8 DEF MailIsRight
    <2> QED BY <1>10, <2>1, <2>2, <2>3, <2>8, <2>9
  <1> QED BY <1>6, <1>7, <1>8, <1>9, <1>10

\* The start of a session mails nothing.
LEMMA StartedFacts ==
    ASSUME NEW config, NEW user, NEW id, NEW r \in SessionStarted(config, user, id)
    PROVE  r.log = <<>>
  <1> DEFINE tags == {<<"msg_source", "exam_session_server">>, <<"examtaker_subject_id", user>>}
             from == ServiceAddress("exam_session_server", tags)
             msg  == [session |-> id, event |-> "started", attachment |-> "none"]
  <1>1. "exam_report_server" \notin Labels(from, "msg_source")
    <2>1. "exam_report_server" \in Labels(from, "msg_source") <=>
            \E l \in tags : l[1] = "msg_source" /\ l[2] = "exam_report_server"
      <3> HIDE DEF tags
      <3> QED BY LabelFacts
    <2> HIDE DEF from
    <2> QED BY <2>1
  <1>2. ~IsExamCompletion(from)
    BY <1>1 DEF IsExamCompletion, HasLabelValue
  <1>3. r \in Emit(config, from, msg)
    BY DEF SessionStarted
  <1> HIDE DEF from, msg
  <1>4. r \in {Refused, Dropped}
    BY <1>2, <1>3 DEF Emit, HubSend
  <1> QED BY <1>4 DEF Refused, Dropped
-------------------------------------------------------------------------------
(***************************************************************************)
(* What was asked for a session, and what was mailed about it.             *)
(***************************************************************************)
Wish == [consent : BOOLEAN, email : {EmailOf[u] : u \in Users}]

\* A live session mails on behalf of a user who asked for it and is no visitor.
WishesKept ==
    /\ wishes \in Seq(Wish) /\ Len(wishes) = sessionCount
    /\ \A id \in DOMAIN sessionsStore :
         /\ wishes[id].email = EmailOf[sessionsStore[id].user]
         /\ "sendReportEmail" \in sessionsStore[id].options =>
              wishes[id].consent /\ sessionsStore[id].user \notin Visitors

MailIsKept(config, i) ==
    outbox[i].sink = "email" =>
      LET id == outbox[i].session IN
      /\ id \in 1..sessionCount /\ id \notin DOMAIN sessionsStore
      /\ MailIsRight(config, outbox[i], id, wishes[id].email, wishes[id].consent)
      /\ \E j \in DOMAIN reports : reports[j].session = id /\ reports[j].user \notin Visitors
      /\ \A k \in DOMAIN outbox :
           outbox[k].sink = "email" /\ outbox[k].session = id => k = i

MailKept(config) ==
    /\ outbox \in Seq(Range(outbox))
    /\ \A i \in DOMAIN outbox : MailIsKept(config, i)

\* Nothing is mailed: sessions may end, and reports be filed.
LEMMA QuietKeeps ==
    ASSUME WishesKept, NEW config, MailKept(config), sessionCount \in Nat,
           UNCHANGED <<wishes, outbox, sessionCount>>,
           DOMAIN sessionsStore' \subseteq DOMAIN sessionsStore,
           \A id \in DOMAIN sessionsStore' :
             /\ sessionsStore'[id].user = sessionsStore[id].user
             /\ sessionsStore'[id].options = sessionsStore[id].options,
           \A j \in DOMAIN reports : j \in DOMAIN reports' /\ reports'[j] = reports[j]
    PROVE  WishesKept' /\ MailKept(config)'
  <1>1. WishesKept'
    BY DEF WishesKept
  <1>2. ASSUME NEW i \in DOMAIN outbox PROVE MailIsKept(config, i)'
    <2>1. SUFFICES ASSUME outbox[i].sink = "email", NEW id, id = outbox[i].session
          PROVE /\ id \in 1..sessionCount /\ id \notin DOMAIN sessionsStore'
                /\ MailIsRight(config, outbox[i], id, wishes[id].email, wishes[id].consent)
                /\ \E j \in DOMAIN reports' :
                     reports'[j].session = id /\ reports'[j].user \notin Visitors
                /\ \A k \in DOMAIN outbox :
                     outbox[k].sink = "email" /\ outbox[k].session = id => k = i
      BY DEF MailIsKept
    <2>2. MailIsKept(config, i)
      BY DEF MailKept
    <2>3. PICK j \in DOMAIN reports :
            reports[j].session = id /\ reports[j].user \notin Visitors
      BY <2>1, <2>2 DEF MailIsKept
    <2>4. /\ id \in 1..sessionCount /\ id \notin DOMAIN sessionsStore
          /\ MailIsRight(config, outbox[i], id, wishes[id].email, wishes[id].consent)
          /\ \A k \in DOMAIN outbox :
               outbox[k].sink = "email" /\ outbox[k].session = id => k = i
      BY <2>1, <2>2 DEF MailIsKept
    <2>5. j \in DOMAIN reports' /\ reports'[j] = reports[j]
      BY <2>3
    <2> QED BY <2>3, <2>4, <2>5
  <1>3. MailKept(config)'
    BY <1>2 DEF MailKept
  <1> QED BY <1>1, <1>3

\* One more entry of a sequence.
LEMMA EntryFacts ==
    ASSUME NEW s, s \in Seq(Range(s)), NEW d
    PROVE  LET n == s \o <<d>> IN
           /\ n \in Seq(Range(n)) /\ DOMAIN n = 1..(Len(s) + 1)
           /\ Len(s) \in Nat /\ DOMAIN s = 1..Len(s)
           /\ \A i \in DOMAIN s : n[i] = s[i]
           /\ n[Len(s) + 1] = d
  <1> DEFINE S == Range(s) \cup {d}
             e == <<d>>
             n == s \o e
  <1>1. s \in Seq(S) /\ Len(s) \in Nat /\ DOMAIN s = 1..Len(s)
    <2>1. \A i \in 1..Len(s) : s[i] \in S
      BY DEF Range
    <2> QED BY <2>1
  <1>2. e \in Seq(S) /\ Len(e) = 1 /\ e[1] = d
    OBVIOUS
  <1> HIDE DEF S, e
  <1>3. /\ n \in Seq(S) /\ Len(n) = Len(s) + 1
        /\ \A i \in 1..(Len(s) + 1) : n[i] = IF i <= Len(s) THEN s[i] ELSE e[i - Len(s)]
    BY <1>1, <1>2, ConcatProperties
  <1> HIDE DEF n
  <1>4. DOMAIN n = 1..(Len(s) + 1)
    BY <1>3
  <1>5. n \in Seq(Range(n))
    <2>1. \A i \in 1..Len(n) : n[i] \in Range(n)
      BY <1>1, <1>3, <1>4 DEF Range
    <2> QED BY <1>3, <2>1
  <1>6. \A i \in DOMAIN s : n[i] = s[i]
    BY <1>1, <1>3
  <1>7. n[Len(s) + 1] = d
    <2>1. Len(s) + 1 \in 1..(Len(s) + 1) /\ ~(Len(s) + 1 <= Len(s))
          /\ Len(s) + 1 - Len(s) = 1
      BY <1>1
    <2> QED BY <1>2, <1>3, <2>1
  <1> QED BY <1>1, <1>4, <1>5, <1>6, <1>7 DEF n, e

LEMMA CreateMail ==
    ASSUME TypeOK, WishesKept, NEW config \in Configurations, MailKept(config),
           NEW u \in Users, NEW e \in Exams, NEW options \in OptionChoices, NEW accept,
           HandleCreate(config, u, e, options, accept)
    PROVE  WishesKept' /\ MailKept(config)'
  <1> DEFINE id    == sessionCount + 1
             asked == "sendReportEmail" \in options
             wish  == [consent |-> asked, email |-> EmailOf[u]]
  <1>1. /\ StartNewExamSession(u, e, options, accept)
        /\ wishes' = Append(wishes, wish)
        /\ sessionCount \in Nat
    BY TypeFacts DEF HandleCreate
  <1>2. /\ id \notin DOMAIN sessionsStore
        /\ DOMAIN sessionsStore' = DOMAIN sessionsStore \cup {id}
        /\ \A i \in DOMAIN sessionsStore : sessionsStore'[i] = sessionsStore[i]
        /\ sessionsStore'[id].user = u
        /\ sessionCount' = id /\ reports' = reports
    BY <1>1, StartSummary
  <1>3. sessionsStore'[id].options = SessionOptions(u, options)
    <2>1. PICK paper : sessionsStore' =
            Store(sessionsStore, id, NewExamSession(u, e, SessionOptions(u, options), paper))
      BY <1>1 DEF StartNewExamSession
    <2> DEFINE new == NewExamSession(u, e, SessionOptions(u, options), paper)
    <2>2. new.options = SessionOptions(u, options)
      BY DEF NewExamSession
    <2>3. sessionsStore'[id] = new
      <3> HIDE DEF new, id
      <3> QED BY <2>1 DEF Store, new
    <2> QED BY <2>2, <2>3
  <1>4. "sendReportEmail" \in sessionsStore'[id].options =>
          "sendReportEmail" \in options /\ u \notin Visitors
    BY <1>3 DEF SessionOptions
  <1>5. PICK r \in SessionStarted(config, u, id) : outbox' = outbox \o r.log
    BY DEF HandleCreate, Logged
  <1>6. outbox' = outbox
    <2>1. r.log = <<>>
      BY <1>5, StartedFacts
    <2> QED BY <1>5, <2>1, ConcatEmptySeq DEF MailKept
  <1>7. wish \in Wish /\ wish.email = EmailOf[u]
        /\ wish.consent = asked
    <2>1. asked \in BOOLEAN
      OBVIOUS
    <2> HIDE DEF asked
    <2> QED BY <2>1 DEF Wish
  <1> HIDE DEF wish
  <1>8. /\ wishes' \in Seq(Wish) /\ Len(wishes') = id
        /\ \A i \in 1..sessionCount : wishes'[i] = wishes[i]
        /\ wishes'[id] = wish
    <2>1. wishes \in Seq(Wish) /\ Len(wishes) = sessionCount
      BY DEF WishesKept
    <2> QED BY <1>1, <1>7, <2>1
  <1>9. \A i \in DOMAIN sessionsStore : i \in 1..sessionCount
    BY TypeFacts
  <1>10. WishesKept'
    <2>1. ASSUME NEW i \in DOMAIN sessionsStore'
          PROVE /\ wishes'[i].email = EmailOf[sessionsStore'[i].user]
                /\ "sendReportEmail" \in sessionsStore'[i].options =>
                     wishes'[i].consent /\ sessionsStore'[i].user \notin Visitors
      <3>1. CASE i = id
        BY <1>2, <1>4, <1>7, <1>8, <3>1
      <3>2. CASE i # id
        <4>1. i \in DOMAIN sessionsStore
          BY <1>2, <3>2
        <4>2. wishes'[i] = wishes[i] /\ sessionsStore'[i] = sessionsStore[i]
          BY <1>2, <1>8, <1>9, <4>1
        <4> QED BY <4>1, <4>2 DEF WishesKept
      <3> QED BY <3>1, <3>2
    <2> QED BY <1>2, <1>8, <2>1 DEF WishesKept
  <1>11. ASSUME NEW i \in DOMAIN outbox PROVE MailIsKept(config, i)'
    <2>1. SUFFICES ASSUME outbox[i].sink = "email", NEW x, x = outbox[i].session
          PROVE /\ x \in 1..sessionCount' /\ x \notin DOMAIN sessionsStore'
                /\ MailIsRight(config, outbox[i], x, wishes'[x].email, wishes'[x].consent)
                /\ \E j \in DOMAIN reports :
                     reports[j].session = x /\ reports[j].user \notin Visitors
                /\ \A k \in DOMAIN outbox :
                     outbox[k].sink = "email" /\ outbox[k].session = x => k = i
      BY <1>2, <1>6 DEF MailIsKept
    <2>2. MailIsKept(config, i)
      BY DEF MailKept
    <2>3. /\ x \in 1..sessionCount /\ x \notin DOMAIN sessionsStore
          /\ MailIsRight(config, outbox[i], x, wishes[x].email, wishes[x].consent)
          /\ \E j \in DOMAIN reports :
               reports[j].session = x /\ reports[j].user \notin Visitors
          /\ \A k \in DOMAIN outbox :
               outbox[k].sink = "email" /\ outbox[k].session = x => k = i
      BY <2>1, <2>2 DEF MailIsKept
    <2>4. /\ x \in 1..id /\ x # id /\ wishes'[x] = wishes[x]
      BY <1>1, <1>8, <2>3
    <2> QED BY <1>2, <2>3, <2>4
  <1>12. MailKept(config)'
    BY <1>6, <1>11 DEF MailKept
  <1> QED BY <1>10, <1>12

LEMMA DeleteMail ==
    ASSUME TypeOK, SInv, WishesKept, NEW config \in Configurations, MailKept(config),
           NEW u, NEW id, HandleDelete(config, u, id)
    PROVE  WishesKept' /\ MailKept(config)'
  <1> DEFINE sess == sessionsStore[id]
             consent == "sendReportEmail" \in sess.options
  <1>1. /\ EndExamSession(u, id) /\ UNCHANGED wishes /\ sess.user = u
        /\ IF sess.answer = NoAnswer THEN UNCHANGED outbox
           ELSE Logged(Notify(config, u, EmailOf[u], id, consent, "exam_completed"))
    BY DEF HandleDelete, EndExamSession, Owns
  <1>2. /\ id \in DOMAIN sessionsStore
        /\ DOMAIN sessionsStore' = DOMAIN sessionsStore \ {id}
        /\ \A i \in DOMAIN sessionsStore' : sessionsStore'[i] = sessionsStore[i]
        /\ reports' = IF sess.answer = NoAnswer THEN reports
                      ELSE Append(reports, ReportOf(id))
        /\ sessionCount' = sessionCount
    BY <1>1, EndSummary DEF historyVars
  <1>3. sessionCount \in Nat /\ id \in 1..sessionCount /\ reports \in Seq(Report)
    BY <1>2, TypeFacts
  <1>4. /\ \A j \in DOMAIN reports : j \in DOMAIN reports' /\ reports'[j] = reports[j]
        /\ sess.answer # NoAnswer =>
             \E j \in DOMAIN reports' : reports'[j] = ReportOf(id)
    <2> DEFINE rep == ReportOf(id)
               longer == Append(reports, rep)
    <2>1. /\ Len(reports) \in Nat /\ DOMAIN reports = 1..Len(reports)
          /\ DOMAIN longer = 1..(Len(reports) + 1)
          /\ \A j \in 1..Len(reports) : longer[j] = reports[j]
          /\ longer[Len(reports) + 1] = rep
      <3> HIDE DEF rep
      <3> QED BY <1>3
    <2> HIDE DEF longer
    <2>2. reports' = IF sess.answer = NoAnswer THEN reports ELSE longer
      BY <1>2 DEF longer
    <2>3. Len(reports) + 1 \in DOMAIN longer
          /\ \A j \in DOMAIN reports : j \in DOMAIN longer
      BY <2>1
    <2> HIDE DEF rep
    <2> QED BY <2>1, <2>2, <2>3 DEF rep
  <1>5. CASE outbox' = outbox
    BY <1>1, <1>2, <1>3, <1>4, <1>5, QuietKeeps
  <1>6. CASE sess.answer # NoAnswer /\ outbox' # outbox
    <2>1. PICK r \in Notify(config, u, EmailOf[u], id, consent, "exam_completed") :
            outbox' = outbox \o r.log
      BY <1>1, <1>6 DEF Logged
    <2>2. consent \in BOOLEAN
      OBVIOUS
    <2> HIDE DEF consent
    <2>3. \/ r.log = <<>>
          \/ \E d : r.log = <<d>> /\ MailIsRight(config, d, id, EmailOf[u], consent)
      BY <2>1, <2>2, NotifyFacts
    <2>4. r.log # <<>>
      BY <1>6, <2>1, ConcatEmptySeq DEF MailKept
    <2>5. PICK d : r.log = <<d>> /\ MailIsRight(config, d, id, EmailOf[u], consent)
      BY <2>3, <2>4
    <2>6. outbox' = outbox \o <<d>> /\ outbox \in Seq(Range(outbox))
      BY <2>1, <2>5 DEF MailKept
    <2>7. /\ outbox' \in Seq(Range(outbox')) /\ DOMAIN outbox' = 1..(Len(outbox) + 1)
          /\ Len(outbox) \in Nat /\ DOMAIN outbox = 1..Len(outbox)
          /\ \A i \in DOMAIN outbox : outbox'[i] = outbox[i]
          /\ outbox'[Len(outbox) + 1] = d
      BY <2>6, EntryFacts
    <2>8. /\ wishes[id].email = EmailOf[u]
          /\ consent => wishes[id].consent /\ u \notin Visitors
      BY <1>1, <1>2 DEF WishesKept, consent
    <2>9. WishesKept'
      BY <1>1, <1>2 DEF WishesKept
    <2>10. ASSUME NEW i \in DOMAIN outbox, outbox[i].sink = "email"
           PROVE  outbox[i].session # id
      BY <1>2, <2>10 DEF MailKept, MailIsKept
    <2>11. ASSUME NEW i \in DOMAIN outbox' PROVE MailIsKept(config, i)'
      <3>1. SUFFICES ASSUME outbox'[i].sink = "email", NEW x, x = outbox'[i].session
            PROVE /\ x \in 1..sessionCount /\ x \notin DOMAIN sessionsStore'
                  /\ MailIsRight(config, outbox'[i], x, wishes[x].email, wishes[x].consent)
                  /\ \E j \in DOMAIN reports' :
                       reports'[j].session = x /\ reports'[j].user \notin Visitors
                  /\ \A k \in DOMAIN outbox' :
                       outbox'[k].sink = "email" /\ outbox'[k].session = x => k = i
        BY <1>1, <1>2 DEF MailIsKept
      <3>2. CASE i = Len(outbox) + 1
        <4>1. outbox'[i] = d /\ d.sink = "email"
          BY <2>7, <3>1, <3>2
        <4>2. x = id /\ consent
          BY <2>5, <3>1, <4>1 DEF MailIsRight
        <4>3. MailIsRight(config, d, x, wishes[x].email, wishes[x].consent)
          BY <2>5, <2>8, <4>2 DEF MailIsRight
        <4>4. \E j \in DOMAIN reports' :
                reports'[j].session = x /\ reports'[j].user \notin Visitors
          <5>1. ReportOf(id).session = id /\ ReportOf(id).user = u
            BY <1>1 DEF ReportOf
          <5>2. u \notin Visitors
            BY <2>8, <4>2
          <5> HIDE DEF sess
          <5> QED BY <1>4, <1>6, <4>2, <5>1, <5>2
        <4>5. ASSUME NEW k \in DOMAIN outbox', outbox'[k].sink = "email",
                     outbox'[k].session = x, k # i
              PROVE  FALSE
          <5>1. k \in DOMAIN outbox
            BY <2>7, <3>2, <4>5
          <5>2. outbox'[k] = outbox[k]
            BY <2>7, <5>1
          <5> QED BY <2>10, <4>2, <4>5, <5>1, <5>2
        <4> QED BY <1>2, <1>3, <4>1, <4>2, <4>3, <4>4, <4>5
      <3>3. CASE i # Len(outbox) + 1
        <4>1. i \in DOMAIN outbox /\ outbox'[i] = outbox[i]
          BY <2>7, <3>3
        <4>2. MailIsKept(config, i)
          BY <4>1 DEF MailKept
        <4>3. /\ x \in 1..sessionCount /\ x \notin DOMAIN sessionsStore
              /\ MailIsRight(config, outbox[i], x, wishes[x].email, wishes[x].consent)
              /\ \A k \in DOMAIN outbox :
                   outbox[k].sink = "email" /\ outbox[k].session = x => k = i
          BY <3>1, <4>1, <4>2 DEF MailIsKept
        <4>4. PICK j \in DOMAIN reports :
                reports[j].session = x /\ reports[j].user \notin Visitors
          BY <3>1, <4>1, <4>2 DEF MailIsKept
        <4>5. j \in DOMAIN reports' /\ reports'[j] = reports[j]
          BY <1>4
        <4>6. ASSUME NEW k \in DOMAIN outbox', outbox'[k].sink = "email",
                     outbox'[k].session = x, k # i
              PROVE  FALSE
          <5>1. CASE k = Len(outbox) + 1
            <6>1. d.session = id
              BY <2>5, <2>7, <4>6, <5>1 DEF MailIsRight
            <6> QED BY <1>2, <2>7, <4>3, <4>6, <5>1, <6>1
          <5>2. CASE k # Len(outbox) + 1
            <6>1. k \in DOMAIN outbox /\ outbox'[k] = outbox[k]
              BY <2>7, <5>2
            <6> QED BY <4>3, <4>6, <6>1
          <5> QED BY <5>1, <5>2
        <4> QED BY <1>2, <4>1, <4>3, <4>4, <4>5, <4>6
      <3> QED BY <3>2, <3>3
    <2>12. MailKept(config)'
      BY <2>7, <2>11 DEF MailKept
    <2> QED BY <2>9, <2>12
  <1> QED BY <1>1, <1>5, <1>6

LEMMA ApiMail ==
    ASSUME TypeOK, SInv, WishesKept, NEW config \in Configurations, MailKept(config),
           ApiNext(config)
    PROVE  WishesKept' /\ MailKept(config)'
  <1>0. sessionCount \in Nat
    BY TypeFacts
  <1>1. ASSUME NEW u \in Users, NEW e \in Exams, NEW options \in OptionChoices,
               NEW accept \in AcceptChoices, HandleCreate(config, u, e, options, accept)
        PROVE  WishesKept' /\ MailKept(config)'
    BY <1>1, CreateMail
  <1>2. ASSUME NEW id, WorksOn(id), UNCHANGED <<wishes, discarded, outbox>>
        PROVE  WishesKept' /\ MailKept(config)'
    <2>1. /\ DOMAIN sessionsStore' = DOMAIN sessionsStore
          /\ UNCHANGED <<wishes, outbox, sessionCount, reports>>
          /\ \A i \in DOMAIN sessionsStore' :
               /\ sessionsStore'[i].user = sessionsStore[i].user
               /\ sessionsStore'[i].options = sessionsStore[i].options
      BY <1>2 DEF WorksOn
    <2> QED BY <1>0, <2>1, QuietKeeps
  <1>3. ASSUME NEW u, NEW id, NEW c, HandleGetNextQuestion(u, id, c)
        PROVE  WishesKept' /\ MailKept(config)'
    <2>1. WorksOn(id)
      BY <1>3, GetNextSummary DEF HandleGetNextQuestion
    <2> QED BY <1>2, <1>3, <2>1 DEF HandleGetNextQuestion
  <1>4. ASSUME NEW u, NEW id, NEW c, NEW i, HandleSeekCursor(u, id, c, i)
        PROVE  WishesKept' /\ MailKept(config)'
    <2>1. WorksOn(id)
      BY <1>4, SeekSummary DEF HandleSeekCursor
    <2> QED BY <1>2, <1>4, <2>1 DEF HandleSeekCursor
  <1>5. ASSUME NEW u, NEW id, NEW a, NEW checkOnly \in BOOLEAN,
               HandleSubmitAnswer(u, id, a, checkOnly)
        PROVE  WishesKept' /\ MailKept(config)'
    <2>1. WorksOn(id)
      BY <1>5, SubmitSummary DEF HandleSubmitAnswer
    <2> QED BY <1>2, <1>5, <2>1 DEF HandleSubmitAnswer
  <1>6. ASSUME NEW u, NEW id, HandleDelete(config, u, id)
        PROVE  WishesKept' /\ MailKept(config)'
    BY <1>6, DeleteMail
  <1>7. ASSUME NEW u, NEW i, HandleDeleteTracking(config, u, i)
        PROVE  WishesKept' /\ MailKept(config)'
    <2> DEFINE sent(consent) == Notify(config, u, EmailOf[u], reports[i].session, consent,
                                       "exam_report_deleted")
    <2>0. PICK consent \in BOOLEAN : Logged(sent(consent))
      BY <1>7 DEF HandleDeleteTracking
    <2>1. PICK r \in sent(consent) : outbox' = outbox \o r.log
      BY <2>0 DEF Logged
    <2>2. r.log = <<>>
      BY <2>1, NotifyFacts
    <2>3. outbox' = outbox
      BY <2>1, <2>2, ConcatEmptySeq DEF MailKept
    <2>4. UNCHANGED <<sessionsStore, sessionCount, reports, wishes>>
      BY <1>7 DEF HandleDeleteTracking, vars, serverVars
    <2> QED BY <1>0, <2>3, <2>4, QuietKeeps
  <1> QED BY <1>1, <1>3, <1>4, <1>5, <1>6, <1>7 DEF ApiNext

\* The configuration is that of the process, and what other clients post is a bound on
\* behaviours: no step changes them.
SameChoices == budget'.config = budget.config /\ budget'.raw = budget.raw

LEMMA ConfigStays == ASSUME BudgetKept, [ClientNext]_allVars PROVE SameChoices
  <1>1. CASE UNCHANGED allVars
    BY <1>1 DEF SameChoices, allVars, clientVars
  <1>2. CASE ClientNext
    <2>0. DOMAIN budget = {"tabs", "exams", "options", "config", "starts", "loads", "moves",
                           "saves", "refetches", "losses", "ends", "raw"}
      BY DEF BudgetKept, Budget
    <2>1. \A thing \in {"starts", "loads", "moves", "saves", "refetches", "losses", "ends"} :
            Spend(thing) => SameChoices
      BY <2>0 DEF SameChoices, Spend
    <2>2. SpendTwo("ends", "losses") => SameChoices
      BY <2>0 DEF SameChoices, SpendTwo
    <2>3. ASSUME NEW t, NavigationSteps(t) PROVE SameChoices
      BY <2>1, <2>3 DEF NavigationSteps, PressMove, StartMove, ReadAnswered, ReadLost,
           SeekAnswered, SeekLost, MoveFails, SameChoices
    <2>4. ASSUME NEW t, AnswerSteps(t) PROVE SameChoices
      BY <2>1, <2>4 DEF AnswerSteps, PressSubmit, FetchAnswered, FetchArrives,
           Posts, PostAnswered, SaveFails, SameChoices
    <2>5. ASSUME NEW t, SessionSteps(t) PROVE SameChoices
      BY <2>1, <2>2, <2>5 DEF SessionSteps, Create, Load, Leave, Open,
           SummaryAnswered, SummaryArrives, PressEnd, CancelEnd, EndAnswered, EndLost,
           SameChoices
    <2>6. ASSUME NEW u, NEW i, DeleteTracking(u, i) PROVE SameChoices
      BY <2>1, <2>6 DEF DeleteTracking
    <2>7. ASSUME NEW u, NEW id, NEW s, NEW checkOnly, RawPost(u, id, s, checkOnly)
          PROVE  SameChoices
      BY <2>7 DEF SameChoices, RawPost
    <2> QED BY <1>2, <2>3, <2>4, <2>5, <2>6, <2>7 DEF ClientNext
  <1> QED BY <1>1, <1>2

MailInv == WishesKept /\ \E config \in Configurations :
                           config = budget.config /\ MailKept(config)

LEMMA InitMail == ClientInit => MailInv
  <1>1. SUFFICES ASSUME ClientInit PROVE MailInv
    OBVIOUS
  <1>2. /\ wishes = <<>> /\ outbox = <<>> /\ sessionCount = 0 /\ sessionsStore = <<>>
        /\ budget.config \in Configurations
    BY <1>1, BudgetsAssumption DEF ClientInit, ApiInit, Init, Budget
  <1>3. WishesKept
    BY <1>2 DEF WishesKept
  <1>4. \A config : MailKept(config)
    BY <1>2 DEF MailKept
  <1> QED BY <1>2, <1>3, <1>4 DEF MailInv

LEMMA StepMail ==
    TypeOK /\ SInv /\ CInv /\ MailInv /\ [ClientNext]_allVars => MailInv'
  <1>1. SUFFICES ASSUME TypeOK, SInv, CInv, MailInv, [ClientNext]_allVars PROVE MailInv'
    OBVIOUS
  <1>2. PICK config \in Configurations : config = budget.config /\ MailKept(config)
    BY <1>1 DEF MailInv
  <1>3. budget'.config = config /\ WishesKept
    BY <1>1, <1>2, ConfigStays DEF CInv, MailInv, SameChoices
  <1>4. CASE ApiNext(config)
    <2>1. WishesKept' /\ MailKept(config)'
      BY <1>1, <1>2, <1>3, <1>4, ApiMail
    <2> QED BY <1>3, <2>1 DEF MailInv
  <1>5. CASE UNCHANGED apiVars
    <2>1. UNCHANGED <<sessionsStore, sessionCount, reports, wishes, outbox>>
      BY <1>5 DEF apiVars, vars, serverVars
    <2>2. sessionCount \in Nat
      BY <1>1, TypeFacts
    <2>3. WishesKept' /\ MailKept(config)'
      BY <1>2, <1>3, <2>1, <2>2, QuietKeeps
    <2> QED BY <1>3, <2>3 DEF MailInv
  <1>6. ApiNext(config) \/ UNCHANGED apiVars
    <2>1. CASE ClientNext
      BY <1>1, <1>2, <2>1, ClientSteps
    <2>2. CASE UNCHANGED allVars
      BY <2>2 DEF allVars
    <2> QED BY <1>1, <2>1, <2>2
  <1> QED BY <1>4, <1>5, <1>6

\* Mail goes out only about ended sessions of users who asked for it, once, and as the
\* server is configured, however requests are lost, repeated and interleaved.
THEOREM MailConsented == ClientSpec => []MailedAsConsented
  <1>1. MailInv => MailedAsConsented
    <2>1. SUFFICES ASSUME MailInv, NEW i \in DOMAIN outbox, outbox[i].sink = "email",
                          NEW id, id = outbox[i].session
          PROVE /\ MailsAbout(id) = {i}
                /\ outbox[i].event = "exam_completed"
                /\ id \notin DOMAIN sessionsStore
                /\ \E j \in DOMAIN reports :
                     reports[j].session = id /\ reports[j].user \notin Visitors
                /\ wishes[id].consent /\ outbox[i].to = wishes[id].email
                /\ outbox[i].to # NoEmail
                /\ budget.config.smtp /\ outbox[i].from = SysadminEmail
                /\ budget.config.signer => outbox[i].attachment # "unsigned"
      BY DEF MailedAsConsented
    <2>2. PICK config \in Configurations : config = budget.config /\ MailKept(config)
      BY <2>1 DEF MailInv
    <2>3. MailIsKept(config, i)
      BY <2>1, <2>2 DEF MailKept
    <2>4. /\ id \notin DOMAIN sessionsStore
          /\ MailIsRight(config, outbox[i], id, wishes[id].email, wishes[id].consent)
          /\ \E j \in DOMAIN reports :
               reports[j].session = id /\ reports[j].user \notin Visitors
          /\ \A k \in DOMAIN outbox :
               outbox[k].sink = "email" /\ outbox[k].session = id => k = i
      BY <2>1, <2>3 DEF MailIsKept
    <2>5. MailsAbout(id) = {i}
      BY <2>1, <2>4 DEF MailsAbout
    <2> QED BY <2>1, <2>2, <2>4, <2>5 DEF MailIsRight
  <1>2. ClientSpec => []MailInv
    BY InitMail, StepMail, ClientInvariant, PTL DEF ClientSpec
  <1> QED BY <1>1, <1>2, PTL
-------------------------------------------------------------------------------
(***************************************************************************)
(* Induction over the numbers, as a fact about sets of them.               *)
(***************************************************************************)
Less == {pair \in Nat \X Nat : pair[1] < pair[2]}

LEMMA Smallest ==
    ASSUME NEW T, T \subseteq Nat, T # {} PROVE \E x \in T : \A y \in T : x <= y
  <1>1. OpToRel(<, Nat) = Less
    BY Zenon DEF OpToRel, Less
  <1>2. IsWellFoundedOn(Less, Nat)
    BY <1>1, NatLessThanWellFounded, Zenon
  <1>3. PICK x \in T : \A y \in T : ~(<<y, x>> \in Less)
    BY <1>2, WFMin
  <1>4. ASSUME NEW y \in T PROVE x <= y
    <2>1. <<y, x>> \in Less <=> y < x
      BY DEF Less
    <2> QED BY <1>3, <2>1
  <1> QED BY <1>4

LEMMA Induct ==
    ASSUME NEW T, 0 \in T, \A n \in Nat : n \in T => n + 1 \in T PROVE Nat \subseteq T
  <1> DEFINE U == Nat \ T
  <1>1. SUFFICES ASSUME U # {} PROVE FALSE
    OBVIOUS
  <1>2. PICK x \in U : \A y \in U : x <= y
    BY <1>1, Smallest
  <1>3. x - 1 \in Nat /\ x - 1 \notin U
    BY <1>2
  <1> QED BY <1>2, <1>3

\* A loop that selects answers selects those of the set, and repeats none.
FirstOf(s, n) == {s[j] : j \in 1..n}

SelectionLoop(f, s, T, n) ==
    f = [i \in 0..n |-> IF i = 0 THEN <<>>
                        ELSE IF s[i] \in T THEN Append(f[i - 1], s[i]) ELSE f[i - 1]]

LEMMA SelectionExists ==
    ASSUME NEW s, NEW T, NEW n \in Nat PROVE \E f : SelectionLoop(f, s, T, n)
  <1> DEFINE step(f, i) == IF s[i] \in T THEN Append(f[i - 1], s[i]) ELSE f[i - 1]
             isLoop(f, m) == f = [i \in 0..m |-> IF i = 0 THEN <<>> ELSE step(f, i)]
             U == {m \in Nat : \E f : isLoop(f, m)}
  <1>1. 0 \in U
    <2>1. isLoop([i \in 0..0 |-> <<>>], 0)
      OBVIOUS
    <2> QED BY <2>1
  <1>2. ASSUME NEW m \in Nat, m \in U PROVE m + 1 \in U
    <2>1. PICK f : isLoop(f, m)
      BY <1>2
    <2> DEFINE g == [i \in 0..(m + 1) |-> IF i \in 0..m THEN f[i] ELSE step(f, i)]
    <2>2. \A i \in 0..m : f[i] = IF i = 0 THEN <<>> ELSE step(f, i)
      BY <2>1
    <2>3. \A i \in 0..m : g[i] = f[i]
      OBVIOUS
    <2>4. \A i \in 1..(m + 1) : i - 1 \in 0..m
      OBVIOUS
    <2>5. \A i \in 1..(m + 1) : step(g, i) = step(f, i)
      BY <2>3, <2>4
    <2>6. \A i \in 0..(m + 1) : g[i] = IF i = 0 THEN <<>> ELSE step(g, i)
      BY <2>2, <2>3, <2>5
    <2>7. isLoop(g, m + 1)
      BY <2>6
    <2> HIDE DEF g, isLoop
    <2> QED BY <2>7
  <1> HIDE DEF U
  <1>3. n \in U
    BY <1>1, <1>2, Induct
  <1> QED BY <1>3 DEF U, SelectionLoop

LEMMA SelectedFacts ==
    ASSUME NEW S, NEW s \in Seq(S), NEW T
    PROVE  /\ Selected(s, T) \in Seq(S)
           /\ Range(Selected(s, T)) = Range(s) \cap T
           /\ AnswersOnce(s) => AnswersOnce(Selected(s, T))
  <1> DEFINE kept[i \in 0..Len(s)] ==
               IF i = 0 THEN <<>>
               ELSE IF s[i] \in T THEN Append(kept[i - 1], s[i]) ELSE kept[i - 1]
             Good(i) == /\ kept[i] \in Seq(S)
                        /\ Range(kept[i]) = FirstOf(s, i) \cap T
                        /\ AnswersOnce(s) => AnswersOnce(kept[i])
             U == {n \in Nat : n <= Len(s) => Good(n)}
  <1>0. Len(s) \in Nat /\ DOMAIN s = 1..Len(s)
    OBVIOUS
  <1>1. \A i \in 0..Len(s) : kept[i] =
               IF i = 0 THEN <<>>
               ELSE IF s[i] \in T THEN Append(kept[i - 1], s[i]) ELSE kept[i - 1]
    <2>1. PICK f : SelectionLoop(f, s, T, Len(s))
      BY <1>0, SelectionExists
    <2>2. kept = [i \in 0..Len(s) |->
               IF i = 0 THEN <<>>
               ELSE IF s[i] \in T THEN Append(kept[i - 1], s[i]) ELSE kept[i - 1]]
      BY <2>1, Zenon DEF kept, SelectionLoop
    <2> HIDE DEF kept
    <2> QED BY <2>2
  <1>2. Selected(s, T) = kept[Len(s)]
    BY DEF Selected
  <1> HIDE DEF kept
  <1>3. Good(0)
    <2>1. kept[0] = <<>>
      BY <1>0, <1>1
    <2>2. FirstOf(s, 0) = {}
      BY DEF FirstOf
    <2>3. Range(<<>>) = {} /\ AnswersOnce(<<>>)
      BY DEF Range, AnswersOnce
    <2> QED BY <2>1, <2>2, <2>3
  <1>4. ASSUME NEW n \in Nat, n + 1 <= Len(s), Good(n) PROVE Good(n + 1)
    <2>1. n + 1 \in 0..Len(s) /\ n + 1 # 0 /\ (n + 1) - 1 = n /\ n + 1 \in DOMAIN s
      BY <1>0, <1>4
    <2>2. kept[n + 1] = IF s[n + 1] \in T THEN Append(kept[n], s[n + 1]) ELSE kept[n]
      BY <1>1, <2>1
    <2>3. FirstOf(s, n + 1) = FirstOf(s, n) \cup {s[n + 1]}
      <3>1. 1..(n + 1) = (1..n) \cup {n + 1}
        OBVIOUS
      <3> QED BY <3>1 DEF FirstOf
    <2>4. CASE s[n + 1] \notin T
      BY <1>4, <2>2, <2>3, <2>4
    <2>5. CASE s[n + 1] \in T
      <3> DEFINE k == kept[n]
                 a == s[n + 1]
      <3>1. k \in Seq(S) /\ a \in S /\ kept[n + 1] = Append(k, a)
        BY <1>4, <2>1, <2>2, <2>5
      <3>2. Range(k) = FirstOf(s, n) \cap T /\ (AnswersOnce(s) => AnswersOnce(k))
        BY <1>4
      <3>3. a = s[n + 1] /\ a \in T
        BY <2>5
      <3> HIDE DEF k, a
      <3>4. /\ Append(k, a) \in Seq(S) /\ DOMAIN Append(k, a) = DOMAIN k \cup {Len(k) + 1}
            /\ Len(k) + 1 \notin DOMAIN k
            /\ Append(k, a)[Len(k) + 1] = a
            /\ \A j \in DOMAIN k : Append(k, a)[j] = k[j]
        BY <3>1
      <3>5. Range(Append(k, a)) = Range(k) \cup {a}
        BY <3>4 DEF Range
      <3>6. ASSUME AnswersOnce(s) PROVE AnswersOnce(Append(k, a))
        <4>1. \A j \in DOMAIN k : k[j].question # a.question
          <5>1. ASSUME NEW j \in DOMAIN k PROVE k[j].question # a.question
            <6>1. k[j] \in FirstOf(s, n)
              BY <3>2 DEF Range
            <6>2. PICK l \in 1..n : k[j] = s[l]
              BY <6>1 DEF FirstOf
            <6>3. l \in DOMAIN s /\ l # n + 1
              BY <1>0, <1>4
            <6> QED BY <2>1, <3>3, <3>6, <6>2, <6>3 DEF AnswersOnce
          <5> QED BY <5>1
        <4>2. AnswersOnce(k)
          BY <3>2, <3>6
        <4> QED BY <3>4, <4>1, <4>2 DEF AnswersOnce
      <3> QED BY <2>3, <3>1, <3>2, <3>3, <3>4, <3>5, <3>6
    <2> QED BY <2>4, <2>5
  <1>5. Nat \subseteq U
    <2> HIDE DEF Good
    <2>1. 0 \in U
      BY <1>3
    <2>2. ASSUME NEW n \in Nat, n \in U PROVE n + 1 \in U
      BY <1>0, <1>4, <2>2
    <2> HIDE DEF U
    <2> QED BY <2>1, <2>2, Induct
  <1>6. Good(Len(s))
    BY <1>0, <1>5
  <1>7. FirstOf(s, Len(s)) = Range(s)
    BY <1>0 DEF FirstOf, Range
  <1> QED BY <1>2, <1>6, <1>7
-------------------------------------------------------------------------------
(***************************************************************************)
(* Assessments.  What the two loops of the grader compute, for submissions *)
(* and collections of any length.                                          *)
(***************************************************************************)
SumLoop(f, s, n) == f = [i \in 0..n |-> IF i = 0 THEN 0 ELSE f[i - 1] + s[i]]

LEMMA SumExists ==
    ASSUME NEW s, NEW n \in Nat PROVE \E f : SumLoop(f, s, n)
  <1> DEFINE isLoop(f, m) == f = [i \in 0..m |-> IF i = 0 THEN 0 ELSE f[i - 1] + s[i]]
             U == {m \in Nat : \E f : isLoop(f, m)}
  <1>1. 0 \in U
    <2>1. isLoop([i \in 0..0 |-> 0], 0)
      OBVIOUS
    <2> QED BY <2>1
  <1>2. ASSUME NEW m \in Nat, m \in U PROVE m + 1 \in U
    <2>1. PICK f : isLoop(f, m)
      BY <1>2
    <2> DEFINE g == [i \in 0..(m + 1) |-> IF i \in 0..m THEN f[i] ELSE f[i - 1] + s[i]]
    <2>2. \A i \in 0..m : f[i] = IF i = 0 THEN 0 ELSE f[i - 1] + s[i]
      BY <2>1
    <2>3. \A i \in 0..m : g[i] = f[i]
      OBVIOUS
    <2>4. \A i \in 1..(m + 1) : i - 1 \in 0..m
      OBVIOUS
    <2>5. \A i \in 1..(m + 1) : g[i - 1] + s[i] = f[i - 1] + s[i]
      BY <2>3, <2>4
    <2>6. \A i \in 0..(m + 1) : g[i] = IF i = 0 THEN 0 ELSE g[i - 1] + s[i]
      BY <2>2, <2>3, <2>5
    <2>7. isLoop(g, m + 1)
      BY <2>6
    <2> HIDE DEF g, isLoop
    <2> QED BY <2>7
  <1> HIDE DEF U
  <1>3. n \in U
    BY <1>1, <1>2, Induct
  <1> QED BY <1>3 DEF U, SumLoop

\* The sum is the last of the sums of the first numbers.
PartialSums(f, s) ==
    /\ f[0] = 0
    /\ \A n \in Nat : n + 1 <= Len(s) => f[n + 1] = f[n] + s[n + 1]

LEMMA SumRuns ==
    ASSUME NEW s \in Seq(Int)
    PROVE  \E f : PartialSums(f, s) /\ SumOf(s) = f[Len(s)]
  <1> DEFINE sum[i \in 0..Len(s)] == IF i = 0 THEN 0 ELSE sum[i - 1] + s[i]
  <1>0. Len(s) \in Nat
    OBVIOUS
  <1>1. \A i \in 0..Len(s) : sum[i] = IF i = 0 THEN 0 ELSE sum[i - 1] + s[i]
    <2>1. PICK f : SumLoop(f, s, Len(s))
      BY <1>0, SumExists
    <2>2. sum = [i \in 0..Len(s) |-> IF i = 0 THEN 0 ELSE sum[i - 1] + s[i]]
      BY <2>1, Zenon DEF sum, SumLoop
    <2> HIDE DEF sum
    <2> QED BY <2>2
  <1>2. SumOf(s) = sum[Len(s)]
    BY DEF SumOf
  <1> HIDE DEF sum
  <1>3. sum[0] = 0
    BY <1>0, <1>1
  <1>4. ASSUME NEW n \in Nat, n + 1 <= Len(s) PROVE sum[n + 1] = sum[n] + s[n + 1]
    <2>1. n + 1 \in 0..Len(s) /\ n + 1 # 0 /\ (n + 1) - 1 = n
      BY <1>0, <1>4
    <2> QED BY <1>1, <2>1
  <1>5. PartialSums(sum, s)
    BY <1>3, <1>4 DEF PartialSums
  <1> QED BY <1>2, <1>5

LEMMA PartialsTyped ==
    ASSUME NEW s \in Seq(Int), NEW f, PartialSums(f, s), NEW n \in 0..Len(s)
    PROVE  f[n] \in Int /\ ((\A j \in DOMAIN s : s[j] >= 0) => f[n] >= 0)
  <1> DEFINE Good(i) == f[i] \in Int /\ ((\A j \in DOMAIN s : s[j] >= 0) => f[i] >= 0)
             U == {i \in Nat : i <= Len(s) => Good(i)}
  <1>1. 0 \in U
    BY DEF PartialSums
  <1>2. ASSUME NEW i \in Nat, i \in U PROVE i + 1 \in U
    <2>1. SUFFICES ASSUME i + 1 <= Len(s) PROVE Good(i + 1)
      OBVIOUS
    <2>2. Good(i) /\ f[i + 1] = f[i] + s[i + 1] /\ i + 1 \in DOMAIN s /\ s[i + 1] \in Int
      BY <1>2, <2>1 DEF PartialSums
    <2> QED BY <2>2
  <1> HIDE DEF U
  <1>3. n \in U
    <2>1. n \in Nat
      OBVIOUS
    <2> QED BY <1>1, <1>2, <2>1, Induct
  <1> QED BY <1>3 DEF U

LEMMA AddInt == \A a, b \in Int : a + b \in Int
  OBVIOUS

LEMMA AddBoth == \A a, b, x, y \in Int : a <= b /\ x <= y => a + x <= b + y
  OBVIOUS

LEMMA AddBeside ==
    \A a, b, x, y, d \in Int : a + d <= b /\ x <= y => (a + x) + d <= b + y
  OBVIOUS

LEMMA AddAbove ==
    \A a, b, x, y, d \in Int : a <= b /\ x + d <= y => (a + x) + d <= b + y
  OBVIOUS

LEMMA Chain == \A a, b, c \in Int : a <= b /\ b <= c => a <= c
  OBVIOUS

\* A sequence that is nowhere smaller than another, and at k larger by d, has a sum
\* that is larger by d.
LEMMA SumsCompare ==
    ASSUME NEW u \in Seq(Int), NEW v \in Seq(Int), Len(u) = Len(v),
           NEW k \in DOMAIN u, NEW d \in Int, u[k] + d <= v[k],
           \A j \in DOMAIN u : j # k => u[j] <= v[j]
    PROVE  SumOf(u) + d <= SumOf(v)
  <1>1. PICK f : PartialSums(f, u) /\ SumOf(u) = f[Len(u)]
    BY SumRuns
  <1>2. PICK g : PartialSums(g, v) /\ SumOf(v) = g[Len(v)]
    BY SumRuns
  <1> DEFINE Good(i) == IF i < k THEN f[i] <= g[i] ELSE f[i] + d <= g[i]
             U == {i \in Nat : i <= Len(u) => Good(i)}
  <1>0. k \in 1..Len(u) /\ Len(u) \in Nat
    OBVIOUS
  <1>3. 0 \in U
    BY <1>0, <1>1, <1>2 DEF PartialSums
  <1>4. ASSUME NEW i \in Nat, i \in U PROVE i + 1 \in U
    <2>1. SUFFICES ASSUME i + 1 <= Len(u) PROVE Good(i + 1)
      OBVIOUS
    <2>2. /\ Good(i) /\ i \in 0..Len(u) /\ i \in 0..Len(v)
          /\ i + 1 \in DOMAIN u /\ i + 1 \in DOMAIN v
          /\ u[i + 1] \in Int /\ v[i + 1] \in Int
      BY <1>4, <2>1
    <2>3. f[i + 1] = f[i] + u[i + 1] /\ g[i + 1] = g[i] + v[i + 1]
      BY <1>1, <1>2, <2>1 DEF PartialSums
    <2>4. f[i] \in Int /\ g[i] \in Int
      BY <1>1, <1>2, <2>2, PartialsTyped
    <2>5. IF i + 1 = k THEN u[i + 1] + d <= v[i + 1] ELSE u[i + 1] <= v[i + 1]
      BY <2>2
    <2>6. CASE i + 1 < k
      <3>1. i < k /\ i + 1 # k
        BY <1>0, <2>6
      <3>2. f[i] <= g[i] /\ u[i + 1] <= v[i + 1]
        BY <2>2, <2>5, <3>1
      <3>3. f[i] + u[i + 1] <= g[i] + v[i + 1]
        BY <2>2, <2>4, <3>2, AddBoth
      <3> QED BY <2>3, <2>6, <3>3
    <2>7. CASE i + 1 = k
      <3>1. i < k /\ ~(i + 1 < k)
        BY <1>0, <2>7
      <3>2. f[i] <= g[i] /\ u[i + 1] + d <= v[i + 1]
        BY <2>2, <2>5, <2>7, <3>1
      <3>3. (f[i] + u[i + 1]) + d <= g[i] + v[i + 1]
        BY <2>2, <2>4, <3>2, AddAbove
      <3> QED BY <2>3, <3>1, <3>3
    <2>8. CASE i + 1 > k
      <3>1. ~(i < k) /\ ~(i + 1 < k) /\ i + 1 # k
        BY <1>0, <2>8
      <3>2. f[i] + d <= g[i] /\ u[i + 1] <= v[i + 1]
        BY <2>2, <2>5, <3>1
      <3>3. (f[i] + u[i + 1]) + d <= g[i] + v[i + 1]
        BY <2>2, <2>4, <3>2, AddBeside
      <3> QED BY <2>3, <3>1, <3>3
    <2> QED BY <1>0, <2>6, <2>7, <2>8
  <1> HIDE DEF U
  <1>5. Len(u) \in U
    BY <1>0, <1>3, <1>4, Induct
  <1> QED BY <1>0, <1>1, <1>2, <1>5 DEF U

Masked(t, M) == [j \in DOMAIN t |-> IF j \in M THEN t[j] ELSE 0]

LEMMA MaskedTyped ==
    ASSUME NEW t \in Seq(Int), NEW M
    PROVE  /\ Masked(t, M) \in Seq(Int) /\ Len(Masked(t, M)) = Len(t)
           /\ DOMAIN Masked(t, M) = DOMAIN t
           /\ \A j \in DOMAIN t : Masked(t, M)[j] = IF j \in M THEN t[j] ELSE 0
  BY DEF Masked

LEMMA MaskedIsLess ==
    ASSUME NEW t \in Seq(Int), NEW M, \A j \in DOMAIN t : t[j] >= 0
    PROVE  SumOf(Masked(t, M)) <= SumOf(t)
  <1> DEFINE u == Masked(t, M)
  <1>1. /\ u \in Seq(Int) /\ Len(u) = Len(t) /\ DOMAIN u = DOMAIN t
        /\ \A j \in DOMAIN u : u[j] <= t[j]
    <2>1. \A j \in DOMAIN t : t[j] \in Int
      OBVIOUS
    <2>2. /\ u \in Seq(Int) /\ Len(u) = Len(t) /\ DOMAIN u = DOMAIN t
          /\ \A j \in DOMAIN t : u[j] = IF j \in M THEN t[j] ELSE 0
      BY MaskedTyped
    <2> HIDE DEF u
    <2>3. ASSUME NEW j \in DOMAIN u PROVE u[j] <= t[j]
      <3>1. t[j] \in Int /\ t[j] >= 0 /\ u[j] = IF j \in M THEN t[j] ELSE 0
        BY <2>1, <2>2
      <3> QED BY <3>1
    <2> QED BY <2>2, <2>3
  <1>2. CASE DOMAIN t = {}
    <2>1. u = t
      BY <1>2 DEF Masked
    <2>2. PICK f : PartialSums(f, t) /\ SumOf(t) = f[Len(t)]
      BY SumRuns
    <2>3. SumOf(t) \in Int
      BY <2>2, PartialsTyped
    <2> QED BY <2>1, <2>3
  <1>3. ASSUME NEW k \in DOMAIN t PROVE SumOf(u) <= SumOf(t)
    <2> HIDE DEF u
    <2>1. u[k] + 0 <= t[k]
      <3>1. u[k] \in Int /\ t[k] \in Int
        BY <1>1
      <3> QED BY <1>1, <3>1
    <2>2. SumOf(u) + 0 <= SumOf(t)
      <3>1. u \in Seq(Int) /\ Len(u) = Len(t) /\ k \in DOMAIN u /\ 0 \in Int
        BY <1>1
      <3>2. \A j \in DOMAIN u : j # k => u[j] <= t[j]
        BY <1>1
      <3> QED BY <2>1, <3>1, <3>2, SumsCompare, Zenon
    <2>3. SumOf(u) \in Int
      <3>1. PICK f : PartialSums(f, u) /\ SumOf(u) = f[Len(u)]
        BY <1>1, SumRuns
      <3> QED BY <1>1, <3>1, PartialsTyped
    <2> QED BY <2>2, <2>3
  <1> QED BY <1>2, <1>3

\* What is earned by different members of t adds up to no more than all of t.
LEMMA SumWithin ==
    ASSUME NEW s \in Seq(Int), NEW t \in Seq(Int), NEW f \in [DOMAIN s -> DOMAIN t],
           \A i, j \in DOMAIN s : f[i] = f[j] => i = j,
           \A i \in DOMAIN s : s[i] <= t[f[i]],
           \A j \in DOMAIN t : t[j] >= 0
    PROVE  SumOf(s) <= SumOf(t)
  <1> DEFINE I(n) == {f[i] : i \in 1..n}
  <1>1. PICK g : PartialSums(g, s) /\ SumOf(s) = g[Len(s)]
    BY SumRuns
  <1>2. ASSUME NEW M PROVE SumOf(Masked(t, M)) \in Int
    <2>1. Masked(t, M) \in Seq(Int)
      BY MaskedTyped
    <2> DEFINE u == Masked(t, M)
    <2> HIDE DEF u
    <2>2. u \in Seq(Int)
      BY <2>1 DEF u
    <2>3. PICK h : PartialSums(h, u) /\ SumOf(u) = h[Len(u)]
      BY <2>2, SumRuns
    <2>4. SumOf(u) \in Int
      BY <2>2, <2>3, PartialsTyped
    <2> QED BY <2>4 DEF u
  <1> DEFINE U == {n \in Nat : n <= Len(s) => g[n] <= SumOf(Masked(t, I(n)))}
  <1>0. Len(s) \in Nat /\ DOMAIN s = 1..Len(s)
    OBVIOUS
  <1>3. 0 \in U
    <2> DEFINE u == Masked(t, I(0))
    <2>1. I(0) = {}
      OBVIOUS
    <2>2. u \in Seq(Int) /\ \A j \in DOMAIN u : u[j] >= 0
      BY <2>1, MaskedTyped
    <2> HIDE DEF u
    <2>3. PICK h : PartialSums(h, u) /\ SumOf(u) = h[Len(u)]
      BY <2>2, SumRuns
    <2>4. SumOf(u) >= 0 /\ SumOf(u) \in Int
      BY <2>2, <2>3, PartialsTyped
    <2>5. g[0] = 0
      BY <1>1 DEF PartialSums
    <2> QED BY <2>4, <2>5 DEF u
  <1>4. ASSUME NEW n \in Nat, n \in U PROVE n + 1 \in U
    <2>1. SUFFICES ASSUME n + 1 <= Len(s)
                   PROVE  g[n + 1] <= SumOf(Masked(t, I(n + 1)))
      OBVIOUS
    <2> DEFINE k == f[n + 1]
               u == Masked(t, I(n))
               v == Masked(t, I(n + 1))
    <2>2. n + 1 \in DOMAIN s /\ k \in DOMAIN t /\ n \in 0..Len(s)
      <3>1. n + 1 \in DOMAIN s /\ n \in 0..Len(s)
        BY <1>0, <2>1
      <3> QED BY <3>1
    <2>3. g[n] <= SumOf(u) /\ g[n + 1] = g[n] + s[n + 1] /\ g[n] \in Int /\ s[n + 1] \in Int
      <3>1. g[n] <= SumOf(u)
        <4>1. n <= Len(s)
          BY <1>0, <2>1
        <4> HIDE DEF I
        <4> QED BY <1>4, <4>1
      <3> HIDE DEF U, u, v, k, I
      <3>2. g[n + 1] = g[n] + s[n + 1]
        BY <1>1, <2>1 DEF PartialSums
      <3>3. g[n] \in Int
        BY <1>1, <2>2, PartialsTyped
      <3>4. s[n + 1] \in Int
        BY <2>2
      <3> QED BY <3>1, <3>2, <3>3, <3>4
    <2>4. I(n + 1) = I(n) \cup {k}
      <3>1. 1..(n + 1) = (1..n) \cup {n + 1}
        OBVIOUS
      <3> QED BY <3>1
    <2>5. k \notin I(n)
      <3>1. \A i \in 1..n : i \in DOMAIN s /\ i # n + 1
        BY <1>0, <2>1
      <3> QED BY <2>2, <3>1
    <2>6. /\ u \in Seq(Int) /\ v \in Seq(Int) /\ Len(u) = Len(v) /\ k \in DOMAIN u
          /\ u[k] = 0 /\ v[k] = t[k] /\ t[k] \in Int
          /\ \A j \in DOMAIN u : u[j] \in Int /\ (j # k => u[j] = v[j])
      <3> HIDE DEF I, k
      <3>1. t[k] \in Int
        BY <2>2
      <3>2. /\ u \in Seq(Int) /\ Len(u) = Len(t) /\ DOMAIN u = DOMAIN t
            /\ \A j \in DOMAIN t : u[j] = IF j \in I(n) THEN t[j] ELSE 0
        BY MaskedTyped
      <3>3. /\ v \in Seq(Int) /\ Len(v) = Len(t) /\ DOMAIN v = DOMAIN t
            /\ \A j \in DOMAIN t : v[j] = IF j \in I(n + 1) THEN t[j] ELSE 0
        BY MaskedTyped
      <3> HIDE DEF u, v
      <3>4. \A j \in DOMAIN t : t[j] \in Int
        OBVIOUS
      <3>5. \A j \in DOMAIN u : u[j] \in Int /\ (j # k => u[j] = v[j])
        <4>1. ASSUME NEW j \in DOMAIN t PROVE u[j] \in Int /\ (j # k => u[j] = v[j])
          <5>1. t[j] \in Int /\ (j # k => (j \in I(n + 1) <=> j \in I(n)))
            BY <2>4, <3>4
          <5> QED BY <3>2, <3>3, <5>1
        <4> QED BY <3>2, <4>1
      <3>6. u[k] = 0 /\ v[k] = t[k]
        BY <2>2, <2>4, <2>5, <3>2, <3>3
      <3> QED BY <2>2, <3>1, <3>2, <3>3, <3>5, <3>6
    <2>7. s[n + 1] <= t[k]
      BY <2>2
    <2>8. SumOf(u) \in Int /\ SumOf(v) \in Int
      BY <1>2
    <2> HIDE DEF u, v, k, I
    <2>9. SumOf(u) + t[k] <= SumOf(v)
      <3>1. u[k] + t[k] <= v[k] /\ \A j \in DOMAIN u : j # k => u[j] <= v[j]
        BY <2>6
      <3> QED BY <2>6, <3>1, SumsCompare
    <2>10. g[n] + s[n + 1] <= SumOf(u) + t[k]
      BY <2>3, <2>6, <2>7, <2>8, AddBoth
    <2>11. g[n + 1] <= SumOf(v)
      <3>1. t[k] \in Int
        BY <2>6
      <3>2. g[n] + s[n + 1] \in Int /\ SumOf(u) + t[k] \in Int
        BY <2>3, <2>8, <3>1, AddInt
      <3> QED BY <2>3, <2>8, <2>9, <2>10, <3>2, Chain
    <2> QED BY <2>11 DEF v
  <1>5. Len(s) \in U
    <2> HIDE DEF U
    <2> QED BY <1>0, <1>3, <1>4, Induct
  <1>6. g[Len(s)] <= SumOf(Masked(t, I(Len(s))))
    BY <1>0, <1>5
  <1>7. SumOf(Masked(t, I(Len(s)))) <= SumOf(t)
    BY MaskedIsLess
  <1>8. SumOf(t) \in Int /\ g[Len(s)] \in Int
    <2>1. PICK h : PartialSums(h, t) /\ SumOf(t) = h[Len(t)]
      BY SumRuns
    <2> QED BY <1>0, <1>1, <2>1, PartialsTyped
  <1>9. SumOf(Masked(t, I(Len(s)))) \in Int
    BY <1>2
  <1> HIDE DEF I
  <1> QED BY <1>1, <1>6, <1>7, <1>8, <1>9
-------------------------------------------------------------------------------
(***************************************************************************)
(* Marks: what the grader counts as correct is what matches the key.       *)
(***************************************************************************)
LEMMA RangeFinite ==
    ASSUME NEW s, s \in Seq(Range(s))
    PROVE  /\ IsFiniteSet(Range(s)) /\ Cardinality(Range(s)) <= Len(s)
           /\ Cardinality(Range(s)) \in Nat
           /\ Cardinality(Range(s)) = Len(s) <=> IsInjective(s)
  <1> DEFINE D == 1..Len(s)
  <1>1. Len(s) \in Nat /\ DOMAIN s = D
    OBVIOUS
  <1>2. IsFiniteSet(D) /\ Cardinality(D) = Len(s)
    BY <1>1, FS_Interval
  <1>3. s \in Surjection(D, Range(s))
    BY <1>1 DEF Surjection, Range
  <1>4. s \in Injection(D, Range(s)) <=> IsInjective(s)
    BY <1>1 DEF Injection
  <1> HIDE DEF D
  <1>5. /\ IsFiniteSet(Range(s)) /\ Cardinality(Range(s)) <= Cardinality(D)
        /\ Cardinality(Range(s)) = Cardinality(D) <=> s \in Injection(D, Range(s))
    BY <1>2, <1>3, FS_Surjection
  <1>6. Cardinality(Range(s)) \in Nat
    BY <1>5, FS_CardinalityType
  <1> QED BY <1>2, <1>4, <1>5, <1>6

LEMMA SameMembers ==
    ASSUME NEW c, c \in Seq(Range(c)), IsInjective(c), NEW o, o \in Seq(Range(o))
    PROVE  Len(c) = Len(o) /\ Range(c) \subseteq Range(o) <=>
             IsInjective(o) /\ Range(o) = Range(c)
  <1>1. /\ IsFiniteSet(Range(c)) /\ Cardinality(Range(c)) = Len(c)
        /\ Cardinality(Range(c)) \in Nat
    BY RangeFinite
  <1>2. /\ IsFiniteSet(Range(o)) /\ Cardinality(Range(o)) <= Len(o)
        /\ Cardinality(Range(o)) \in Nat /\ Len(o) \in Nat
        /\ Cardinality(Range(o)) = Len(o) <=> IsInjective(o)
    BY RangeFinite
  <1>3. ASSUME Len(c) = Len(o), Range(c) \subseteq Range(o)
        PROVE  IsInjective(o) /\ Range(o) = Range(c)
    <2>1. /\ Cardinality(Range(c)) <= Cardinality(Range(o))
          /\ Cardinality(Range(o)) = Cardinality(Range(c)) => Range(o) = Range(c)
      BY <1>2, <1>3, FS_Subset
    <2>2. Cardinality(Range(o)) = Cardinality(Range(c))
      BY <1>1, <1>2, <1>3, <2>1
    <2> QED BY <1>1, <1>2, <1>3, <2>1, <2>2
  <1>4. ASSUME IsInjective(o), Range(o) = Range(c)
        PROVE  Len(c) = Len(o) /\ Range(c) \subseteq Range(o)
    BY <1>1, <1>2, <1>4
  <1> QED BY <1>3, <1>4

LEMMA EnoughAccepted ==
    ASSUME NEW A, NEW B, IsFiniteSet(A), NEW n \in Int
    PROVE  Cardinality(A \cap B) >= n <=>
             \E S \in SUBSET A : S \subseteq B /\ Cardinality(S) >= n
  <1>1. IsFiniteSet(A \cap B) /\ Cardinality(A \cap B) \in Nat
    BY FS_Subset, FS_CardinalityType
  <1>2. ASSUME NEW S \in SUBSET A, S \subseteq B, Cardinality(S) >= n
        PROVE  Cardinality(A \cap B) >= n
    <2>1. S \in SUBSET (A \cap B)
      BY <1>2
    <2>2. IsFiniteSet(S) /\ Cardinality(S) <= Cardinality(A \cap B)
      BY <1>1, <2>1, FS_Subset
    <2>3. Cardinality(S) \in Nat
      BY <2>2, FS_CardinalityType
    <2> QED BY <1>1, <1>2, <2>2, <2>3
  <1>3. ASSUME Cardinality(A \cap B) >= n
        PROVE  \E S \in SUBSET A : S \subseteq B /\ Cardinality(S) >= n
    <2>1. A \cap B \in SUBSET A /\ A \cap B \subseteq B
      OBVIOUS
    <2> QED BY <1>3, <2>1
  <1> QED BY <1>2, <1>3

\* A question as the documents have it, and an answer as clients post it.
KeyOk(q) ==
    /\ q.type \in Gradeable /\ q.score \in Int
    /\ q.correct \in Seq(Range(q.correct)) /\ IsInjective(q.correct)
    /\ \A sol \in q.solutions : sol.required \in Int

AnswerOk(ans) ==
    ans.options \in Seq(Range(ans.options)) /\ ans.connections \in Seq(Range(ans.connections))

LEMMA CreditedIfMatching ==
    ASSUME NEW q, KeyOk(q), NEW ans, AnswerOk(ans)
    PROVE  IsAnswerCorrect(q, ans) <=> MatchesKey(q, ans)
  <1> DEFINE o == ans.options
             c == q.correct
             x == ans.connections
  <1>1. /\ o \in Seq(Range(o)) /\ c \in Seq(Range(c)) /\ x \in Seq(Range(x))
        /\ IsInjective(c)
    BY DEF KeyOk, AnswerOk
  <1> HIDE DEF o, c, x
  <1>2. Len(o) = 1 /\ o[1] \in Range(c) <=> \E k \in Range(c) : o = <<k>>
    <2>1. ASSUME Len(o) = 1 PROVE o = <<o[1]>>
      BY <1>1, <2>1
    <2> QED BY <2>1
  <1>3. Len(c) = Len(o) /\ Range(c) \subseteq Range(o) <=>
          IsInjective(o) /\ Range(o) = Range(c)
    BY <1>1, SameMembers
  <1>4. \A sol \in q.solutions :
          SolutionSatisfied(sol, x) <=>
            \E S \in SUBSET Range(x) :
              S \subseteq AcceptedConnections(sol) /\ Cardinality(S) >= sol.required
    <2>1. IsFiniteSet(Range(x))
      BY <1>1, RangeFinite
    <2>2. ASSUME NEW sol \in q.solutions
          PROVE  SolutionSatisfied(sol, x) <=>
                   \E S \in SUBSET Range(x) :
                     S \subseteq AcceptedConnections(sol) /\ Cardinality(S) >= sol.required
      <3>1. sol.required \in Int
        BY DEF KeyOk
      <3> QED BY <2>1, <3>1, EnoughAccepted DEF SolutionSatisfied
    <2> QED BY <2>2
  <1>5. (q.type = "single" /\ SingleChoiceCorrect(q, ans)) <=>
          (q.type = "single" /\ \E k \in Range(q.correct) : ans.options = <<k>>)
    BY <1>2 DEF SingleChoiceCorrect, o, c
  <1>6. (q.type = "multiple" /\ MultipleChoiceCorrect(q, ans)) <=>
          (q.type = "multiple" /\ IsInjective(ans.options)
                               /\ Range(ans.options) = Range(q.correct))
    BY <1>3 DEF MultipleChoiceCorrect, o, c
  <1>7. (\E sol \in q.solutions : SolutionSatisfied(sol, ans.connections)) <=>
          (\E sol \in q.solutions : \E S \in SUBSET Range(ans.connections) :
             S \subseteq AcceptedConnections(sol) /\ Cardinality(S) >= sol.required)
    BY <1>4 DEF x
  <1> QED BY <1>5, <1>6, <1>7, Zenon DEF IsAnswerCorrect, MatchesKey

\* A collection whose questions have different ids.
Distinct(qc) == \A i, j \in DOMAIN qc : qc[i].id = qc[j].id => i = j

LEMMA IndexIsExact ==
    ASSUME NEW qc, qc \in Seq(Range(qc)), Distinct(qc)
    PROVE  /\ DOMAIN QuestionsById(qc) = {q.id : q \in Range(qc)}
           /\ \A q \in Range(qc) : QuestionsById(qc)[q.id] = q
  <1>1. DOMAIN qc \subseteq Nat
    OBVIOUS
  <1>2. ASSUME NEW i \in DOMAIN qc PROVE Max({j \in DOMAIN qc : qc[j].id = qc[i].id}) = i
    <2>1. {j \in DOMAIN qc : qc[j].id = qc[i].id} = {i}
      BY <1>2 DEF Distinct
    <2>2. i \in Nat
      BY <1>1, <1>2
    <2>3. \A y \in {i} : i >= y
      BY <2>2
    <2>4. Max({i}) = i
      BY <2>3 DEF Max
    <2> QED BY <2>1, <2>4
  <1>3. DOMAIN QuestionsById(qc) = {qc[i].id : i \in DOMAIN qc}
    BY DEF QuestionsById
  <1>4. {qc[i].id : i \in DOMAIN qc} = {q.id : q \in Range(qc)}
    BY DEF Range
  <1>5. ASSUME NEW i \in DOMAIN qc PROVE QuestionsById(qc)[qc[i].id] = qc[i]
    <2>1. qc[i].id \in {qc[j].id : j \in DOMAIN qc}
      OBVIOUS
    <2>2. QuestionsById(qc)[qc[i].id] =
            qc[Max({j \in DOMAIN qc : qc[j].id = qc[i].id})]
      BY <2>1 DEF QuestionsById
    <2> QED BY <1>2, <2>2
  <1> QED BY <1>3, <1>4, <1>5 DEF Range

LEMMA GradeMarks ==
    ASSUME NEW qc, qc \in Seq(Range(qc)), Distinct(qc), \A q \in Range(qc) : KeyOk(q),
           NEW s, s \in Seq(Range(s)), \A ans \in Range(s) : AnswerOk(ans),
           NEW passing, NEW practice \in BOOLEAN
    PROVE  MarkedByKey(Range(qc), s, practice, Grade(qc, passing, practice, s))
  <1> DEFINE byId   == QuestionsById(qc)
             bank   == Range(qc)
             wanted == {ans \in Range(s) : \E q \in bank : q.id = ans.question}
             known  == Selected(s, wanted)
             scores == [i \in DOMAIN known |->
                          [question |-> known[i].question,
                           earned   |-> ScoreOf(byId[known[i].question], known[i])]]
             marks  == [i \in DOMAIN scores |-> scores[i].earned]
             worth  == [j \in DOMAIN qc |-> qc[j].score]
             result == Grade(qc, passing, practice, s)
  <1>1. DOMAIN byId = {q.id : q \in bank} /\ \A q \in bank : byId[q.id] = q
    BY IndexIsExact
  <1>2. {ans \in Range(s) : ans.question \in DOMAIN byId
                              /\ byId[ans.question].type \in Gradeable} = wanted
    <2>1. ASSUME NEW ans
          PROVE  ans.question \in DOMAIN byId /\ byId[ans.question].type \in Gradeable <=>
                   \E q \in bank : q.id = ans.question
      <3> HIDE DEF byId, bank
      <3>1. \A q \in bank : q.type \in Gradeable
        BY DEF KeyOk, bank
      <3> QED BY <1>1, <3>1
    <2> HIDE DEF byId, bank
    <2> QED BY <2>1
  <1>3. /\ result.scores = scores /\ result.earned = SumOf(marks)
        /\ result.total = SumOf(worth)
        /\ result.revealed =
             IF practice THEN {known[i].question : i \in DOMAIN known} ELSE {}
    BY <1>2, Zenon DEF Grade, TotalScore
  <1>4. /\ known \in Seq(Range(s)) /\ Range(known) = Range(s) \cap wanted
        /\ AnswersOnce(s) => AnswersOnce(known)
    BY SelectedFacts
  <1> HIDE DEF byId, known, result
  <1>5. ASSUME NEW i \in DOMAIN known
        PROVE  /\ AnswerOk(known[i])
               /\ \E q \in bank : q.id = known[i].question
    <2>1. known[i] \in Range(known)
      BY DEF Range
    <2> QED BY <1>4, <2>1
  <1>6. ASSUME NEW i \in DOMAIN known, NEW q \in bank, q.id = known[i].question
        PROVE  scores[i] = [question |-> q.id,
                            earned |-> IF MatchesKey(q, known[i]) THEN q.score ELSE 0]
    <2>1. byId[known[i].question] = q
      BY <1>1, <1>6
    <2>2. IsAnswerCorrect(q, known[i]) <=> MatchesKey(q, known[i])
      BY <1>5, CreditedIfMatching
    <2>3. ScoreOf(q, known[i]) = IF MatchesKey(q, known[i]) THEN q.score ELSE 0
      BY <2>2, Zenon DEF ScoreOf
    <2> HIDE DEF bank
    <2> QED BY <1>6, <2>1, <2>3
  <1>7. Len(scores) = Len(known) /\ DOMAIN scores = DOMAIN known
    <2>1. DOMAIN known = 1..Len(known) /\ Len(known) \in Nat
      BY <1>4
    <2> HIDE DEF byId
    <2> QED BY <2>1
  <1>8. ASSUME AnswersOnce(s), \A q \in bank : q.score >= 0
        PROVE  SumOf(marks) <= SumOf(worth)
    <2> DEFINE at == [i \in DOMAIN known |->
                        CHOOSE j \in DOMAIN qc : qc[j].id = known[i].question]
    <2>1. ASSUME NEW i \in DOMAIN known
          PROVE  /\ at[i] \in DOMAIN qc /\ qc[at[i]].id = known[i].question
                 /\ marks[i] \in Int /\ marks[i] <= worth[at[i]]
      <3>1. \E j \in DOMAIN qc : qc[j].id = known[i].question
        BY <1>5 DEF Range
      <3>2. at[i] \in DOMAIN qc /\ qc[at[i]].id = known[i].question
        BY <3>1
      <3> DEFINE q == qc[at[i]]
      <3> HIDE DEF at
      <3>3. q \in bank
        BY <3>2 DEF Range
      <3> HIDE DEF bank
      <3>4. q.score \in Int /\ q.score >= 0
        BY <1>8, <3>3 DEF KeyOk, bank
      <3>5. q.id = known[i].question
        BY <3>2
      <3>6. scores[i].earned = IF MatchesKey(q, known[i]) THEN q.score ELSE 0
        <4> HIDE DEF q, scores
        <4>1. scores[i] = [question |-> q.id,
                           earned |-> IF MatchesKey(q, known[i]) THEN q.score ELSE 0]
          BY <1>6, <3>3, <3>5
        <4> QED BY <4>1
      <3>7. marks[i] = scores[i].earned
        BY <1>7
      <3>8. worth[at[i]] = q.score
        BY <3>2
      <3> HIDE DEF marks, worth, q, scores
      <3> QED BY <3>2, <3>4, <3>6, <3>7, <3>8 DEF q
    <2>2. ASSUME NEW i \in DOMAIN known, NEW j \in DOMAIN known, at[i] = at[j] PROVE i = j
      <3>1. known[i].question = known[j].question
        BY <2>1, <2>2
      <3> QED BY <1>4, <1>8, <3>1 DEF AnswersOnce
    <2>3. DOMAIN marks = DOMAIN known /\ DOMAIN worth = DOMAIN qc
      BY <1>7
    <2>4. marks \in Seq(Int)
      <3>1. DOMAIN known = 1..Len(known) /\ Len(known) \in Nat
        BY <1>4
      <3>2. \A i \in DOMAIN known : marks[i] \in Int
        BY <2>1
      <3> HIDE DEF scores
      <3> QED BY <1>7, <3>1, <3>2
    <2>5. worth \in Seq(Int) /\ \A j \in DOMAIN worth : worth[j] >= 0
      <3>1. DOMAIN qc = 1..Len(qc) /\ Len(qc) \in Nat
        OBVIOUS
      <3>2. \A j \in DOMAIN qc : qc[j].score \in Int /\ qc[j].score >= 0
        BY <1>8 DEF KeyOk, Range
      <3> QED BY <3>1, <3>2
    <2>6. at \in [DOMAIN known -> DOMAIN qc]
      BY <2>1
    <2> HIDE DEF marks, worth, at
    <2> QED BY <2>1, <2>2, <2>3, <2>4, <2>5, <2>6, SumWithin
  <1> HIDE DEF marks, worth, scores
  <1>9. \A i \in DOMAIN known : \A q \in bank :
          q.id = known[i].question =>
            result.scores[i] =
              [question |-> q.id,
               earned   |-> IF MatchesKey(q, known[i]) THEN q.score ELSE 0]
    BY <1>3, <1>6
  <1>10. AnswersOnce(s) /\ (\A q \in bank : q.score >= 0) => result.earned <= result.total
    BY <1>3, <1>8
  <1> QED BY <1>3, <1>7, <1>9, <1>10, Zenon DEF MarkedByKey, known, result

-------------------------------------------------------------------------------
(***************************************************************************)
(* The collection of a session: its questions, each once, in the order of  *)
(* the document.                                                           *)
(***************************************************************************)
LEMMA InOrderFacts ==
    ASSUME NEW S, IsFiniteSet(S), S \subseteq Nat \X Nat
    PROVE  /\ InOrder(S) \in Seq(S) /\ Range(InOrder(S)) = S
           /\ \A i, j \in DOMAIN InOrder(S) : InOrder(S)[i] = InOrder(S)[j] => i = j
  <1> DEFINE n == Cardinality(S)
             below(p) == {q \in S : Before(q, p)}
             rank == [p \in S |-> Cardinality(below(p))]
  <1>1. n \in Nat
    BY FS_CardinalityType
  <1>2. \A p, q \in S : ~Before(p, p) /\ (p # q => Before(p, q) \/ Before(q, p))
    <2>1. ASSUME NEW p \in Nat \X Nat, NEW q \in Nat \X Nat
          PROVE  ~Before(p, p) /\ (p # q => Before(p, q) \/ Before(q, p))
      BY DEF Before
    <2> QED BY <2>1
  <1>3. \A p, q, r \in S : Before(p, q) /\ Before(q, r) => Before(p, r)
    <2>1. ASSUME NEW p \in Nat \X Nat, NEW q \in Nat \X Nat, NEW r \in Nat \X Nat,
                 Before(p, q), Before(q, r)
          PROVE  Before(p, r)
      BY <2>1 DEF Before
    <2> QED BY <2>1
  <1>4. ASSUME NEW p \in S PROVE IsFiniteSet(below(p)) /\ rank[p] \in 0..(n - 1)
    <2>1. below(p) \in SUBSET (S \ {p})
      BY <1>2
    <2>2. IsFiniteSet(S \ {p}) /\ Cardinality(S \ {p}) = n - 1
      BY FS_RemoveElement
    <2> HIDE DEF below
    <2>3. IsFiniteSet(below(p)) /\ Cardinality(below(p)) <= n - 1
      BY <2>1, <2>2, FS_Subset
    <2>4. Cardinality(below(p)) \in Nat
      BY <2>3, FS_CardinalityType
    <2> QED BY <1>1, <2>3, <2>4
  <1>5. ASSUME NEW p \in S, NEW q \in S, Before(p, q) PROVE rank[p] # rank[q]
    <2>1. below(p) \in SUBSET below(q) /\ below(p) # below(q)
      BY <1>2, <1>3, <1>5
    <2> HIDE DEF below
    <2>2. Cardinality(below(p)) # Cardinality(below(q))
      BY <1>4, <2>1, FS_Subset
    <2> QED BY <2>2
  <1>6. ASSUME NEW p \in S, NEW q \in S, rank[p] = rank[q] PROVE p = q
    <2> HIDE DEF rank
    <2> QED BY <1>2, <1>5, <1>6
  <1>7. \A i \in 0..(n - 1) : \E p \in S : rank[p] = i
    <2> DEFINE T == 0..(n - 1)
    <2>1. IsFiniteSet(T) /\ Cardinality(T) = n
      <3> HIDE DEF n
      <3>1. 0 \in Int /\ n - 1 \in Int /\ (IF 0 > n - 1 THEN 0 ELSE (n - 1) - 0 + 1) = n
        BY <1>1
      <3>2. IsFiniteSet(0..(n - 1)) /\ Cardinality(0..(n - 1)) = n
        BY <3>1, FS_Interval
      <3> QED BY <3>2
    <2>2. rank \in Injection(S, T)
      <3>1. rank \in [S -> T]
        BY <1>4
      <3>2. IsInjective(rank)
        BY <1>6 DEF IsInjective
      <3> QED BY <3>1, <3>2 DEF Injection
    <2> HIDE DEF T, rank
    <2>3. rank \in Surjection(S, T)
      BY <2>1, <2>2, FS_Injection
    <2> QED BY <2>3 DEF Surjection, T
  <1> DEFINE seq == InOrder(S)
  <1>8. DOMAIN seq = 1..n /\ seq = [i \in 1..n |-> seq[i]]
    <2>1. seq = [i \in 1..n |-> CHOOSE p \in S : Cardinality(below(p)) = i - 1]
      BY Zenon DEF InOrder
    <2> HIDE DEF below, seq
    <2> QED BY <2>1
  <1>9. ASSUME NEW i \in 1..n PROVE seq[i] \in S /\ rank[seq[i]] = i - 1
    <2>1. i - 1 \in 0..(n - 1)
      BY <1>1
    <2>2. PICK p \in S : rank[p] = i - 1
      BY <1>7, <2>1
    <2>3. Cardinality(below(p)) = i - 1
      BY <2>2
    <2>4. seq[i] = CHOOSE x \in S : Cardinality(below(x)) = i - 1
      BY DEF InOrder
    <2> HIDE DEF below, seq
    <2>5. seq[i] \in S /\ Cardinality(below(seq[i])) = i - 1
      BY <2>3, <2>4
    <2> QED BY <2>5
  <1> HIDE DEF seq
  <1>10. seq \in Seq(S)
    <2> HIDE DEF rank, n
    <2>1. \A i \in 1..n : seq[i] \in S
      BY <1>9
    <2> QED BY <1>1, <1>8, <2>1
  <1>11. ASSUME NEW p \in S PROVE p \in Range(seq)
    <2> HIDE DEF rank, n
    <2>1. rank[p] + 1 \in 1..n /\ (rank[p] + 1) - 1 = rank[p]
      <3>1. rank[p] \in 0..(n - 1)
        BY <1>4
      <3> QED BY <1>1, <3>1
    <2>2. seq[rank[p] + 1] = p
      BY <1>6, <1>9, <2>1
    <2> QED BY <1>8, <2>1, <2>2 DEF Range
  <1>12. Range(seq) \subseteq S
    BY <1>8, <1>9 DEF Range
  <1>13. \A i, j \in DOMAIN seq : seq[i] = seq[j] => i = j
    <2> HIDE DEF rank
    <2>1. ASSUME NEW i \in 1..n, NEW j \in 1..n, seq[i] = seq[j] PROVE i = j
      <3>1. i - 1 = j - 1
        BY <1>9, <2>1
      <3> QED BY <1>1, <3>1
    <2> QED BY <1>8, <2>1
  <1> QED BY <1>10, <1>11, <1>12, <1>13 DEF seq

CollectionOk(qc, bank) ==
    /\ qc \in Seq(Range(qc)) /\ Distinct(qc)
    /\ Range(qc) = bank
    /\ \A q \in Range(qc) : KeyOk(q)

LEMMA CollectionFacts ==
    ASSUME IdsAreUnique, NEW sess, IsSession(sess)
    PROVE  CollectionOk(CollectionOfSession(sess),
                        {Bank[sess.exam][p] : p \in Range(sess.paper)})
  <1> DEFINE e == sess.exam
             S == Range(sess.paper)
             places == InOrder(S)
             qc == CollectionOfSession(sess)
  <1>1. e \in Exams /\ S \subseteq AllPositions(e)
    BY DEF IsSession, Range
  <1> HIDE DEF e, S
  <1>2. /\ IsFiniteSet(AllPositions(e)) /\ AllPositions(e) \subseteq Places
        /\ \A p \in AllPositions(e) : QuestionAt(e, p).type \in QuestionTypes
    <2>1. DOMAIN Catalogue[e].collections \in SUBSET DOMAIN Catalogue[e].collections
      OBVIOUS
    <2> QED BY <1>1, <2>1, PositionsFacts DEF AllPositions
  <1>3. IsFiniteSet(S) /\ S \subseteq Nat \X Nat
    BY <1>1, <1>2, FS_Subset DEF Places
  <1>4. /\ places \in Seq(S) /\ Range(places) = S
        /\ \A i, j \in DOMAIN places : places[i] = places[j] => i = j
    BY <1>3, InOrderFacts
  <1>5. qc = [i \in DOMAIN places |-> Bank[e][places[i]]]
    BY Zenon DEF CollectionOfSession, e, S
  <1> HIDE DEF places, qc
  <1>6. DOMAIN places = 1..Len(places) /\ Len(places) \in Nat
    BY <1>4
  <1>7. Range(qc) = {Bank[e][p] : p \in S}
    <2>1. DOMAIN qc = DOMAIN places /\ \A i \in DOMAIN places : qc[i] = Bank[e][places[i]]
      BY <1>5
    <2>2. S = {places[i] : i \in DOMAIN places}
      BY <1>4 DEF Range
    <2>3. Range(qc) = {qc[i] : i \in DOMAIN places}
      BY <2>1 DEF Range
    <2> QED BY <2>1, <2>2, <2>3
  <1>8. qc \in Seq(Range(qc))
    <2>1. \A i \in DOMAIN qc : qc[i] \in Range(qc)
      BY DEF Range
    <2>2. DOMAIN qc = 1..Len(places) /\ qc = [i \in 1..Len(places) |-> qc[i]]
      BY <1>5, <1>6
    <2> QED BY <1>6, <2>1, <2>2
  <1>9. Distinct(qc)
    <2>1. SUFFICES ASSUME NEW i \in DOMAIN qc, NEW j \in DOMAIN qc, qc[i].id = qc[j].id
                   PROVE  i = j
      BY DEF Distinct
    <2>2. i \in DOMAIN places /\ j \in DOMAIN places
      BY <1>5
    <2>3. places[i] \in AllPositions(e) /\ places[j] \in AllPositions(e)
      BY <1>1, <1>4, <2>2 DEF Range
    <2>4. qc[i] = Bank[e][places[i]] /\ qc[j] = Bank[e][places[j]]
      BY <1>5, <2>2
    <2>5. CacheKey(e, places[i]) = CacheKey(e, places[j])
      BY <1>1, <2>1, <2>3, <2>4, BankAssumption DEF CacheKey
    <2> QED BY <1>1, <1>4, <2>2, <2>3, <2>5 DEF IdsAreUnique
  <1>10. ASSUME NEW p \in S PROVE KeyOk(Bank[e][p])
    <2>1. p \in AllPositions(e) /\ QuestionAt(e, p).type \in Gradeable
      BY <1>1, <1>2 DEF QuestionTypes, Gradeable
    <2> QED BY <1>1, <2>1, BankAssumption DEF KeyOk
  <1>11. CollectionOk(qc, {Bank[e][p] : p \in S})
    BY <1>7, <1>8, <1>9, <1>10 DEF CollectionOk
  <1> QED BY <1>11 DEF qc, e, S

LEMMA AssessedMarked ==
    ASSUME IdsAreUnique, TypeOK, NEW id \in DOMAIN sessionsStore, NEW s \in Answers,
           NEW a, a = Assessed(id, s)
    PROVE  MarkedByKey({Bank[a.exam][p] : p \in a.served}, a.submission,
                       Catalogue[a.exam].category = "practice", a.result)
  <1>1. PICK sess : sess = sessionsStore[id] /\ IsSession(sess)
    BY TypeFacts
  <1> DEFINE qc == CollectionOfSession(sess)
             practice == Catalogue[sess.exam].category = "practice"
             passing == PassingScore[sess.exam]
  <1>2. /\ a.exam = sess.exam /\ a.served = Range(sess.paper) /\ a.submission = s
        /\ a.result = Grade(qc, passing, practice, s)
    BY <1>1 DEF Assessed, Assessment
  <1>3. CollectionOk(qc, {Bank[sess.exam][p] : p \in Range(sess.paper)})
    BY <1>1, CollectionFacts
  <1>4. s \in Seq(Range(s)) /\ \A ans \in Range(s) : AnswerOk(ans)
    BY MergingAssumption DEF AnswerOk
  <1>5. practice \in BOOLEAN
    OBVIOUS
  <1> HIDE DEF qc, practice, passing
  <1>6. MarkedByKey(Range(qc), s, practice, Grade(qc, passing, practice, s))
    BY <1>3, <1>4, <1>5, GradeMarks DEF CollectionOk
  <1> QED BY <1>2, <1>3, <1>6 DEF practice, CollectionOk

\* Only a submission the server graded is recorded.
AssessesOrNot ==
    \/ assessed' = assessed
    \/ \E id \in DOMAIN sessionsStore, s \in Answers : assessed' = Assessed(id, s)

LEMMA AssessedStep ==
    ASSUME TypeOK, CInv, [ClientNext]_allVars
    PROVE  AssessesOrNot
  <1>1. ASSUME NEW t \in Tabs, NEW s \in Slots, Posts(t, s) PROVE AssessesOrNot
    <2>1. PICK tab, save : tab = tabs[t] /\ save = tab.saves[s]
      OBVIOUS
    <2>2. /\ tab.page \in DOMAIN sessionsStore /\ save # None /\ save.merged # None
          /\ assessed' = Assessed(tab.page, save.merged)
      BY <1>1, <2>1 DEF Posts, HandleSubmitAnswer, SubmitAnswer, Owns
    <2>3. save.merged \in Answers
      BY <2>1, <2>2, TabFacts DEF IsSave
    <2> QED BY <2>2, <2>3 DEF AssessesOrNot
  <1>2. ASSUME NEW t \in Tabs, NavigationSteps(t) PROVE AssessesOrNot
    <2>1. ASSUME NEW index, PressMove(t, index) PROVE AssessesOrNot
      BY <2>1 DEF PressMove, StartMove, AssessesOrNot
    <2>2. ASSUME NEW i, ReadAnswered(t, i) PROVE AssessesOrNot
      BY <2>2 DEF ReadAnswered, AssessesOrNot
    <2>3. ASSUME NEW i, ReadLost(t, i) PROVE AssessesOrNot
      BY <2>3 DEF ReadLost, AssessesOrNot
    <2>4. ASSUME NEW i, SeekAnswered(t, i) PROVE AssessesOrNot
      BY <2>4 DEF SeekAnswered, AssessesOrNot
    <2>5. ASSUME NEW i, SeekLost(t, i) PROVE AssessesOrNot
      BY <2>5 DEF SeekLost, AssessesOrNot
    <2>6. ASSUME NEW i, MoveFails(t, i) PROVE AssessesOrNot
      BY <2>6 DEF MoveFails, AssessesOrNot
    <2> QED BY <1>2, <2>1, <2>2, <2>3, <2>4, <2>5, <2>6 DEF NavigationSteps
  <1>3. ASSUME NEW t \in Tabs, AnswerSteps(t) PROVE AssessesOrNot
    <2>1. ASSUME NEW s, NEW ans, NEW checkOnly, PressSubmit(t, s, ans, checkOnly)
          PROVE  AssessesOrNot
      BY <2>1 DEF PressSubmit, AssessesOrNot
    <2>2. ASSUME FetchAnswered(t) \/ FetchArrives(t) PROVE AssessesOrNot
      BY <2>2 DEF FetchAnswered, FetchArrives, AssessesOrNot
    <2>3. ASSUME NEW s, PostAnswered(t, s) PROVE AssessesOrNot
      BY <2>3 DEF PostAnswered, AssessesOrNot
    <2>4. ASSUME NEW s, SaveFails(t, s) PROVE AssessesOrNot
      BY <2>4 DEF SaveFails, AssessesOrNot
    <2> QED BY <1>1, <1>3, <2>1, <2>2, <2>3, <2>4 DEF AnswerSteps
  <1>4. ASSUME NEW t \in Tabs, SessionSteps(t) PROVE AssessesOrNot
    <2>1. ASSUME NEW e, NEW options, NEW accept, Create(t, e, options, accept) PROVE AssessesOrNot
      BY <2>1 DEF Create, AssessesOrNot
    <2>2. ASSUME NEW id, Load(t, id) \/ EndAnswered(t, id) \/ EndLost(t, id) PROVE AssessesOrNot
      BY <2>2 DEF Load, EndAnswered, EndLost, Ends, AssessesOrNot
    <2>3. ASSUME Leave(t) \/ Open(t) \/ PressEnd(t) \/ CancelEnd(t) PROVE AssessesOrNot
      BY <2>3 DEF Leave, Open, PressEnd, CancelEnd, AssessesOrNot
    <2>4. ASSUME SummaryAnswered(t) \/ SummaryArrives(t) PROVE AssessesOrNot
      BY <2>4 DEF SummaryAnswered, SummaryArrives, AssessesOrNot
    <2> QED BY <1>4, <2>1, <2>2, <2>3, <2>4 DEF SessionSteps
  <1>5. ASSUME NEW u, NEW i, DeleteTracking(u, i) PROVE AssessesOrNot
    BY <1>5 DEF DeleteTracking, AssessesOrNot
  <1>6. ASSUME NEW u, NEW id \in DOMAIN sessionsStore, NEW s \in budget.raw, NEW checkOnly,
               RawPost(u, id, s, checkOnly)
        PROVE  AssessesOrNot
    <2>1. s \in Answers
      BY DEF CInv, BudgetKept, Budget
    <2> QED BY <1>6, <2>1 DEF RawPost, AssessesOrNot
  <1>7. CASE UNCHANGED allVars
    BY <1>7 DEF allVars, clientVars, AssessesOrNot
  <1>8. budget.tabs \subseteq Tabs
    BY DEF CInv, BudgetKept, Budget
  <1>9. ASSUME NEW t \in budget.tabs,
               SessionSteps(t) \/ NavigationSteps(t) \/ AnswerSteps(t)
        PROVE  AssessesOrNot
    BY <1>2, <1>3, <1>4, <1>8, <1>9
  <1>10. ASSUME NEW u \in Users, NEW i \in DOMAIN reports, DeleteTracking(u, i)
         PROVE  AssessesOrNot
    BY <1>5, <1>10
  <1>11. CASE \E t \in budget.tabs :
                NavigationSteps(t) \/ AnswerSteps(t) \/ SessionSteps(t)
    BY <1>9, <1>11
  <1>12. CASE \E u \in Users, i \in DOMAIN reports : DeleteTracking(u, i)
    BY <1>10, <1>12
  <1>13. CASE \E u \in Users, id \in DOMAIN sessionsStore, s \in budget.raw,
                 checkOnly \in BOOLEAN : RawPost(u, id, s, checkOnly)
    BY <1>6, <1>13
  <1> QED BY <1>7, <1>11, <1>12, <1>13 DEF ClientNext

LEMMA SoundStep ==
    ASSUME IdsAreUnique, TypeOK, CInv, AssessmentIsSound, [ClientNext]_allVars
    PROVE  AssessmentIsSound'
  <1>1. CASE assessed' = assessed
    BY <1>1 DEF AssessmentIsSound
  <1>2. ASSUME NEW id \in DOMAIN sessionsStore, NEW s \in Answers, assessed' = Assessed(id, s)
        PROVE  AssessmentIsSound'
    <2>1. PICK a : a = Assessed(id, s)
      OBVIOUS
    <2>2. MarkedByKey({Bank[a.exam][p] : p \in a.served}, a.submission,
                      Catalogue[a.exam].category = "practice", a.result)
      BY <2>1, AssessedMarked
    <2>3. assessed' = a
      BY <1>2, <2>1
    <2> QED BY <2>2, <2>3 DEF AssessmentIsSound
  <1> QED BY <1>1, <1>2, AssessedStep DEF AssessesOrNot

\* Whatever is submitted, by pages or by others, an assessment credits exactly the answers
\* that match the key of a question of the session: if the ids of an exam's questions are
\* unique, so that an answer names its question.
THEOREM AssessmentsAreSound ==
    ASSUME IdsAreUnique
    PROVE  ClientSpec => []AssessmentIsSound
  <1>1. ClientInit => AssessmentIsSound
    BY DEF ClientInit, AssessmentIsSound
  <1>2. TypeOK /\ CInv /\ AssessmentIsSound /\ [ClientNext]_allVars => AssessmentIsSound'
    BY SoundStep
  <1> QED BY <1>1, <1>2, ClientInvariant, PTL DEF ClientSpec
===============================================================================
