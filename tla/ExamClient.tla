------------------------------ MODULE ExamClient ------------------------------
(***************************************************************************)
(* The exam page of the web client (web/exam-lab/src/app/examsession and   *)
(* the hooks it uses) in front of the API: several tabs of several users,  *)
(* on an unreliable network.                                               *)
(*                                                                         *)
(* A tab is what a browser tab keeps of one session: the entries of the    *)
(* QueryClient, which outlive the page, and the page itself while it is    *)
(* shown.  Leaving the page for the list and coming back keeps the former, *)
(* requests in flight included; only a reload starts with empty caches.    *)
(* (A browser tab that shows two sessions in turn is two tabs here, for    *)
(* nothing of one session is read by the page of the other.)               *)
(*                                                                         *)
(* A request is answered, refused, lost before it reaches the server, or   *)
(* carried out with its response lost.  The execution of a submission and  *)
(* of a fetch is one step, the arrival of its response another, for what   *)
(* they put into the caches may be older than what is there.  Those of a   *)
(* navigation are one step: only another navigation of the tab could tell  *)
(* them apart, and two at once may show any label anyway.                  *)
(*                                                                         *)
(* What a user selects is any answer of Choices; what is restored on       *)
(* screen from the saved answer is left out, so the user may select        *)
(* anything at any time the page allows input.                             *)
(***************************************************************************)
EXTENDS ExamApi

CONSTANTS
    Tabs,
    UserOf,          \* tab -> user
    UserAnswers,     \* question id -> the answers a user may give to it
    None,            \* nothing pending, nothing checked
    Cold,            \* my_answer is not in the cache of a tab
    Budgets          \* bounds of one behaviour, see Budget

Slots == 1..2        \* bound: submissions of a tab in flight

\* What a behaviour may contain, and how much of it.
Budget == [tabs : SUBSET Tabs, exams : SUBSET Exams, options : SUBSET OptionChoices,
           config : Configurations, starts : Nat, loads : Nat, moves : Nat, saves : Nat,
           refetches : Nat, losses : Nat, ends : Nat, raw : SUBSET Answers]

ASSUME TabsAssumption == UserOf \in [Tabs -> Users]
ASSUME BudgetsAssumption == Budgets \subseteq Budget

VARIABLES
    tabs,      \* tab -> the state of its page
    budget,    \* what the bounds still allow
    assessed   \* the last assessment the API returned, and of what

\* History, per tab: the index its cursor should be at, whether its labels may have
\* drifted, and whether a late summary of the unstarted session has replaced a started one;
\* and the answers it was told are saved, with the one its last executed save carried.
VARIABLES course, told

clientVars == <<tabs, budget, assessed, course, told>>
allVars == <<apiVars, clientVars>>

Allowed(thing) == budget[thing] > 0
Spend(thing) == budget' = [budget EXCEPT ![thing] = @ - 1]
SpendTwo(a, b) == budget' = [budget EXCEPT ![a] = @ - 1, ![b] = @ - 1]
-------------------------------------------------------------------------------
(***************************************************************************)
(* The page of a tab.                                                      *)
(***************************************************************************)
NoPosition == [index |-> -1, question |-> NoQuestion]

\* A page that has just loaded a session.
LoadedPage(id, excerpt) ==
    [page     |-> id,           \* the session, 0 before one is opened
     shown    |-> TRUE,         \* its page is on display, not the list of sessions
     summary  |-> excerpt,      \* the cached query "examsession"
     news     |-> None,         \* the response to a refetch of it, on its way
     answers  |-> Cold,         \* the cached query "myanswer"
     refetch  |-> None,         \* the response to a fetch of it, on its way
     moves    |-> <<>>,         \* navigations in flight
     saves    |-> [s \in Slots |-> None],   \* submissions in flight
     position |-> NoPosition,   \* navigate.data
     watched  |-> FALSE,        \* is the last of the moves the mutation on display?
     cursor   |-> NoCursor,     \* cursorRef
     checked  |-> None,         \* the answer whose assessment is on display
     confirm  |-> FALSE]        \* the dialog that confirms the end is open

ListPage ==
    [LoadedPage(0, [exam |-> None, index |-> -1, question |-> NoQuestion, questions |-> 0,
                    seekable |-> FALSE, practice |-> FALSE]) EXCEPT !.shown = FALSE]

\* The state of a component goes with it, the mutations it started go on without it.
LeftPage(tab) ==
    [tab EXCEPT
       !.shown = FALSE, !.position = NoPosition, !.watched = FALSE, !.cursor = NoCursor,
       !.checked = None, !.confirm = FALSE,
       !.moves = [i \in DOMAIN tab.moves |-> [tab.moves[i] EXCEPT !.here = FALSE]],
       !.saves = [s \in Slots |->
                    IF tab.saves[s] = None \/ tab.saves[s].of = "nobody" THEN tab.saves[s]
                    ELSE [tab.saves[s] EXCEPT !.of = "tab"]]]

\* On a reload nobody waits any more, but a submission that was sent may yet be executed.
Stray(save) ==
    IF save = None \/ save.merged = None \/ save.done THEN None
    ELSE [save EXCEPT !.of = "nobody"]

\* The index and the question on display: those of the last navigation of this page
\* if it succeeded, those of the cached summary otherwise.
Displayed(tab) ==
    IF tab.position # NoPosition THEN tab.position
    ELSE [index |-> tab.summary.index, question |-> tab.summary.question]

Started(tab) == Displayed(tab).index >= 0
IsLastQuestion(tab) == Displayed(tab).index >= tab.summary.questions - 1
Navigating(tab) == tab.moves # <<>> /\ tab.watched
QuestionId(tab) == QuestionAt(tab.summary.exam, Displayed(tab).question.position).id
IsChecked(tab) ==
    tab.checked # None /\ tab.checked.question = QuestionId(tab)

\* submitAnswer.isPending: a submission of this view of the page is in flight.
Submitting(tab) == \E s \in Slots : tab.saves[s] # None /\ tab.saves[s].of = "page"
Operable(tab) == tab.page # 0 /\ tab.shown /\ ~tab.confirm
-------------------------------------------------------------------------------
(***************************************************************************)
(* useNavigateQuestion.                                                    *)
(***************************************************************************)

\* Where a navigation starts: a move that seeks repositions the cursor first, and so
\* does one that has no cursor to continue from, by a replay if it cannot seek.
ReadAnyway(tab, index, seek) == IF seek THEN "seek" ELSE "read"
FirstStage(tab, index, seek) ==
    IF seek THEN "seek"
    ELSE IF tab.cursor # NoCursor \/ index = 0 THEN "read"
    ELSE IF tab.summary.seekable THEN "seek" ELSE "replay"

Navigation(tab, index, seek) ==
    LET stage == FirstStage(tab, index, seek)
    IN  [index |-> index, stage |-> stage, cursor |-> tab.cursor, at |-> 0,
         fresh |-> stage # "read" \/ tab.cursor = NoCursor, here |-> TRUE]

\* mutate: the mutation before, if it is still running, goes on unwatched.
WithMove(tab, index, seek) ==
    [tab EXCEPT !.position = NoPosition, !.watched = TRUE,
                !.moves = Append(@, Navigation(tab, index, seek))]

\* Labels drift when a read continues from a cursor that is not due at its index, or
\* beside another navigation.
CourseAtStart(t, tab, index, seek) ==
    [course EXCEPT ![t].adrift =
       \/ @
       \/ tab.moves # <<>>
       \/ ~Navigation(tab, index, seek).fresh /\ index # course[t].due]

\* goToQuestion, for an index that is in range.
InExamOrAtEnd(tab, index) == index \in 0..tab.summary.questions
InExam(tab, index) == index \in 0..(tab.summary.questions - 1)
GoesNext(tab, index) == index = Displayed(tab).index + 1

StartMove(t, index) ==
    LET tab  == tabs[t]
        seek == ~GoesNext(tab, index)
    IN  /\ InExam(tab, index)
        /\ Allowed("moves") /\ Spend("moves")
        /\ tabs' = [tabs EXCEPT ![t] = WithMove(tab, index, seek)]
        /\ course' = CourseAtStart(t, tab, index, seek)
        /\ UNCHANGED <<apiVars, assessed, told>>

\* The buttons Start, Previous and Goto, and the Skip of a practice exam; and Enter in the
\* Goto dialog, which does not ask whether a navigation is running.
PressMove(t, index) ==
    LET tab == tabs[t]
    IN  /\ Operable(tab)
        /\ Len(tab.moves) < 2    \* bound: two navigations in flight
        /\ \/ ~Started(tab) /\ ~Navigating(tab) /\ index = 0
           \/ /\ Started(tab)
              /\ tab.summary.seekable
           \/ /\ Started(tab) /\ ~Navigating(tab)
              /\ tab.summary.practice /\ ~IsChecked(tab) /\ ~IsLastQuestion(tab)
              /\ GoesNext(tab, index)
        /\ StartMove(t, index)

\* onSuccess writes the position into the summary, whatever becomes of the page.
SummaryAlone(summary, index, question) == summary
SyncedSummary(summary, index, question) ==
    [summary EXCEPT !.index = index, !.question = question]

\* The cursorRef and the position of a page that was left are gone.
Arrived(tab, i, question, cursor) ==
    LET nav    == tab.moves[i]
        onShow == i = Len(tab.moves) /\ tab.watched
    IN  [tab EXCEPT
           !.moves    = RemoveAt(@, i),
           !.watched  = @ /\ ~onShow,
           !.cursor   = IF nav.here THEN cursor ELSE @,
           !.summary  = SyncedSummary(@, nav.index, question),
           !.position = IF onShow THEN [index |-> nav.index, question |-> question] ELSE @]

\* A navigation that ends in an error leaves cursorRef as it was.
WithoutMove(tab, i) ==
    [tab EXCEPT !.moves = RemoveAt(@, i),
                !.watched = @ /\ i # Len(tab.moves)]

\* A navigation that repositioned its cursor and ends alone puts the page right.
CourseAtEnd(t, i) ==
    LET tab == tabs[t]
        nav == tab.moves[i]
        mends == nav.here /\ nav.fresh /\ tab.watched /\ Len(tab.moves) = 1
    IN  [course EXCEPT ![t] =
           [due     |-> IF nav.here THEN nav.index + 1 ELSE @.due,
            adrift  |-> @.adrift /\ ~mends,
            rewound |-> FALSE]]

\* The read of a navigation, or one read of a replay, is answered.
ReadAnswered(t, i) ==
    LET tab  == tabs[t]
        nav  == tab.moves[i]
        next == NextCursor(tab.page, nav.cursor)
    IN  /\ nav.stage \in {"read", "replay"}
        /\ HandleGetNextQuestion(UserOf[t], tab.page, nav.cursor)
        /\ IF nav.stage = "read" \/ nav.at = nav.index
           THEN /\ tabs' = [tabs EXCEPT ![t] =
                     Arrived(tab, i, sessionsStore'[tab.page].question, next)]
                /\ course' = CourseAtEnd(t, i)
           ELSE /\ tabs' = [tabs EXCEPT ![t].moves[i].at = @ + 1,
                                        ![t].moves[i].cursor = next]
                /\ UNCHANGED course
        /\ UNCHANGED <<budget, assessed, told>>

\* ... or carried out, and its response lost: a cursor the tab keeps has moved on.
ReadLost(t, i) ==
    LET tab == tabs[t]
        nav == tab.moves[i]
    IN  /\ nav.stage \in {"read", "replay"}
        /\ HandleGetNextQuestion(UserOf[t], tab.page, nav.cursor)
        /\ tabs' = [tabs EXCEPT ![t] = WithoutMove(tab, i)]
        /\ course' = [course EXCEPT ![t].adrift =
                        \/ @
                        \/ nav.here /\ ~nav.fresh /\ NextCursor(tab.page, nav.cursor) # NoCursor]
        /\ Allowed("losses") /\ Spend("losses")
        /\ UNCHANGED <<assessed, told>>

SeekAnswered(t, i) ==
    LET tab == tabs[t]
        nav == tab.moves[i]
    IN  /\ nav.stage = "seek"
        /\ HandleSeekCursor(UserOf[t], tab.page, nav.cursor, nav.index)
        /\ tabs' = [tabs EXCEPT ![t].moves[i].stage = "read",
                                ![t].moves[i].cursor = RepositionedCursor]
        /\ UNCHANGED <<budget, assessed, course, told>>

SeekLost(t, i) ==
    LET tab == tabs[t]
        nav == tab.moves[i]
    IN  /\ nav.stage = "seek"
        /\ HandleSeekCursor(UserOf[t], tab.page, nav.cursor, nav.index)
        /\ tabs' = [tabs EXCEPT ![t] = WithoutMove(tab, i)]
        /\ Allowed("losses") /\ Spend("losses")
        /\ UNCHANGED <<assessed, course, told>>

\* A request of a navigation is refused, or lost on its way.
MoveRefused(t, i) ==
    LET tab == tabs[t]
        nav == tab.moves[i]
    IN  ~ IF nav.stage = "seek" THEN Repositionable(UserOf[t], tab.page, nav.index)
                                ELSE Readable(UserOf[t], tab.page, nav.cursor)

MoveFails(t, i) ==
    /\ \/ MoveRefused(t, i) /\ UNCHANGED budget
       \/ Allowed("losses") /\ Spend("losses")
    /\ tabs' = [tabs EXCEPT ![t] = WithoutMove(tabs[t], i)]
    /\ UNCHANGED <<apiVars, assessed, course, told>>
-------------------------------------------------------------------------------
(***************************************************************************)
(* useMyAnswer and useSubmitAnswer.                                        *)
(***************************************************************************)
Entries(submission) == IF submission = NoAnswer THEN <<>> ELSE submission

\* Replace an earlier answer to this question, keep the others; null is no answers.
MergedAlone(existing, answer) == <<answer>>
Merged(existing, answer) ==
    LET earlier == Entries(existing)
        others  == {a \in Range(earlier) : a.question # answer.question}
    IN  Append(Selected(earlier, others), answer)

AnswerOfUser == UNION {UserAnswers[q] : q \in DOMAIN UserAnswers}

\* What clients post are submissions the schema knows.
ASSUME MergingAssumption ==
    /\ \A s \in Answers :
         /\ s \in Seq(Range(s))
         /\ \A a \in Range(s) : /\ a.options \in Seq(Range(a.options))
                               /\ a.connections \in Seq(Range(a.connections))
    /\ \A s \in Answers \cup {NoAnswer}, a \in AnswerOfUser : Merged(s, a) \in Answers

\* A submission that has its copy of the saved answers, of which heard is history: what
\* of it the tab had been told is saved.
WithCopy(save, saved, heard) ==
    [save EXCEPT !.merged = Merged(saved, save.answer), !.heard = heard]

\* mutate: the submission takes its copy at once if the cache is warm.
PressSubmit(t, s, answer, checkOnly) ==
    LET tab  == tabs[t]
        save == [answer |-> answer, checkOnly |-> checkOnly,
                 from |-> Displayed(tab).index, last |-> IsLastQuestion(tab),
                 merged |-> None, heard |-> {}, done |-> FALSE,
                 of |-> "page"]   \* who waits for it: this page, the tab, or nobody
    IN  /\ Operable(tab) /\ Started(tab) /\ ~Submitting(tab)
        /\ tab.saves[s] = None /\ \A r \in 1..(s - 1) : tab.saves[r] # None
        /\ answer.question = QuestionId(tab)
        /\ IF tab.summary.practice
           THEN checkOnly = ~IsChecked(tab) /\ (IsChecked(tab) => answer = tab.checked)
           ELSE ~checkOnly
        /\ checkOnly \/ IsLastQuestion(tab) \/ ~Navigating(tab)
        /\ Allowed("saves") /\ Spend("saves")
        /\ tabs' = [tabs EXCEPT ![t].saves[s] =
                      IF tab.answers = Cold THEN save
                      ELSE WithCopy(save, tab.answers, told[t].answers)]
        /\ UNCHANGED <<apiVars, assessed, course, told>>

\* my_answer is fetched when a started page finds the cache cold, and again when the
\* window gets the focus or the page is opened again; the page may be left meanwhile.
FetchAnswered(t) ==
    LET tab == tabs[t]
    IN  /\ tab.page # 0 /\ tab.refetch = None
        /\ tab.shown => Started(tab)
        /\ Owns(UserOf[t], tab.page)
        /\ \/ tab.answers = Cold /\ UNCHANGED budget
           \/ tab.answers # Cold /\ Allowed("refetches") /\ Spend("refetches")
        /\ tabs' = [tabs EXCEPT ![t].refetch = <<MyAnswer(tab.page)>>]
        /\ UNCHANGED <<apiVars, assessed, course, told>>

\* What it was answered with replaces the cache even if a submission has been saved
\* meanwhile; submissions that waited for it take their copy.
FetchArrives(t) ==
    LET tab   == tabs[t]
        saved == tab.refetch[1]
        known == told[t].answers \cap Range(Entries(saved))
    IN  /\ tab.refetch # None
        /\ tabs' = [tabs EXCEPT
             ![t].answers = saved, ![t].refetch = None,
             ![t].saves = [s \in Slots |->
                IF tab.saves[s] = None \/ tab.saves[s].merged # None THEN tab.saves[s]
                ELSE WithCopy(tab.saves[s], saved, known)]]
        /\ told' = [told EXCEPT ![t].answers = known]
        /\ UNCHANGED <<apiVars, budget, assessed, course>>

\* What a tab still has on file when one of its own submissions replaces the whole, or
\* comes to replace its cache: of what it was told, the part that was copied.
Carried(t, save) ==
    {a \in told[t].answers \cap save.heard : a.question # save.answer.question}

\* A submission another has saved may have removed what a tab was told is saved.
ToldAt(id, t, save) ==
    [x \in Tabs |->
       IF x = t THEN [answers |-> Carried(t, save), saved |-> {save.answer}]
       ELSE IF tabs[x].page = id THEN [answers |-> {}, saved |-> {}] ELSE told[x]]

\* What an assessment is of: the submission, and the questions the session serves.
Assessed(id, submission) ==
    [exam       |-> sessionsStore[id].exam,
     served     |-> Range(sessionsStore[id].paper),
     submission |-> submission,
     result     |-> Assessment(id, submission)]

\* The submission is carried out; nobody may be left to hear of it.
Posts(t, s) ==
    LET tab  == tabs[t]
        save == tab.saves[s]
    IN  /\ save # None /\ save.merged # None /\ ~save.done
        /\ HandleSubmitAnswer(UserOf[t], tab.page, save.merged, save.checkOnly)
        /\ tabs' = [tabs EXCEPT ![t].saves[s] =
                      IF save.of = "nobody" THEN None ELSE [save EXCEPT !.done = TRUE]]
        /\ told' = IF save.checkOnly THEN told ELSE ToldAt(tab.page, t, save)
        /\ assessed' = Assessed(tab.page, save.merged)
        /\ UNCHANGED <<budget, course>>

\* onSuccess of the hook: a save updates the cache.  onSuccess of the page, if it is still
\* there: a check reveals the assessment; a save goes on to the question after the one
\* that was on display when the button was pressed, or asks whether to end.
Continues(save) == save.of = "page" /\ ~save.checkOnly /\ ~save.last
AfterSave(tab, s) ==
    LET save  == tab.saves[s]
        saved == [tab EXCEPT
                    !.saves[s] = None,
                    !.answers = IF save.checkOnly THEN @ ELSE save.merged,
                    !.checked = IF save.of = "page" /\ save.checkOnly THEN save.answer ELSE @,
                    !.confirm = @ \/ (save.of = "page" /\ ~save.checkOnly /\ save.last)]
    IN  IF Continues(save) THEN WithMove(saved, save.from + 1, FALSE) ELSE saved

PostAnswered(t, s) ==
    LET tab  == tabs[t]
        save == tab.saves[s]
    IN  /\ save # None /\ save.done
        /\ Len(tab.moves) < 2    \* bound: two navigations in flight
        /\ tabs' = [tabs EXCEPT ![t] = AfterSave(tab, s)]
        /\ course' = IF Continues(save) THEN CourseAtStart(t, tab, save.from + 1, FALSE)
                     ELSE course
        /\ told' = IF save.checkOnly THEN told
                   ELSE [told EXCEPT ![t].answers =
                           Carried(t, save) \cup ({save.answer} \cap told[t].saved)]
        /\ UNCHANGED <<apiVars, budget, assessed>>

\* The submission or the fetch it waits for is refused, or lost on its way, or its
\* response is; or the submission is given up and carried out later.
SaveFails(t, s) ==
    LET save == tabs[t].saves[s]
    IN  /\ save # None
        /\ \/ ~Owns(UserOf[t], tabs[t].page) /\ ~save.done /\ UNCHANGED budget
           \/ Allowed("losses") /\ Spend("losses")
        /\ tabs' \in {[tabs EXCEPT ![t].saves[s] = left] : left \in {None, Stray(save)}}
        /\ UNCHANGED <<apiVars, assessed, course, told>>
-------------------------------------------------------------------------------
(***************************************************************************)
(* Starting, opening and ending sessions; and other clients.               *)
(***************************************************************************)

\* Whether or not the response arrives, the list of sessions has the new one.
Create(t, e, options, accept) ==
    /\ ~tabs[t].shown
    /\ HandleCreate(budget.config, UserOf[t], e, options, accept)
    /\ Allowed("starts") /\ Spend("starts")
    /\ UNCHANGED <<tabs, assessed, course, told>>

\* A session is opened for the first time, or its page loaded again.
Load(t, id) ==
    /\ tabs[t].page \in {0, id}
    /\ id \in SessionsOf(UserOf[t])
    /\ Allowed("loads") /\ Spend("loads")
    /\ tabs' = [tabs EXCEPT ![t] =
         [LoadedPage(id, Excerpt(id)) EXCEPT
            !.saves = [s \in Slots |-> Stray(tabs[t].saves[s])]]]
    /\ course' = [course EXCEPT ![t] = [due |-> 0, adrift |-> FALSE, rewound |-> FALSE]]
    /\ UNCHANGED <<apiVars, assessed, told>>

\* Home, a link of the client: caches and requests in flight stay.
Leave(t) ==
    /\ tabs[t].shown
    /\ tabs' = [tabs EXCEPT ![t] = LeftPage(tabs[t])]
    /\ UNCHANGED <<apiVars, budget, assessed, course, told>>

\* Resume, in the list the client still has: a new page over the caches of the old one.
Open(t) ==
    /\ tabs[t].page # 0 /\ ~tabs[t].shown
    /\ Allowed("loads") /\ Spend("loads")
    /\ tabs' = [tabs EXCEPT ![t].shown = TRUE]
    /\ UNCHANGED <<apiVars, assessed, course, told>>

\* The summary is refetched when the page is opened again or the window gets the focus;
\* the response may be older than what a navigation has written meanwhile.
SummaryAnswered(t) ==
    /\ tabs[t].page # 0 /\ tabs[t].news = None /\ Owns(UserOf[t], tabs[t].page)
    /\ Allowed("refetches") /\ Spend("refetches")
    /\ tabs' = [tabs EXCEPT ![t].news = <<Excerpt(tabs[t].page)>>]
    /\ UNCHANGED <<apiVars, assessed, course, told>>

SummaryArrives(t) ==
    LET tab == tabs[t]
    IN  /\ tab.news # None
        /\ tabs' = [tabs EXCEPT ![t].summary = tab.news[1], ![t].news = None]
        /\ course' = [course EXCEPT ![t].rewound =
                        tab.news[1].index < 0 /\ (@ \/ tab.summary.index >= 0)]
        /\ UNCHANGED <<apiVars, budget, assessed, told>>

\* End Exam on the last question, and the dialog that confirms it.
PressEnd(t) ==
    LET tab == tabs[t]
    IN  /\ Operable(tab) /\ Started(tab) /\ IsLastQuestion(tab)
        /\ IF tab.summary.practice THEN ~IsChecked(tab) ELSE ~Submitting(tab)
        /\ tabs' = [tabs EXCEPT ![t].confirm = TRUE]
        /\ UNCHANGED <<apiVars, budget, assessed, course, told>>

CancelEnd(t) ==
    /\ tabs[t].confirm
    /\ tabs' = [tabs EXCEPT ![t].confirm = FALSE]
    /\ UNCHANGED <<apiVars, budget, assessed, course, told>>

\* The end, confirmed in the dialog of the page or in that of the list; on success the
\* tab shows the list.
Ends(t, id) ==
    /\ \/ ~tabs[t].shown
       \/ tabs[t].page = id /\ tabs[t].confirm
    /\ HandleDelete(budget.config, UserOf[t], id)
    /\ Allowed("ends")
    /\ UNCHANGED <<assessed, course, told>>

EndAnswered(t, id) ==
    /\ Ends(t, id)
    /\ Spend("ends")
    /\ tabs' = [tabs EXCEPT ![t] = LeftPage(tabs[t])]

EndLost(t, id) ==
    /\ Ends(t, id)
    /\ Allowed("losses") /\ SpendTwo("ends", "losses")
    /\ UNCHANGED tabs

DeleteTracking(u, i) ==
    /\ HandleDeleteTracking(budget.config, u, i)
    /\ Allowed("ends") /\ Spend("ends")
    /\ UNCHANGED <<tabs, assessed, course, told>>

\* A client that is not the page posts what it likes, as often as it likes.
RawPost(u, id, submission, checkOnly) ==
    /\ HandleSubmitAnswer(u, id, submission, checkOnly)
    /\ assessed' = Assessed(id, submission)
    /\ told' = IF checkOnly THEN told
               ELSE [x \in Tabs |->
                       IF tabs[x].page = id THEN [answers |-> {}, saved |-> {}] ELSE told[x]]
    /\ UNCHANGED <<tabs, budget, course>>
-------------------------------------------------------------------------------
ClientInit ==
    /\ ApiInit
    /\ tabs = [t \in Tabs |-> ListPage]
    /\ budget \in Budgets
    /\ assessed = None
    /\ course = [t \in Tabs |-> [due |-> 0, adrift |-> FALSE, rewound |-> FALSE]]
    /\ told = [t \in Tabs |-> [answers |-> {}, saved |-> {}]]

NavigationSteps(t) ==
    \/ \E index \in 0..tabs[t].summary.questions : PressMove(t, index)
    \/ \E i \in DOMAIN tabs[t].moves :
         \/ ReadAnswered(t, i) \/ ReadLost(t, i)
         \/ SeekAnswered(t, i) \/ SeekLost(t, i)
         \/ MoveFails(t, i)

AnswerSteps(t) ==
    \/ FetchAnswered(t) \/ FetchArrives(t)
    \/ \E s \in Slots :
         \/ \E answer \in AnswerOfUser, checkOnly \in BOOLEAN :
              PressSubmit(t, s, answer, checkOnly)
         \/ Posts(t, s) \/ PostAnswered(t, s) \/ SaveFails(t, s)

SessionSteps(t) ==
    \/ \E e \in budget.exams, options \in budget.options, accept \in AcceptChoices :
         Create(t, e, options, accept)
    \/ \E id \in SessionsOf(UserOf[t]) :
         Load(t, id) \/ EndAnswered(t, id) \/ EndLost(t, id)
    \/ Leave(t) \/ Open(t)
    \/ SummaryAnswered(t) \/ SummaryArrives(t)
    \/ PressEnd(t) \/ CancelEnd(t)

ClientNext ==
    \/ \E t \in budget.tabs : NavigationSteps(t) \/ AnswerSteps(t) \/ SessionSteps(t)
    \/ \E u \in Users :
         \/ \E i \in DOMAIN reports : DeleteTracking(u, i)
         \/ \E id \in DOMAIN sessionsStore :
              \E submission \in budget.raw, checkOnly \in BOOLEAN :
                RawPost(u, id, submission, checkOnly)

ClientSpec == ClientInit /\ [][ClientNext]_allVars
-------------------------------------------------------------------------------
(***************************************************************************)
(* Properties.                                                             *)
(***************************************************************************)
Shown == [index : Int, question : Served \cup {NoQuestion}]
Cursor == Nat \cup {NoCursor}

Excerpts == [exam : Exams \cup {None}, index : Int, question : Served \cup {NoQuestion},
             questions : Nat, seekable : BOOLEAN, practice : BOOLEAN]

Navigations == [index : Nat, stage : {"seek", "read", "replay"}, cursor : Cursor,
                at : Nat, fresh : BOOLEAN, here : BOOLEAN]

AnswersOnce(submission) ==
    \A i, j \in DOMAIN submission :
      submission[i].question = submission[j].question => i = j

\* What a page may post: any answers, but none of a question twice.
PageSubmission(s) == s \in Seq(AnswerOfUser) /\ AnswersOnce(s)

SaveTyped(save) ==
    /\ save.answer \in AnswerOfUser /\ save.heard \subseteq AnswerOfUser
    /\ save.of \in {"page", "tab", "nobody"} /\ save.done \in BOOLEAN
    /\ save.merged = None \/ PageSubmission(save.merged)

TabTyped(tab) ==
    /\ tab.page \in 0..sessionCount /\ tab.shown \in BOOLEAN
    /\ tab.summary \in Excerpts /\ tab.position \in Shown
    /\ tab.news # None => tab.news[1] \in Excerpts
    /\ tab.moves \in Seq(Navigations) /\ Len(tab.moves) <= 2
    /\ \A i \in DOMAIN tab.moves : tab.moves[i].index < tab.summary.questions
    /\ tab.watched \in BOOLEAN /\ tab.confirm \in BOOLEAN
    /\ tab.cursor \in Cursor
    /\ tab.answers \in {Cold, NoAnswer} \/ PageSubmission(tab.answers)
    /\ tab.refetch = None \/ tab.refetch[1] = NoAnswer \/ PageSubmission(tab.refetch[1])
    /\ \A s \in Slots : tab.saves[s] # None => SaveTyped(tab.saves[s])
    /\ tab.checked \in AnswerOfUser \cup {None}

\* The page asks only for indexes of its session, and what it posts answers no question
\* twice (budgets in which other clients post as they like aside).
ClientTypeOK ==
    /\ budget.raw = {} => \A t \in Tabs : TabTyped(tabs[t])
    /\ \A i \in DOMAIN outbox : outbox[i].sink \in {"console", "email"}
    /\ Len(wishes) = sessionCount
    /\ discarded \subseteq DOMAIN reports
    /\ \A t \in Tabs : told[t].answers \cup told[t].saved \subseteq AnswerOfUser

\* The number over a question is its place in the paper, unless the labels of the tab
\* have drifted: a response that moved the cursor of the page was lost, or it read on from
\* a cursor that was due elsewhere, or two navigations of the tab were under way at once, be
\* it that one of them belongs to a page the user has left meanwhile.  Only a reload, or a
\* navigation that seeks or replays and ends alone, mends that; leaving the page and coming
\* back, to cached labels and with requests still on their way, neither mends nor causes
\* it.  The server is never told which index a read is meant for.
LabelIsTrue ==
    \A t \in Tabs :
      LET tab   == tabs[t]
          shows == Displayed(tab)
      IN  /\ tab.page \in DOMAIN sessionsStore
          /\ ~course[t].adrift
          /\ shows.index >= 0
          => shows.question.position = sessionsStore[tab.page].paper[shows.index]

DeadCursor(t) ==
    /\ tabs[t].cursor # NoCursor
    /\ tabs[t].cursor \notin DOMAIN sessionsStore[tabs[t].page].cursors

\* A page left with a cursor that its own seek invalidated (the seek was carried out, the
\* read after it failed) can seek again: its session is seekable and still shown as
\* started, so that Goto is there to replace the cursor; unless a summary fetched before
\* the start has come back after it, which the next fetch puts right.
DeadCursorsCanBeReplaced ==
    \A t \in Tabs :
      tabs[t].page \in DOMAIN sessionsStore /\ DeadCursor(t) =>
        tabs[t].summary.seekable /\ (Started(tabs[t]) \/ course[t].rewound)

\* What a tab was told is saved is in the submission of the session, and in its report
\* once it has ended: whatever is checked, lost, refused, retried, fetched again, left and
\* reopened or reloaded meanwhile.  It holds until one of three things happens, and for
\* what they leave untouched beyond that: another tab or client posts to the session; a
\* fetch answered before the save arrives after it; or another save of the tab, one that
\* had taken its copy of the submission before, is carried out or answered after it.
SavedAnswersKept ==
    \A t \in Tabs :
      /\ tabs[t].page \in DOMAIN sessionsStore =>
           told[t].answers \subseteq Range(Entries(MyAnswer(tabs[t].page)))
      /\ \A i \in DOMAIN reports :
           reports[i].session = tabs[t].page =>
             told[t].answers \subseteq Range(reports[i].answer)

\* Full marks in words: one option, of the key; exactly the options of the key, each
\* once; as many different accepted connections as a solution requires.
MatchesKey(q, ans) ==
    \/ q.type = "single" /\ \E o \in Range(q.correct) : ans.options = <<o>>
    \/ q.type = "multiple" /\ IsInjective(ans.options)
                           /\ Range(ans.options) = Range(q.correct)
    \/ q.type = "draganddrop" /\
         \E sol \in q.solutions : \E S \in SUBSET Range(ans.connections) :
           S \subseteq AcceptedConnections(sol) /\ Cardinality(S) >= sol.required

\* The marks of a submission, given the questions of its session.
MarkedByKey(bank, submission, practice, result) ==
    LET known == Selected(submission, {ans \in Range(submission) :
                   \E q \in bank : q.id = ans.question})
    IN  /\ Len(result.scores) = Len(known)
        /\ \A i \in DOMAIN known : \A q \in bank :
             q.id = known[i].question =>
               result.scores[i] =
                 [question |-> q.id,
                  earned   |-> IF MatchesKey(q, known[i]) THEN q.score ELSE 0]
        /\ AnswersOnce(submission) /\ (\A q \in bank : q.score >= 0) =>
             result.earned <= result.total
        /\ result.revealed =
             IF practice THEN {known[i].question : i \in DOMAIN known} ELSE {}

\* An assessment credits an answer if and only if it matches the key, whatever options
\* were repeated, reordered or made up, and however few questions of its exam a session
\* serves; it stays within the total score if no question was answered twice; and it
\* gives questions away with their keys in a practice exam only, and there only those
\* that were answered.
AssessmentIsSound ==
    assessed # None =>
      MarkedByKey({Bank[assessed.exam][p] : p \in assessed.served}, assessed.submission,
                  Catalogue[assessed.exam].category = "practice", assessed.result)

MailsAbout(id) == {i \in DOMAIN outbox : outbox[i].sink = "email" /\ outbox[i].session = id}

\* A mail goes out at most once for a session, ends of it retried or not, and only if the
\* session has ended and its report is on file, the request that created it consented, on
\* behalf of a user who is no visitor, and e-mail is configured; it goes from the
\* administrator to the address of that user, with no unsigned report if reports are
\* signed.  Starting a session and deleting a report mail nothing.
MailedAsConsented ==
    \A i \in DOMAIN outbox :
      LET mail == outbox[i]
          id   == mail.session
      IN  mail.sink = "email" =>
            /\ MailsAbout(id) = {i}
            /\ mail.event = "exam_completed"
            /\ id \notin DOMAIN sessionsStore
            /\ \E j \in DOMAIN reports :
                 reports[j].session = id /\ reports[j].user \notin Visitors
            /\ wishes[id].consent /\ mail.to = wishes[id].email /\ mail.to # NoEmail
            /\ budget.config.smtp /\ mail.from = SysadminEmail
            /\ budget.config.signer => mail.attachment # "unsigned"
===============================================================================
