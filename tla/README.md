# Verification of the exam server

TLA+ models of the program in `src/` (an on-line exam laboratory: a Go server
for exam documents in XML, exam sessions, graded reports, uploads and logins,
and its web client), the TLC configurations that check them, and TLAPS proofs
about them. Paths below are relative to the repository's `src/`.

## 1. The system

| Component | State | Operations | Interacts with |
|---|---|---|---|
| Exam session server, `pkg/models/examserver/examserver.go` | `sessionsStore` (id -> session), `userSessions` (user -> ids); a session holds its paper (question permutation), served copies, cursors, the question on screen, the saved submission | start, list, get, next question, seek, submit, my answer, end | grader, tracking server, notifiers; called by HTTP handlers |
| Its actor (and the association manager's): `dispatch`, `Run`, `Shutdown` | unbuffered `serviceChan`, `done`, one response channel per call | deliver a closure, run it, answer | every method of both services |
| Grader, `grader.go` | none after construction: an index of the collection, a passing score | `Grade` | made and called by the session server; its assessment goes to the client |
| Exam tracking server, `pkg/models/examreport` | two `sync.Map`s: `counts` and `reports` | `Put`, `GetExamReportsByUserId`, `DeleteExamTracking` | session server, notifiers, handlers |
| Upload manager, `pkg/models/userupload` | two `sync.Map`s, the same scheme | create, list, read, delete | association manager |
| Association manager, `pkg/models/userexamdocs/fsbasedassociation` | user -> upload -> in-memory file system | add, delete, list, dereference, serve assets | uploads; it is an exam source and loader |
| Exam repository, `pkg/models/question` | `cache` (id -> exam), one goroutine and channel per listing | list (all, by label, by user), get by id | sources: directory, static files, associations |
| Message hub, router, console and SMTP sinks, `pkg/models/msgnotify` | routes | `Send`, `AreYou`, `GetNextHop` | session and tracking server emit to the hub |
| Authentication, `pkg/auth`, `pkg/session`, `pkg/cookie` | a ticker's goroutine and a ticket channel of capacity one; otherwise signed statements in cookies | issue and verify tokens, nonces, tickets; the JWT middleware | all handlers |
| Login and logout, `pkg/api/login/*`, `pkg/api/logout` | the OIDC handler's provider, discovered once | redirects, callbacks, visitor login, logout | browsers, identity providers |
| HTTP handlers, `pkg/api/*` | none (the stream of listings apart) | decode, call, encode | everything above |
| Web client, `web/exam-lab/src` | per browser tab: the query cache (summaries, submissions) and requests in flight; per view of the exam page: cursor, position, dialogs | create, open, leave, reload, navigate, check, submit, end | the HTTP API |
| Wiring, configuration, logging, signing, static files; exam data, scripts, deployment | | | |

How they interact. A handler calls a method of the session server; the method
sends a closure to the goroutine of `Run` and waits for the response or for
the end of its request. The closure that ends a session calls the tracking
server's `Put`, which stores the report and then delivers a message through
hub and sink, all on the actor's goroutine. A handler that starts a session
first asks the repository for the exam; the repository starts a producer
goroutine that walks over the caller's associations (each a call to the
association manager's own actor), then falls back to its cache and the
directory.

What is hard here: several cursors of one session used in any order; the
double book-keeping of sessions; the unknown outcome of a call that was given
up; shutdown and cancellation racing with delivery; lock-free maps with a
count that runs ahead of the data; producer goroutines on unbuffered channels
whose consumer may leave; one cache for all users; an upload that changes
between being read and being recorded; a client that continues from a cursor
the server has moved, with several tabs, lost responses and a cached copy of
the whole submission, and keeps that copy and its running requests when a page
is left and opened again; consent that travels as labels on an address; one nonce
cookie for all tabs and providers, with answers to racing logins and logouts
arriving in any order. `PROJECT.json` lists these hazards, each at its line,
with the properties that cover it.

What makes each component right:

- *session server*: maps in lock-step, no question skipped or changed or lost,
  dead cursors stay dead, a report is filed once and for the last
  acknowledged submission;
- *actor*: an accepted command runs once and is answered, a refused one never
  runs, callers return, shutdown succeeds;
- *tracking server*: no report lost, duplicated or resurrected; completed
  operations are seen;
- *repository*: exams of other users stay invisible, own exams win, broken
  sources hide nothing, requests and producers end;
- *grader*: a score is what the key says, whatever is submitted, and the key is
  shown only where the exam allows it;
- *messages*: a report is mailed once, with consent, to the right address;
- *client*: the label on screen is the question's and what was reported as saved
  is saved, until one of a few named events happens; a dead cursor can be
  replaced;
- *logins*: a browser is logged in by its own attempts only, an attempt that is
  over logs nobody in, visitors are paced, every request is answered.

## 2. The modules

| Module | Models | Checked by | Proved in |
|---|---|---|---|
| `GoMaps` | the two statements that change a Go map | all | `GoMapsProofs` |
| `SessionLifecycle` | abstract: what a session is to its user | refinement in `ExamServer` | `ExamServerProofs` (the refinement) |
| `ExamServer` | the session server | `MCExamServer` | `ExamServerProofs` |
| `OnceService` | abstract: what a caller of an actor may rely on | refinement in `ActorService` | `ActorServiceProofs` (the refinement) |
| `ActorService` | `dispatch`, `Run`, `Shutdown`, the waits | `MCActorService` | `ActorServiceProofs` |
| `ReportBook` | abstract: reports appear and disappear once | refinement in `ExamTracking` | `ExamTrackingProofs` (the refinement) |
| `ExamTracking` | the tracking server | `MCExamTracking` | `ExamTrackingProofs` |
| `ExamRepository` | repository, sources, associations, uploads, listings | `MCExamRepository` | `ExamRepositoryProofs` |
| `Grader` | the grader, as operators | `MCExamClient` | `ExamClientProofs` |
| `Notifications` | hub, router and sinks, as operators | `MCExamClient` | `ExamClientProofs` |
| `ExamApi` | the handlers of sessions and reports: `ExamServer`, `Grader` and `Notifications` together | `MCExamClient` | `ExamClientProofs` |
| `ExamClient` | the exam page in several tabs, on an unreliable network, in front of `ExamApi` | `MCExamClient` | `ExamClientProofs`, `ExamClientPageProofs` |
| `Login` | logins, logouts and the middleware, for several browsers and tabs | `MCLogin` | `LoginProofs` |

`ExamClient` extends `ExamApi`, which extends `ExamServer`: what is checked and
proved of the session server is then asked again behind the page.

### ExamServer

One action per command that changes state: `StartNewExamSession`,
`GetNextQuestion`, `SeekCursorTo`, `SubmitAnswer`, `EndExamSession`,
`EndExamSessionFails`. The closures of the methods run one at a time on the
actor, so each is one step. An error return that changes nothing is a false
guard. A session record has the fields of `OnMemoryExamSession`, except that
`Questions` and `QuestionPermutation` are folded into `paper`: `paper[i]` is
`Questions[QuestionPermutation[i]]`, named by its collection and place in the
document. `Papers(e, opts, accept)` is the set of papers `newExamSession` may
build: sampling of a virtual collection, choice of a random collection or
flattening, filtering by type, shuffling. A served copy is the question's
place and the order of its options; the cache is keyed by the question's `id`
attribute, as in the code. Ids and cursors are numbers in the order they are
handed out (UUIDs in the code: fresh and compared for equality only).
Clients may present any cursor ever handed out, of any session, or none.
`shown`, `retired` and `acked` are history variables that no action reads.

Abstracted: timestamps, profiles, scores, texts. `ExamDocuments` is what
`Exam.validate` accepts; `AnswersAssumption` and its like say only that the
nil values are no ordinary ones.

### ActorService

Each call is a goroutine that goes idle, dispatching, waiting, returned; the
actor is selecting, running or stopped. The send on `serviceChan` and its
receipt are one step. Where several cases of a `select` are ready any may be
chosen: the actor may accept a command after `done` was closed. A call here
ends with the response: what a method does after it (the session-started
message) is on its own goroutine. `Mailing` are the calls whose closure
delivers a message: their end is up to the mail server.

### ExamTracking

One action per access to a `sync.Map`: `LoadOrStoreCount`, `LoadCount`,
`CompareAndSwap`, `StoreReport` for `Put`; `LoadBound`, one `Collect` or
`Examine` per turn of the loop, `Remove` for the scans; `Notify` is the
best-effort message, after which the operation returns. One user's entries
are modelled, for keys of different users never meet.

### ExamRepository

A request (a lookup by id or a listing) drives a walk: `OpenSource` lists the
URLs, `Load` loads one, `CacheExam` stores it, the send meets its receipt in
`LookupReceives` or `ListingReceives`, `Close` ends the stream. Between any
two steps files are edited, uploads created and deleted, associations added
(in the two steps the code has) and deleted, and clients leave.

### Grader, Notifications and ExamApi

`Grader` is a module of operators: `QuestionsById`, the three ways a question
is correct (`SingleChoiceCorrect`, `MultipleChoiceCorrect`, and for drag-and-drop
`SolutionSatisfied`: enough distinct connections that one solution accepts),
`Grade`, and what it reveals. Numbers stand for `float32` scores; rounding of sums is left out. In
`Notifications` an address is a family, an address and labels; `Emit` is the
loop over notifiers, `HubSend` the hub, and each sink lists the results `Send`
may have: a mail server may refuse, accept, or accept and then break the
connection. `Routes` is what `main` wires for a configuration. A session-started
message always ends at the hub, which forwards completions only.

`ExamApi` has one action per handler of `pkg/api/examsessions` that succeeds
(`HandleCreate`, `HandleGetNextQuestion`, `HandleSeekCursor`,
`HandleSubmitAnswer`, `HandleDelete`) and `HandleDeleteTracking`; a refusal is
the negation of the guard and changes nothing. `Excerpt`, `NextCursor`,
`Assessment` and `MyAnswer` are response bodies. `Put` and `Grade` do not fail
with the components `main` wires. `wishes` (what the creating request asked
for), `outbox` (what sinks were handed) and `discarded` are added to the state.

Assumptions: `BankAssumption` has the correct options of a question distinct,
as `exam.xsd` has it (`Exam.validate` does not look at that), and scores and
numbers of required connections integers. `CollectionOfSession` lists the
questions of a paper in document order (`InOrder`).

### ExamClient

A tab here is what a browser tab keeps of one session. Part of it lives in the
`QueryClient` that `app/providers.tsx` makes once: the cached summary, the cached
`my_answer`, and the responses still on their way to both. Part of it belongs to
one view of the exam page: the position and the `cursorRef` of
`useNavigateQuestion`, the answer whose assessment is shown, the dialog that
confirms the end. And there are the mutations in flight, navigations (`moves`)
and submissions (`saves`), which run on when their page is gone: `here` and `of`
say whether the view that started one is still there.

- `Leave` is the Home link of the breadcrumbs, `Open` the Resume button of the
  list. Both stay on the client: the view is new, so nothing is watched, no
  submission counts as pending and there is no cursor, but caches and requests
  in flight are the old ones. What hooks do on success (write the summary, write
  `my_answer`) still happens; what the page adds (go on to the next question,
  reveal an assessment, open a dialog) happens only for the view that asked.
- `Load` is the first opening of a session, or a reload: only this starts with
  empty caches. Submissions already sent may still be carried out (`Stray`).
- A navigation goes through stages as the hook does: seek then read, or read
  alone, or a replay from the start where the session cannot seek. Goto may be
  pressed while another navigation runs, for the Enter key of its dialog does not
  ask.
- A submission takes its copy of the saved answers (`WithCopy`) when its button
  is pressed, or when the fetch it waits for arrives if the cache is cold;
  `Posts` carries it out; `PostAnswered` brings the response, writes the cache,
  and goes on to the question after the one that was on display when the button
  was pressed, or opens the dialog, wherever the page is by then.
- Fetches and refetches of `my_answer` and of the summary are answered
  (`FetchAnswered`, `SummaryAnswered`) and arrive (`FetchArrives`,
  `SummaryArrives`) in separate steps, for the response may be older than what
  it replaces.
- Requests may be refused, lost on their way, or carried out with the response
  lost (`ReadLost`, `SeekLost`, `SaveFails` after `Posts`, `EndLost`).

`course` and `told` are history: the index a tab's cursor is due at, whether
labels may have drifted and whether a late summary has taken a started session
back; and what the tab was told is saved.

`LabelIsTrue`: label and question agree unless the tab has drifted. What makes
it drift: a response lost after the read had moved the cursor the page keeps, a
read that continues from a cursor due elsewhere, and two navigations of the tab
under way at once, also when one of them belongs to a view that was left. What
mends it: a reload, or a navigation of this view that sought or replayed and
ended alone. Home and Resume do neither: the cached label is shown again, and a
late navigation writes its own into it.

`SavedAnswersKept`: an answer the tab was told is saved is in the submission, then
in the report. Three events end that, and only for what they can touch: a post by
another tab or client (everything); a fetch answered before a save and arriving
after it (what it does not carry); another save of the same tab that took its
copy before this one and is carried out or answered after it (what its copy does
not carry). The last needs two saves of one tab at once, which the pending flag
prevents within a view, and Home and Resume allow.

The comments of the code promise more than this. `useSubmitAnswer.ts:60-66` says
that merging works by "preserving answers to earlier questions" and that
persisted submissions keep "later merges and the practice-exam selection restore
coherent without a refetch"; `useMyAnswer.ts:31-33` says the cache "is kept
current by useSubmitAnswer after each persisted submission". That is so while
one view of one tab works alone and its fetches arrive in order. Two saves that
overlap across Home and Resume, a second tab, or a late fetch break it: the later
post removes an answer that was acknowledged. The model has these behaviours and
the property excuses them by name; the hazards at `useSubmitAnswer.ts:76`
and `:101` record them. That labels stay true is not promised anywhere: of
`useNavigateQuestion.ts:78-79` the summary follows what is shown, label and
question together, drifted or not.

Clients other than the page (`RawPost`) post any submission of `budget.raw`, as
often as they like.

Abstracted: what is selected on screen and restored there (the user may choose
any answer the page would accept); texts; the pages that only render. A failed
fetch of `my_answer` unblocks the buttons of a practice exam, so they are not
blocked. A browser tab that shows two sessions in turn is two tabs, for no page
reads what belongs to the session of another (they are not merged by the model's
`Leave`: going from one session to the next by the history buttons of the browser
is not modelled). Execution and arrival of a navigation's request are one step.
A reload drops the navigations in flight, unlike submissions. Unused cache entries
do not expire (in the code they do after five minutes). The Goto dialog closes when a late summary makes the
session look unstarted.

### Login

A tab is at home, in a handler, at a provider, or waiting for a response that
is on its way; `Arrive` applies its `Set-Cookie` lines to the jar of the
browser. Between the sending of a request and its arrival every other tab may
act. One action per handler: `GithubStart`, `GoogleStart`, `ClickOidc` and
`OidcStart`, the three callbacks, the three exchanges, `VisitorLogin`,
`Logout`, `ServeProfile` (any handler behind the middleware). The handlers
differ as in the code: Github and Google set the cookie before they look at
the origin, Google and OIDC clear the nonce, Github does not; OIDC discovers
its provider in a `sync.Once` for the request that comes first. Any callback
address whose code was ever granted may be opened again in any tab of any
browser. A nonce is the number of the attempt it was issued for; that a nonce
or a token has expired is a choice at the check that would notice. `Tick`,
`ProduceTicket` and `waiting` are the ticker, the goroutine and the queue of
the ticket channel. `reached` and `over` are history.

## 3. The runs

| Run | Result | Question |
|---|---|---|
| `ExamServer` | holds | the safety of sessions, and that the server implements `SessionLifecycle` |
| `ExamServerFixedSequence` | violated | does a certification session never go back? |
| `ExamServerSharedIds` | violated | is every question served if two collections share a question id? |
| `ActorService` | holds | delivery, answers, shutdown; refinement of `OnceService` |
| `ActorServiceRunContext` | violated | do calls report shutting down once `Run` has returned? |
| `ActorServiceMail` | violated | does delivery of mail never block dispatch? |
| `ExamTracking` | holds | the lock-free maps; refinement of `ReportBook` |
| `ExamRepositoryScopes` | holds | visibility and completeness under changing sources |
| `ExamRepositoryStreams` | holds | precedence, termination, no stranded producer of a listing |
| `ExamRepositoryLeak` | violated | does every producer end? |
| `ExamClient` | holds | labels, saved answers, dead cursors, scores and mail behind the page, on a network that loses requests and responses |
| `Login` | holds | whose login a browser gets, attempts that are over, what is shown, pacing of visitors, and that every request is answered |

Each violated run checks one sentence of a document or comment of the
repository; `findings` in `PROJECT.json` quotes it and says what the
counterexample shows.

### Bounds, and why they are enough

- `ExamServer`: two users (one a visitor), two exams, two sessions, two
  cursors, two submissions. The practice exam has two collections, so that one
  may be drawn; the certification exam samples two of three questions, so
  that a paper differs from its document. Two sessions are what lock-step and
  cross-session cursors need: one cursor each, or two of one session, the
  second of them minted by a seek that retires the first; with two
  submissions the last one differs from an earlier one. The proofs below have
  none of these bounds. `ExamServerFixedSequence` and `ExamServerSharedIds`
  have one user, one session and one exam: the certification exam, and a
  practice exam whose two collections share a question id.
- `ActorService`: three calls, of which one mails: one inside the actor, one
  at dispatch and one that comes after the end.
- `ExamTracking`: two Puts (a race has two sides), one Get, two deletes of one
  report. Indexes are not bounded.
- `ExamRepository`: one lookup and one listing, by different users; two files,
  one of them broken at first; one upload (of the listing's user in `Scopes`,
  of the lookup's in `Streams`); `Scopes` allows one edit of the directory and
  one association, `Streams` none and two, so that a re-association happens. A
  source associated again has changed, so `LastingExamsAreFound` and
  `ListingIsComplete` say nothing of it: a walk that holds the URL of the old
  association does miss the exam, and no document promises otherwise.
  The exam ids are such that an uploaded exam, a file and the wanted id
  coincide. `Leak` has two uploads of the caller.

- `ExamClient`: one session and four cursors, and a list of budgets, each a kind
  of trouble at its full size: a tab that navigates with two losses while its
  page is left and reopened or reloaded; one whose summary is refetched; one that
  navigates and answers; two tabs of a session that can seek, and two that
  answer in one that cannot; four saves of a tab whose page is left while they
  are in flight, with and without refetches of `my_answer`; endings, retried, under each of the eight mail
  configurations, by an ordinary user and a visitor; raw submissions of up
  to two answers, chosen to repeat questions and options and to name unknown
  ones; and a page that saves while such submissions are posted beside it.
  A session is created with every type of question or with all but
  drag-and-drop, so that it may serve fewer questions than its exam has, and an
  answer name one it does not serve. At most two navigations of a tab are in flight: with two, one is
  watched and one is not, which is all the hook tells apart. At most two
  submissions of a tab are in flight (`Slots`): an overlap has two sides, and a
  third submission follows when one of them is done. The user's two tabs are
  interchangeable (`TabSymmetry`): they have the same owner, and no definition or
  property tells one tab from another; budgets, which do name tabs, are part of
  the state and permuted with it. Exams have two or
  three questions, so that there is a first, a middle and a last one.
- `Login`: a browser with two tabs and one with a single tab; two attempts with
  any providers, from either tab, with callbacks opened anywhere; three
  visitors in two browsers and four ticks (one stored, one due, two more); or
  one attempt and one visit side by side. Two providers have a relative
  redirect, so that every branch on the origin is taken. Visitors are not
  rejected in the run (`RejectVisitor` is `FALSE`); the other branch is covered by
  the proof of `ShownIsOwn` alone. The proofs have none of these bounds.

`CHECK_DEADLOCK FALSE` stands where the system really stops: the numbers of
sessions, calls, operations and requests are bounded, and when all have been
spent nothing is left to happen.

### Fairness

`ExamServer` states safety only. `ActorService`: the Go scheduler runs every
runnable goroutine (weak fairness of a waiting caller and of the end of a
command that sends no mail); a channel queues blocked senders in order and a
`select` picks among its ready cases at random, so a sender that is ready
again and again is served, and the actor notices `done` (strong fairness of
`Dispatch` and `RunReturns`). Nothing is assumed of the mail server, of
clients or of whoever shuts down; where a property needs the mail server it
says so (`CommandsEnd`), and main's `context.Background()` appears as
`[]~runEnded`. `ExamTracking` and `ExamRepository`: an operation that has
begun keeps running (weak fairness); no operation need begin. `Login`: a
request that is being handled goes on and its answer arrives (weak fairness of
`Server` or `Arrive`, per tab), the ticker ticks, its goroutine runs, and the
discovery of the OIDC provider ends one way or the other, for an HTTP client
returns when its connection breaks; nobody need press anything. That visitors
are served rests on the channel being a queue, not on fairness of one over the
other. `ExamClient` states safety only.

## 4. The proofs

Every theorem is about `Spec` of its module and holds for every value of the
constants that satisfies the named assumptions: any users, any catalogue of
documents, any numbers of calls, Puts, Gets and Deletes, any bound.
Assumptions about the code enter only there (`CatalogueAssumption`: an exam
document is what the loader lets through; the others keep nil values apart
from ordinary ones and the sets of operations disjoint).

- `GoMapsProofs`: what a store and a delete do to a map, cited by the rest.
- `ExamServerProofs`, `TypeCorrect`: the state has its types; in particular
  every live cursor and the index last served lie inside the paper.
  Inductive as it stands. It rests on lemmas about the operators: the places of
  a document are finitely many (`PositionsFacts`), what a session may be drawn
  from is a finite set of them (`DrawsFacts`), hence a paper numbers questions
  from 0 without a gap (`PaperFacts`).
- `ExamServerProofs`, second part: `LockStep`, `RetiredStayDead`, `Stable`,
  `Accounted`, `NoneSkipped`. The invariant `SInv` adds to the properties what
  they lean on: live sessions share no cursor (else retiring a cursor in one
  would leave it alive in another); the submission a live session holds is the
  acknowledged one (else the report filed at its end could be of another);
  what was shown is what the cache holds (else it could change); and in a
  certification session every cursor has everything before it shown, which
  holds because such a session is never seekable. Each command is first
  summarised (`StartSummary` ... `EndSummary`), then shown to keep `SInv`.
  `AllSeenIfIdsAreUnique`: a candidate sees every question if the question
  ids of an exam are unique across collections; the run `ExamServerSharedIds`
  shows what happens otherwise. `Refinement`: the server implements
  `SessionLifecycle`, step by step: starting opens, saving saves, ending
  closes, everything else stutters.
- `ActorServiceProofs`: `TypeCorrect` and `Refinement`. A caller knows of its
  command nothing, that it is pending, its result, that it was refused, or
  only that it gave up (`Seen`). The invariant says that only commands taken
  from their caller run, none twice, and that a response stands for a command
  that ran: so a refusal is a promise that the command will never run.
- `ExamTrackingProofs`: `TypeCorrect`, `ClaimsAreUnique`, `NoneLost` and the
  refinement of `ReportBook`. The invariant says that each slot holds the
  report whose Put claimed its index, that a delete about to remove a slot has
  seen its report there, and that a deleted report leaves an empty slot: no
  Store overwrites a report and no Delete removes another than its own, although
  neither holds a lock between reading and writing.
- `ExamTrackingProofs`, second part: `GetIsComplete`, `GetIsOrdered`,
  `DeleteIsComplete`. A report filed before a scan began lies below the bound
  the scan read, and once the loop variable is past its index it has been
  collected, deleted, or was not the one looked for; the reports collected have
  ascending indexes, and indexes ascend along Puts that follow one another.
- `ExamRepositoryProofs`: `TypeCorrect`, `OwnExams`, `LastingFound`,
  `Precedence`, `ListingComplete`. The invariant `RInv`, one copy per request,
  says that a walk keeps to its scope (a user's walk holds only URLs and events
  of that user's uploads, so nothing of theirs is cached), and where the exam of
  a source that lasts is: ahead of the walk, on its way as the walk's event, or
  found, and for a listing at exactly one of these. Three lemmas carry it:
  other requests only add to the cache (`Bystander`); a change to a source takes
  that source, and no other, out of `steady` (`EnvironmentKeeps`), because a new
  association never takes over a URL that a walk still holds; and a step of the
  walk moves an exam only forward (`QuietServed`).
- `ExamClientProofs`: the refinement `ClientsUseTheServer`, that whatever
  people do in tabs, `ExamServer` sees only requests its specification allows.
  The invariant `CInv` says that what a tab sends has come from the server or
  from its user, whichever view of the page sent it: the cursors of the page and
  of every navigation in flight have been handed out, and caches, responses on
  their way and submissions in flight hold answers the schema knows. It gives
  `ClientsAccounted` without a second proof. `DeadCursorsReplaced` rests on
  `ServerMoves`, which says what any step of the server leaves alone (a session
  that cannot seek never loses a cursor).
  `MailConsented` rests on `MailInv`, which ties three things that different
  requests write: the wish of the creating request, the session or its report,
  and what has been handed to a sink; it follows a consent through options,
  report, labels, hub and router.
- `ExamClientProofs`, `AssessmentsAreSound`, for submissions and collections of
  any length. What the grader's loop selects and adds up is proved by
  induction, stated as a fact about sets of numbers (`Induct`): `SelectedFacts`
  and `PartialsTyped` for one loop, `SumsCompare` and `SumWithin` for the answers against the collection: what
  different questions earn adds up to no more than all are worth.
  `CreditedIfMatching` says that an answer is credited exactly if it matches the
  key; for multiple choice the code compares two lengths and one inclusion,
  which is equality of two sets only because the correct options are
  distinct (`SameMembers`). `CollectionFacts` says that the grader's collection
  is the paper's questions, each once. The theorem assumes `IdsAreUnique`: an answer
  names its question by the id. `exam.xsd` allows negative scores, so that what
  is earned stays within the total is claimed only where no score is negative.
- `ExamClientPageProofs`, `LabelsAreTrue`. A navigation says which index it goes
  to, the server only knows where a cursor is; `LabelInv` is that the two agree.
  A navigation that sought, or replays, holds a cursor of its own, due at its
  index, and that stays so when its view is left, which is why the label it
  writes late is true. The cursor of the view is due where `course` says while
  nothing has drifted; what is on screen or in a summary, cached or on its way,
  was served for the place its label names; and no two tabs hold one cursor,
  which is why tabs cannot move each other's. The theorem assumes `IdsAreUnique`
  as `AllSeenIfIdsAreUnique` does: where two collections share a question id the
  server serves the first one's copy at both places.
- `ExamClientPageProofs`, `SavedAreKept`. `SavedInv` follows an answer that a tab
  was told is saved through every place that could lose it: the cached
  `my_answer`, a fetch answered and not yet arrived, the copy of each submission
  in flight, the session, the report. Of every save it says what its copy must
  carry (`heard`, the answers the tab had been told of when it was taken), so that
  when two of them meet, what is left is what both carry. What the save last carried
  out brought is on file before the tab hears of it (`saved` in `told`), and is
  what it is then told, unless another save came in between. `SelectedFacts`
  says what the filter of `Merged` computes.
- `ExamClientPageProofs`, `ClientTyped`. The type invariant has three claims that
  are not about one variable: a page's summary counts the questions of the
  session's paper, for a paper never changes and an id is never given again
  (`PapersFill`, `PapersStay`, `ShapesInv`); submissions answer no question twice
  as long as only pages post (`WritesInv`, by `MergedFacts`); and only reports
  that exist are `discarded` (`PutOut`).
- `LoginProofs`: `TypeCorrect`, `OwnLogins`, `OverIsOver`, `ShownIsOwn`,
  `PacedVisitors`. The invariant `LInv` says of the three places a login passes
  (a page that waits, an answer on its way, the jar) that a nonce or token in
  it belongs to its browser; that a nonce on its way has not been seen by the
  browser and is on its way once; and that the jar never holds one that is
  over. The last needs the first two: the arrival of an answer ends all earlier
  attempts, but not the one it brings. `Paid` bounds the visits since any
  visit, the stored ticket and the tick due by the ticks since.

Model-checked only: every liveness property (fairness and ENABLED are beyond
the prover) and the five violated sentences, which no proof could establish.
Every other property of a run is a theorem.

## 5. What is not modelled, and the plan

Not modelled, with the reason (`components` in `PROJECT.json` has it per part):

- the Cloudflare header middleware and the caches of `pkg/oidc`: `main` does not
  wire the first, and only tests use the second;
- the closing of the ticket channel, which `main` never reaches, and key files;
- listings and digests of uploads, serving of assets, the handlers of uploads
  and associations: they read, or call one method that is modelled;
- XML decoding and validation beyond their outcome, the XML and the signature
  of reports, the text of mail;
- selection and rendering in the client, its pages of uploads, profile and login;
- start-up, flags, logging, static files; exam data, scripts and deployment.

The plan, in order; all of it is done.

- A. `ExamServer` with `SessionLifecycle`: the core.
- B. `ActorService` with `OnceService`: how the core is reached.
- C. `ExamTracking` with `ReportBook`: where its reports go.
- D. `ExamRepository`: where its exams come from.
- E. `ExamClient`: who uses it, and how that goes wrong.
- F. `Notifications`: from a session's consent to the mailbox.
- G. `Grader`: what a submission is worth.
- H. `Login`: who is let in.
- Proofs: for each of A to H, every property but the liveness ones.
