----------------------------- MODULE ExamRepository -----------------------------
(***************************************************************************)
(* Where exam documents come from: ExamRepository (pkg/models/question)    *)
(* over a directory of exam files and over the exams users upload, the     *)
(* latter through FsBasedAssociationManager and OnMemoryUserUploadManager. *)
(*                                                                         *)
(* A listing or a lookup reads a stream: a goroutine, the producer, walks  *)
(* over the sources' URLs, loads each, and sends one event per URL over an *)
(* unbuffered channel, so that a send and its receive are one step.        *)
(*                                                                         *)
(* The methods of the association manager run one at a time on its actor   *)
(* (see ActorService): each is one action.  Upload ids are never reused    *)
(* (the index is claimed as in ExamTracking): an upload goes through its   *)
(* life once.  An exam is its id and the file or upload it was read from;  *)
(* the exams of two users may have one id, /uploads/0/..., for upload      *)
(* numbers are per user.  URLs are walked in any order.                    *)
(***************************************************************************)
EXTENDS Naturals, Sequences, FiniteSets, GoMaps

CONSTANTS
    Users,
    Files,            \* the files of the exam directory
    Uploads,          \* the uploads users may make
    Owner,            \* [Uploads -> Users]
    Content,          \* [Uploads -> ids of the exam inside, or Broken]
    ExamIds,
    Editions,         \* external: [Files -> what the file may hold]
    FirstEdition,     \* external: [Files -> what it holds when the program starts]
    Lookups,          \* calls of GetExamDocumentById
    Listings,         \* GET /api/examdocs requests
    Caller,           \* [Lookups \cup Listings -> Users]
    Wanted,           \* [Lookups -> ExamIds]
    Filter,           \* [Listings -> ids of the exams whose labels match]
    Broken, Missing, Nothing, Failure,
    MaxEdits,         \* bound: changes to the directory
    MaxAssociations   \* bound: association ids handed out

Requests == Lookups \cup Listings
Sources  == Files \cup Uploads

\* An association's URL, a data URI named by its number, is no path of a file.
ASSUME NamesAssumption ==
    /\ Files \cap (Uploads \cup Nat) = {} /\ Lookups \cap Listings = {}
    /\ Broken \notin ExamIds /\ Missing \notin ExamIds
    /\ MaxEdits \in Nat /\ MaxAssociations \in Nat
ASSUME SourcesAssumption ==
    /\ Owner \in [Uploads -> Users]
    /\ Content \in [Uploads -> ExamIds \cup {Broken}]
    /\ Editions \in [Files -> SUBSET (ExamIds \cup {Broken, Missing})]
    /\ DOMAIN FirstEdition = Files /\ \A f \in Files : FirstEdition[f] \in Editions[f]
ASSUME RequestsAssumption ==
    /\ Caller \in [Requests -> Users]
    /\ Wanted \in [Lookups -> ExamIds]
    /\ Filter \in [Listings -> SUBSET ExamIds]

VARIABLES
    disk,           \* external: file -> what it holds
    uploads,        \* upload -> "none", "stored", "deleted"
    adding,         \* the uploads an AddAssociation has read and not yet recorded
    associations,   \* upload -> id of its association
    minted,         \* association ids handed out: 1..minted
    cache,          \* exam id -> exam
    pc,             \* request -> where it is
    walk,           \* request -> the walk over URLs under way on its behalf
    gone,           \* the requests whose context has ended
    out,            \* request -> the exams it has been given
    edits           \* bound counter

storeVars   == <<disk, uploads, adding, associations, minted, edits>>
requestVars == <<pc, walk, gone, out>>

\* History: the sources that have not changed since a request began.
VARIABLE steady

vars == <<storeVars, cache, requestVars, steady>>

Exam  == [id : ExamIds, from : Sources]
ASSUME EventAssumption ==
    Nothing \notin Exam \cup {Failure} /\ Failure \notin Exam

Walks == [scope : {"user", "system", "reload"},
          state : {"off", "opening", "loading", "caching", "sending", "closed"},
          todo  : SUBSET (Files \cup (1..minted)),
          event : Exam \cup {Nothing, Failure}]

TypeOK ==
    /\ DOMAIN disk = Files /\ \A f \in Files : disk[f] \in Editions[f]
    /\ uploads \in [Uploads -> {"none", "stored", "deleted"}]
    /\ adding \subseteq Uploads
    /\ associations \in [DOMAIN associations -> 1..minted]
    /\ DOMAIN associations \subseteq Uploads
    /\ minted \in 0..MaxAssociations
    /\ edits \in 0..MaxEdits
    /\ cache \in [DOMAIN cache -> Exam]
    /\ DOMAIN cache \subseteq ExamIds
    /\ pc \in [Requests -> {"idle", "user", "system", "cache", "reload", "recheck", "done"}]
    /\ walk \in [Requests -> Walks]
    /\ \A r \in Requests : walk[r].state \in {"caching", "sending"} <=> walk[r].event # Nothing
    /\ gone \subseteq Requests
    /\ out \in [Requests -> Seq(Exam)]
    /\ steady \in [Requests -> SUBSET Sources]

NewWalk(scope, state) == [scope |-> scope, state |-> state, todo |-> {}, event |-> Nothing]

Init ==
    /\ disk = FirstEdition
    /\ uploads = [n \in Uploads |-> "none"]
    /\ adding = {}
    /\ associations = <<>>
    /\ minted = 0
    /\ edits = 0
    /\ cache = <<>>
    /\ pc = [r \in Requests |-> "idle"]
    /\ walk = [r \in Requests |-> NewWalk("user", "off")]
    /\ gone = {}
    /\ out = [r \in Requests |-> <<>>]
    /\ steady = [r \in Requests |-> {}]
-------------------------------------------------------------------------------
(***************************************************************************)
(* What changes the sources.                                               *)
(***************************************************************************)
Changed(x) == steady' = [r \in Requests |-> steady[r] \ {x}]

EditFile(f, edition) ==
    /\ edits < MaxEdits
    /\ disk[f] # edition
    /\ disk' = [disk EXCEPT ![f] = edition]
    /\ edits' = edits + 1
    /\ Changed(f)
    /\ UNCHANGED <<uploads, adding, associations, minted, cache, requestVars>>

CreateNewUserUpload(n) ==
    /\ uploads[n] = "none"
    /\ uploads' = [uploads EXCEPT ![n] = "stored"]
    /\ UNCHANGED <<disk, adding, associations, minted, edits, cache, requestVars, steady>>

\* Nobody tells the associations.
DeleteUserUpload(n) ==
    /\ uploads[n] = "stored"
    /\ uploads' = [uploads EXCEPT ![n] = "deleted"]
    /\ UNCHANGED <<disk, adding, associations, minted, edits, cache, requestVars, steady>>

\* AddAssociation reads the upload on the caller's goroutine ...
ReadUpload(n) ==
    /\ uploads[n] = "stored"
    /\ adding' = adding \cup {n}
    /\ UNCHANGED <<disk, uploads, associations, minted, edits, cache, requestVars, steady>>

\* ... and records a copy of it, under a new id also if it was associated before.
RecordAssociation(n) ==
    /\ n \in adding
    /\ minted < MaxAssociations
    /\ adding' = adding \ {n}
    /\ minted' = minted + 1
    /\ associations' = Store(associations, n, minted + 1)
    /\ Changed(n)
    /\ UNCHANGED <<disk, uploads, edits, cache, requestVars>>

\* The archive is no tar, or the context ends.
AddAssociationFails(n) ==
    /\ n \in adding
    /\ adding' = adding \ {n}
    /\ UNCHANGED <<disk, uploads, associations, minted, edits, cache, requestVars, steady>>

DeleteAssociation(n) ==
    /\ n \in DOMAIN associations
    /\ associations' = Delete(associations, n)
    /\ Changed(n)
    /\ UNCHANGED <<disk, uploads, adding, minted, edits, cache, requestVars>>
-------------------------------------------------------------------------------
(***************************************************************************)
(* The walk over URLs: the goroutine of listExamDocuments ("system") or of *)
(* listExamDocumentsByUserId ("user"), or the loop of reload ("reload").   *)
(***************************************************************************)
Own(r) == {n \in DOMAIN associations : Owner[n] = Caller[r]}

\* GetByUserId: an association manager's URL names the association.  Get: ReadDir.
UrlsOf(r) == IF walk[r].scope = "user"
             THEN {associations[n] : n \in Own(r)}
             ELSE {f \in Files : disk[f] # Missing}

Holds(x) == IF x \in Files THEN disk[x] ELSE Content[x]

Located(url) ==
    IF url \in Files THEN {url} ELSE {n \in DOMAIN associations : associations[n] = url}

\* LoadFrom: the exam as the source holds it now, if it still does. At most one.
Loaded(url) == {[id |-> Holds(x), from |-> x] :
                   x \in {y \in Located(url) : Holds(y) \in ExamIds}}

\* Only a context that has ended makes the association manager give up; the walk
\* over the directory is given context.Background() by a listing.
MayFail(r) == r \in gone /\ walk[r].scope = "user"

WalkTo(r, w) == walk' = [walk EXCEPT ![r] = w]

OpenSource(r) ==
    /\ walk[r].state = "opening"
    /\ \/ WalkTo(r, [walk[r] EXCEPT !.state = "loading", !.todo = UrlsOf(r)])
       \/ MayFail(r) /\ WalkTo(r, [walk[r] EXCEPT !.state = "sending", !.event = Failure])
    /\ UNCHANGED <<storeVars, cache, pc, gone, out, steady>>

\* LabelFilter.Matches; a lookup filters nothing.
Passes(r, exam) == r \in Listings => exam.id \in Filter[r]

\* Where a loaded exam goes: per-user exams are not cached.
AlwaysCached(r, exam) == "caching"
AfterLoad(r, exam) ==
    IF walk[r].scope # "user" THEN "caching"
    ELSE IF Passes(r, exam) THEN "sending" ELSE "loading"

\* A URL that fails to load is an in-band event, or is skipped by reload.
AbandonRest(rest) == {}
AfterFailure(rest) == rest

LoadSucceeds(r, url) ==
    \E exam \in Loaded(url) :
      LET next == AfterLoad(r, exam)
      IN  WalkTo(r, [walk[r] EXCEPT
            !.state = next,
            !.todo  = @ \ {url},
            !.event = IF next = "loading" THEN Nothing ELSE exam])

LoadFails(r, url) ==
    /\ Loaded(url) = {} \/ MayFail(r)
    /\ LET reported == walk[r].scope # "reload"
       IN  WalkTo(r, [walk[r] EXCEPT
             !.state = IF reported THEN "sending" ELSE "loading",
             !.todo  = AfterFailure(@ \ {url}),
             !.event = IF reported THEN Failure ELSE Nothing])

Load(r) ==
    /\ walk[r].state = "loading"
    /\ \E url \in walk[r].todo : LoadSucceeds(r, url) \/ LoadFails(r, url)
    /\ UNCHANGED <<storeVars, cache, pc, gone, out, steady>>

\* cacheExam, whether the exam passes the filter or not
CacheExam(r) ==
    /\ walk[r].state = "caching"
    /\ cache' = Store(cache, walk[r].event.id, walk[r].event)
    /\ IF walk[r].scope # "reload" /\ Passes(r, walk[r].event)
       THEN WalkTo(r, [walk[r] EXCEPT !.state = "sending"])
       ELSE WalkTo(r, [walk[r] EXCEPT !.state = "loading", !.event = Nothing])
    /\ UNCHANGED <<storeVars, pc, gone, out, steady>>

\* defer close(events); reload returns
CloseNever(r) == FALSE
Exhausted(r) == walk[r].todo = {}

Close(r) ==
    /\ walk[r].state = "loading" /\ Exhausted(r)
    /\ WalkTo(r, [walk[r] EXCEPT !.state = "closed"])
    /\ UNCHANGED <<storeVars, cache, pc, gone, out, steady>>
-------------------------------------------------------------------------------
(***************************************************************************)
(* The requests.                                                           *)
(***************************************************************************)
Goto(r, where) == pc' = [pc EXCEPT ![r] = where]

\* Both kinds of request read the caller's own exams first.
CacheFirst(r) == IF r \in Lookups THEN "cache" ELSE "user"
FirstStep(r) == "user"

Begin(r) ==
    /\ pc[r] = "idle"
    /\ Goto(r, FirstStep(r))
    /\ WalkTo(r, NewWalk("user", "opening"))
    /\ steady' = [steady EXCEPT ![r] = {f \in Files : disk[f] # Missing} \cup DOMAIN associations]
    /\ UNCHANGED <<storeVars, cache, gone, out>>

\* The client disconnects.
Disconnect(r) ==
    /\ pc[r] \notin {"idle", "done"}
    /\ gone' = gone \cup {r}
    /\ UNCHANGED <<storeVars, cache, pc, walk, out, steady>>

Give(r, exam) == out' = [out EXCEPT ![r] = Append(@, exam)]

ReceivedOnly(r) == WalkTo(r, [walk[r] EXCEPT !.state = "loading"])
Received(r) == WalkTo(r, [walk[r] EXCEPT !.state = "loading", !.event = Nothing])

\* GetExamDocumentById returns as soon as it has seen the exam it wants.
LookupReceives(l) ==
    /\ l \in Lookups /\ pc[l] = "user" /\ walk[l].state = "sending"
    /\ Received(l)
    /\ IF walk[l].event # Failure /\ walk[l].event.id = Wanted[l]
       THEN Give(l, walk[l].event) /\ Goto(l, "done")
       ELSE UNCHANGED <<out, pc>>
    /\ UNCHANGED <<storeVars, cache, gone, steady>>

\* stream: once the client is gone events are drained and thrown away.
StopsWhenGone(s) == s \notin gone
Drains(s) == TRUE

ListingReceives(s) ==
    /\ s \in Listings /\ pc[s] \in {"user", "system"} /\ walk[s].state = "sending"
    /\ Drains(s)
    /\ Received(s)
    /\ \/ walk[s].event # Failure /\ Give(s, walk[s].event)
       \/ (walk[s].event = Failure \/ s \in gone) /\ UNCHANGED out
    /\ UNCHANGED <<storeVars, cache, pc, gone, steady>>

\* The range over the user's stream is over.
UserStreamEnds(r) ==
    /\ pc[r] = "user" /\ walk[r].state = "closed"
    /\ IF r \in Lookups
       THEN Goto(r, "cache") /\ UNCHANGED walk
       ELSE Goto(r, "system") /\ WalkTo(r, NewWalk("system", "opening"))
    /\ UNCHANGED <<storeVars, cache, gone, out, steady>>

SystemStreamEnds(s) ==
    /\ pc[s] = "system" /\ walk[s].state = "closed"
    /\ Goto(s, "done")
    /\ UNCHANGED <<storeVars, cache, walk, gone, out, steady>>

\* cachedExam: a hit is the answer; a miss leads to reload, and then to "not found".
ConsultCache(l) ==
    /\ pc[l] \in {"cache", "recheck"}
    /\ IF Wanted[l] \in DOMAIN cache
       THEN Give(l, cache[Wanted[l]]) /\ Goto(l, "done") /\ UNCHANGED walk
       ELSE /\ UNCHANGED out
            /\ IF pc[l] = "cache"
               THEN Goto(l, "reload") /\ WalkTo(l, NewWalk("reload", "opening"))
               ELSE Goto(l, "done") /\ UNCHANGED walk
    /\ UNCHANGED <<storeVars, cache, gone, steady>>

ReloadEnds(l) ==
    /\ pc[l] = "reload" /\ walk[l].state = "closed"
    /\ Goto(l, "recheck")
    /\ UNCHANGED <<storeVars, cache, walk, gone, out, steady>>
-------------------------------------------------------------------------------
Environment ==
    \/ \E f \in Files : \E e \in Editions[f] : EditFile(f, e)
    \/ \E n \in Uploads :
         \/ CreateNewUserUpload(n) \/ DeleteUserUpload(n)
         \/ ReadUpload(n) \/ RecordAssociation(n) \/ AddAssociationFails(n)
         \/ DeleteAssociation(n)

Produce(r) == OpenSource(r) \/ Load(r) \/ CacheExam(r) \/ Close(r)
Consume(r) == LookupReceives(r) \/ ListingReceives(r) \/ UserStreamEnds(r)
           \/ SystemStreamEnds(r) \/ ConsultCache(r) \/ ReloadEnds(r)

Next == \/ Environment
        \/ \E r \in Requests : Begin(r) \/ Disconnect(r) \/ Produce(r) \/ Consume(r)

\* A goroutine that can go on does.  Nothing makes clients send requests.
Fairness == \A r \in Requests : WF_vars(Produce(r)) /\ WF_vars(Consume(r))

Spec == Init /\ [][Next]_vars
FairSpec == Spec /\ Fairness
-------------------------------------------------------------------------------
(***************************************************************************)
(* Properties.                                                             *)
(***************************************************************************)
Visible(r, x) == x \in Files \/ Owner[x] = Caller[r]

\* "Per-user exams are not cached": what a user uploaded is given to no other user,
\* although the exams of two users may have the same id.
OwnExamsOnly ==
    \A r \in Requests : \A i \in DOMAIN out[r] : Visible(r, out[r][i].from)

\* A lookup fails only if no source that lasted from its beginning holds the exam,
\* whatever broken files and concurrent changes there are.
LastingExamsAreFound ==
    \A l \in Lookups \ gone :
      pc[l] = "done" /\ out[l] = <<>> =>
        \A x \in steady[l] : Visible(l, x) => Holds(x) # Wanted[l]

\* "User-scoped exams take precedence over system-wide exams", also over cached ones.
OwnExamTakesPrecedence ==
    \A l \in Lookups \ gone :
      pc[l] = "done" /\ (\E x \in steady[l] \cap Uploads : Visible(l, x) /\ Holds(x) = Wanted[l])
        => out[l][1].from \in Uploads

\* A listing gives its client every matching exam of a lasting source exactly once,
\* broken sources or not.
ListingIsComplete ==
    \A s \in Listings \ gone : pc[s] = "done" =>
      \A x \in steady[s] : Visible(s, x) /\ Holds(x) \in Filter[s] =>
        Cardinality({i \in DOMAIN out[s] : out[s][i].from = x}) = 1

\* Every request ends.
EveryRequestReturns == \A r \in Requests : pc[r] # "idle" ~> pc[r] = "done"

\* "If the client disconnects mid-stream, draining continues, so the producer is not
\* left blocked forever": no producer of a listing stays blocked on its channel.
ListingsStrandNoProducer ==
    \A s \in Listings : walk[s].state = "sending" ~> walk[s].state # "sending"

\* "Closes the channel once every source has been exhausted": every producer ends.
EveryProducerCloses ==
    \A r \in Requests : walk[r].state = "opening" ~> walk[r].state = "closed"
===============================================================================
