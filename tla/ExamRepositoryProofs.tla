-------------------------- MODULE ExamRepositoryProofs --------------------------
(***************************************************************************)
(* ExamRepository, for any users, files, uploads, lookups and listings:    *)
(* what a request relies on (RInv) survives its own steps, those of every  *)
(* other request (Bystander) and every change to the sources               *)
(* (EnvironmentKeeps).  A source that stays as it was since a request      *)
(* began is ahead of the request's walk, then on its way to it as the      *)
(* event of the walk, then found: in the cache, or among what it was given *)
(* -- exactly one of these at a time for a listing (InTurn).               *)
(***************************************************************************)
EXTENDS ExamRepository, GoMapsProofs, FiniteSetTheorems

Steps == {"idle", "user", "system", "cache", "reload", "recheck", "done"}

\* A walk as TypeOK has it.
WalkTyped(w) == w \in Walks /\ (w.state \in {"caching", "sending"} <=> w.event # Nothing)

\* The walk of every request is typed.
LEMMA RequestTyped ==
    ASSUME TypeOK, NEW r \in Requests
    PROVE  WalkTyped(walk[r])
  BY DEF TypeOK, WalkTyped

\* What being typed says of the fields of a walk.
LEMMA WalkFields ==
    ASSUME TypeOK, NEW w, WalkTyped(w)
    PROVE  /\ w.scope \in {"user", "system", "reload"}
           /\ w.state \in {"off", "opening", "loading", "caching", "sending", "closed"}
           /\ w.todo \subseteq Files \cup (1..minted)
           /\ w.event \in Exam \cup {Nothing, Failure}
           /\ w.state \in {"caching", "sending"} <=> w.event # Nothing
           /\ w = [scope |-> w.scope, state |-> w.state, todo |-> w.todo, event |-> w.event]
  BY DEF WalkTyped, Walks

\* Putting a typed walk in the place of that of r leaves the others alone.
LEMMA WalkToFacts ==
    ASSUME TypeOK, NEW r \in Requests, NEW w, WalkTyped(w), WalkTo(r, w), minted' = minted
    PROVE  /\ walk' \in [Requests -> Walks]' /\ walk'[r] = w
           /\ \A q \in Requests \ {r} : walk'[q] = walk[q]
           /\ \A q \in Requests : walk'[q].state \in {"caching", "sending"} <=> walk'[q].event # Nothing
  BY DEF TypeOK, WalkTyped, WalkTo, Walks

\* Initially no walk is under way and every file holds an edition of it.
LEMMA InitType == ASSUME Init PROVE TypeOK
  <1>1. /\ DOMAIN disk = Files /\ \A f \in Files : disk[f] \in Editions[f]
    BY SourcesAssumption DEF Init
  <1>2. associations \in [DOMAIN associations -> 1..minted] /\ DOMAIN associations = {}
    BY DEF Init
  <1>3. cache \in [DOMAIN cache -> Exam] /\ DOMAIN cache = {}
    BY DEF Init
  <1>4. /\ minted \in 0..MaxAssociations /\ edits \in 0..MaxEdits
    BY NamesAssumption DEF Init
  <1>5. walk \in [Requests -> Walks]
    BY DEF Init, Walks, NewWalk
  <1>6. \A r \in Requests : walk[r].state \notin {"caching", "sending"} /\ walk[r].event = Nothing
    BY DEF Init, NewWalk
  <1> QED BY <1>1, <1>2, <1>3, <1>4, <1>5, <1>6 DEF Init, TypeOK

\* Changes to the sources touch no request; at most one source stops being steady.
LEMMA EnvironmentFrame ==
    ASSUME TypeOK, Environment
    PROVE  /\ UNCHANGED <<cache, pc, walk, gone, out>>
           /\ minted \in Nat /\ minted' \in Nat /\ minted' >= minted
           /\ \/ UNCHANGED steady
              \/ \E x : steady' = [r \in Requests |-> steady[r] \ {x}]
  <1>0. minted \in Nat
    BY NamesAssumption DEF TypeOK
  <1>1. CASE \E f \in Files : \E e \in Editions[f] : EditFile(f, e)
    BY <1>0, <1>1 DEF EditFile, Changed, requestVars
  <1>2. CASE \E n \in Uploads : RecordAssociation(n) \/ DeleteAssociation(n)
    BY <1>0, <1>2 DEF RecordAssociation, DeleteAssociation, Changed, requestVars
  <1>3. CASE \E n \in Uploads : \/ CreateNewUserUpload(n) \/ DeleteUserUpload(n)
                               \/ ReadUpload(n) \/ AddAssociationFails(n)
    BY <1>0, <1>3 DEF CreateNewUserUpload, DeleteUserUpload, ReadUpload,
      AddAssociationFails, requestVars
  <1> QED BY <1>1, <1>2, <1>3 DEF Environment

\* Changes to the sources keep the types.
LEMMA EnvironmentType == ASSUME TypeOK, Environment PROVE TypeOK'
  <1>0. /\ UNCHANGED <<cache, pc, walk, gone, out>> /\ minted \in Nat /\ minted' \in Nat
        /\ minted' >= minted
        /\ \/ UNCHANGED steady
           \/ \E x : steady' = [r \in Requests |-> steady[r] \ {x}]
    BY EnvironmentFrame
  <1>1. walk' \in [Requests -> Walks']
    <2>1. Walks \subseteq Walks'
      BY <1>0 DEF Walks
    <2> QED BY <1>0, <2>1 DEF TypeOK
  <1>2. steady' \in [Requests -> SUBSET Sources]
    BY <1>0 DEF TypeOK
  <1>3. ASSUME NEW f \in Files, NEW e \in Editions[f], EditFile(f, e)
        PROVE  TypeOK'
    <2>1. /\ DOMAIN disk' = Files /\ \A g \in Files : disk'[g] \in Editions[g]
          /\ edits' \in 0..MaxEdits
      BY <1>3, NamesAssumption DEF EditFile, TypeOK
    <2>2. UNCHANGED <<uploads, adding, associations, minted>>
      BY <1>3 DEF EditFile
    <2> QED BY <1>0, <1>1, <1>2, <2>1, <2>2 DEF TypeOK
  <1>4. ASSUME NEW n \in Uploads,
               \/ CreateNewUserUpload(n) \/ DeleteUserUpload(n)
               \/ ReadUpload(n) \/ AddAssociationFails(n)
        PROVE  TypeOK'
    <2>1. /\ uploads' \in [Uploads -> {"none", "stored", "deleted"}]
          /\ adding' \subseteq Uploads
          /\ UNCHANGED <<disk, associations, minted, edits>>
      BY <1>4 DEF CreateNewUserUpload, DeleteUserUpload, ReadUpload, AddAssociationFails, TypeOK
    <2> QED BY <1>0, <1>1, <1>2, <2>1 DEF TypeOK
  <1>5. ASSUME NEW n \in Uploads, RecordAssociation(n)
        PROVE  TypeOK'
    <2>1. /\ adding' \subseteq Uploads /\ minted' = minted + 1 /\ minted' \in 0..MaxAssociations
          /\ associations' = Store(associations, n, minted + 1)
          /\ UNCHANGED <<disk, uploads, edits>>
      BY <1>5, NamesAssumption DEF RecordAssociation, TypeOK
    <2>2. /\ DOMAIN associations' = DOMAIN associations \cup {n}
          /\ associations' \in [DOMAIN associations \cup {n} -> 1..minted']
      <3>1. associations \in [DOMAIN associations -> 1..minted'] /\ minted + 1 \in 1..minted'
        BY <1>0, <2>1 DEF TypeOK
      <3> QED BY <2>1, <3>1, StoreFacts, StoreType
    <2> QED BY <1>0, <1>1, <1>2, <2>1, <2>2 DEF TypeOK
  <1>6. ASSUME NEW n \in Uploads, DeleteAssociation(n)
        PROVE  TypeOK'
    <2>1. /\ associations' = Delete(associations, n)
          /\ UNCHANGED <<disk, uploads, adding, minted, edits>>
      BY <1>6 DEF DeleteAssociation
    <2>2. /\ DOMAIN associations' = DOMAIN associations \ {n}
          /\ associations' \in [DOMAIN associations \ {n} -> 1..minted]
      BY <2>1, DeleteFacts, DeleteType DEF TypeOK
    <2> QED BY <1>0, <1>1, <1>2, <2>1, <2>2 DEF TypeOK
  <1> QED BY <1>3, <1>4, <1>5, <1>6 DEF Environment

\* A step of request r that keeps the types of what it changes keeps TypeOK.
LEMMA RequestStepTyped ==
    ASSUME TypeOK, UNCHANGED storeVars,
           cache' \in [DOMAIN cache' -> Exam], DOMAIN cache' \subseteq ExamIds,
           pc' \in [Requests -> Steps], gone' \subseteq Requests,
           out' \in [Requests -> Seq(Exam)], steady' \in [Requests -> SUBSET Sources],
           \/ walk' = walk
           \/ \E r \in Requests : \E w : WalkTyped(w) /\ WalkTo(r, w)
    PROVE  TypeOK'
  <1>1. /\ walk' \in [Requests -> Walks']
        /\ \A q \in Requests : walk'[q].state \in {"caching", "sending"} <=> walk'[q].event # Nothing
    <2>1. CASE walk' = walk
      BY <2>1 DEF TypeOK, storeVars, Walks
    <2>2. CASE walk' # walk
      <3>1. PICK r \in Requests : \E w : WalkTyped(w) /\ WalkTo(r, w)
        BY <2>2
      <3>2. PICK w : WalkTyped(w) /\ WalkTo(r, w)
        BY <3>1
      <3> QED BY <3>2, WalkToFacts DEF storeVars
    <2> QED BY <2>1, <2>2
  <1> QED BY <1>1 DEF TypeOK, storeVars, Steps
--------------------------------------------------------------------------------
\* No two associations have one URL.
AssociationsApart ==
    \A m, n \in DOMAIN associations : associations[m] = associations[n] => m = n

CacheOfFiles == \A k \in DOMAIN cache : cache[k].from \in Files

\* A walk on behalf of r stays in its scope.
WalkFits(r) ==
    LET w == walk[r] IN
    /\ w.state \in {"off", "opening", "closed"} => w.todo = {}
    /\ w.state = "caching" => w.scope # "user" /\ w.event \in Exam
    /\ w.scope = "user" =>
         /\ w.todo \cap Files = {}
         /\ \A url \in w.todo : \A n \in DOMAIN associations :
              associations[n] = url => Owner[n] = Caller[r]
         /\ w.event \in Exam => w.event.from \in Uploads /\ Owner[w.event.from] = Caller[r]
    /\ w.scope # "user" =>
         w.todo \subseteq Files /\ (w.event \in Exam => w.event.from \in Files)
    /\ pc[r] = "user" => w.scope = "user"
    /\ pc[r] = "system" => w.scope = "system" /\ r \in Listings
    /\ pc[r] = "reload" => w.scope = "reload" /\ r \in Lookups
    /\ pc[r] \in {"cache", "recheck"} => r \in Lookups

\* A source that is steady for r is there, and an event read from it is as it reads now.
SteadyThere(r) ==
    \A x \in steady[r] :
      /\ \/ x \in Files /\ disk[x] # Missing
         \/ x \in DOMAIN associations
      /\ walk[r].event \in Exam /\ walk[r].event.from = x => walk[r].event.id = Holds(x)

OutVisible(r) == \A i \in DOMAIN out[r] : Visible(r, out[r][i].from)

\* Source x is still to be loaded by the walk for r, or its exam e is on its way.
Ahead(r, x) ==
    \/ walk[r].state = "opening"
    \/ x \in Files /\ x \in walk[r].todo
    \/ x \in Uploads /\ associations[x] \in walk[r].todo
OnItsWay(r, x) == walk[r].event \in Exam /\ walk[r].event.from = x

\* Lookup l will find the exam it wants if x, which is steady, holds it.
WillFind(l, x) ==
    LET wanted == walk[l].event \in Exam /\ walk[l].event.id = Wanted[l] IN
    /\ x \in Uploads =>
         \/ pc[l] = "user" /\ (Ahead(l, x) \/ wanted)
         \/ pc[l] = "done" /\ out[l] # <<>> /\ out[l][1].from \in Uploads
    /\ x \in Files =>
         /\ pc[l] = "reload" => Ahead(l, x) \/ wanted \/ Wanted[l] \in DOMAIN cache
         /\ pc[l] = "recheck" => Wanted[l] \in DOMAIN cache
         /\ pc[l] = "done" => out[l] # <<>>

\* The places of exams from x in what listing s has given.
Given(s, x) == {i \in DOMAIN out[s] : out[s][i].from = x}
GivenOnce(s, x) == \E i \in DOMAIN out[s] : Given(s, x) = {i}

\* Listing s gives the exam of x, which is steady and matches, once.
InTurn(s, x) ==
    \/ Ahead(s, x) /\ ~OnItsWay(s, x) /\ Given(s, x) = {}
    \/ ~Ahead(s, x) /\ OnItsWay(s, x) /\ Given(s, x) = {}
    \/ ~Ahead(s, x) /\ ~OnItsWay(s, x) /\ GivenOnce(s, x)

WillGive(s, x) ==
    /\ pc[s] = "user" /\ x \in Uploads => InTurn(s, x)
    /\ pc[s] = "user" /\ x \in Files => Given(s, x) = {}
    /\ pc[s] = "system" /\ x \in Files => InTurn(s, x)
    /\ pc[s] = "system" /\ x \in Uploads => GivenOnce(s, x)
    /\ pc[s] = "done" => GivenOnce(s, x)

LookupServed(l) ==
    /\ pc[l] # "done" => out[l] = <<>>
    /\ l \notin gone => \A x \in steady[l] :
         Visible(l, x) /\ Holds(x) = Wanted[l] => WillFind(l, x)

ListingServed(s) ==
    /\ pc[s] = "idle" => out[s] = <<>>
    /\ s \notin gone => \A x \in steady[s] :
         Visible(s, x) /\ Holds(x) \in Filter[s] => WillGive(s, x)

RInv(r) ==
    /\ WalkFits(r) /\ SteadyThere(r) /\ OutVisible(r)
    /\ r \in Lookups => LookupServed(r)
    /\ r \in Listings => ListingServed(r)

RepInv ==
    TypeOK /\ AssociationsApart /\ CacheOfFiles /\ \A r \in Requests : RInv(r)

\* A step of another request leaves RInv(r) alone.
LEMMA Bystander ==
    ASSUME TypeOK, NEW r \in Requests, RInv(r), UNCHANGED <<disk, associations>>,
           walk'[r] = walk[r], pc'[r] = pc[r], out'[r] = out[r], steady'[r] = steady[r],
           r \in gone' <=> r \in gone, DOMAIN cache \subseteq DOMAIN cache'
    PROVE  RInv(r)'
  <1>1. WalkFits(r)'
    BY DEF RInv, WalkFits
  <1>2. \A x : Holds(x)' = Holds(x) /\ Ahead(r, x)' = Ahead(r, x)
    BY DEF Holds, Ahead
  <1>3. SteadyThere(r)' /\ OutVisible(r)'
    BY <1>2 DEF RInv, SteadyThere, OutVisible
  <1>4. LookupServed(r) => LookupServed(r)'
    BY <1>2 DEF LookupServed, WillFind
  <1>5. \A x : Given(r, x)' = Given(r, x)
    BY DEF Given
  <1>6. \A x : InTurn(r, x)' = InTurn(r, x) /\ GivenOnce(r, x)' = GivenOnce(r, x)
    BY <1>2, <1>5 DEF InTurn, OnItsWay, GivenOnce
  <1>7. \A x : WillGive(r, x)' = WillGive(r, x)
    BY <1>5, <1>6 DEF WillGive
  <1>8. ListingServed(r) => ListingServed(r)'
    BY <1>2, <1>7 DEF ListingServed
  <1> QED BY <1>1, <1>3, <1>4, <1>8 DEF RInv
--------------------------------------------------------------------------------
\* A new association has a URL of its own; the others keep theirs.
LEMMA EnvironmentApart ==
    ASSUME TypeOK, AssociationsApart, Environment
    PROVE  AssociationsApart'
  <1>1. CASE UNCHANGED associations
    BY <1>1 DEF AssociationsApart
  <1>2. ASSUME NEW n \in Uploads, RecordAssociation(n)
        PROVE  AssociationsApart'
    <2>1. associations' = Store(associations, n, minted + 1)
      BY <1>2 DEF RecordAssociation
    <2>2. /\ DOMAIN associations' = DOMAIN associations \cup {n}
          /\ associations'[n] = minted + 1
          /\ \A m \in DOMAIN associations \ {n} : associations'[m] = associations[m]
      BY <2>1 DEF Store
    <2>3. minted \in Nat /\ \A m \in DOMAIN associations : associations[m] \in 1..minted
      BY NamesAssumption DEF TypeOK
    <2> QED BY <2>2, <2>3 DEF AssociationsApart
  <1>3. ASSUME NEW n \in Uploads, DeleteAssociation(n)
        PROVE  AssociationsApart'
    <2>1. associations' = Delete(associations, n)
      BY <1>3 DEF DeleteAssociation
    <2>2. /\ DOMAIN associations' = DOMAIN associations \ {n}
          /\ \A m \in DOMAIN associations \ {n} : associations'[m] = associations[m]
      BY <2>1, DeleteFacts
    <2> QED BY <2>2 DEF AssociationsApart
  <1> QED BY <1>1, <1>2, <1>3 DEF Environment, EditFile, CreateNewUserUpload,
      DeleteUserUpload, ReadUpload, AddAssociationFails

\* A source that is still steady after a change was so before, holds what it held and has its URL;
\* a URL handed out earlier names no new association.
LEMMA EnvironmentFacts ==
    ASSUME TypeOK, Environment, NEW r \in Requests
    PROVE  /\ \A x \in steady'[r] :
                /\ x \in steady[r]
                /\ x \in Files => disk'[x] = disk[x]
                /\ x \in DOMAIN associations =>
                     x \in DOMAIN associations' /\ associations'[x] = associations[x]
           /\ \A n \in DOMAIN associations' : associations'[n] \in 1..minted =>
                n \in DOMAIN associations /\ associations[n] = associations'[n]
  <1>1. ASSUME NEW f \in Files, NEW e \in Editions[f], EditFile(f, e)
        PROVE  /\ UNCHANGED associations
               /\ \A x \in steady'[r] :
                    x \in steady[r] /\ (x \in Files => disk'[x] = disk[x])
    BY <1>1 DEF EditFile, Changed, TypeOK
  <1>2. ASSUME NEW n \in Uploads,
               \/ CreateNewUserUpload(n) \/ DeleteUserUpload(n)
               \/ ReadUpload(n) \/ AddAssociationFails(n)
        PROVE  UNCHANGED <<associations, disk, steady>>
    BY <1>2 DEF CreateNewUserUpload, DeleteUserUpload, ReadUpload, AddAssociationFails
  <1>3. ASSUME NEW n \in Uploads, RecordAssociation(n)
        PROVE  /\ UNCHANGED disk
               /\ \A x \in steady'[r] : x \in steady[r] /\ x # n
               /\ \A m \in DOMAIN associations' : associations'[m] \in 1..minted =>
                    m \in DOMAIN associations
               /\ \A m \in DOMAIN associations \ {n} :
                    m \in DOMAIN associations' /\ associations'[m] = associations[m]
               /\ associations'[n] \notin 1..minted
    <2>1. associations' = Store(associations, n, minted + 1) /\ UNCHANGED disk
          /\ \A x \in steady'[r] : x \in steady[r] /\ x # n
      BY <1>3 DEF RecordAssociation, Changed, TypeOK
    <2>2. /\ DOMAIN associations' = DOMAIN associations \cup {n}
          /\ associations'[n] = minted + 1
          /\ \A m \in DOMAIN associations \ {n} : associations'[m] = associations[m]
      BY <2>1 DEF Store
    <2>3. minted \in Nat /\ \A m \in DOMAIN associations : associations[m] \in 1..minted
      BY NamesAssumption DEF TypeOK
    <2> QED BY <2>1, <2>2, <2>3
  <1>4. ASSUME NEW n \in Uploads, DeleteAssociation(n)
        PROVE  /\ UNCHANGED disk
               /\ \A x \in steady'[r] : x \in steady[r] /\ x # n
               /\ DOMAIN associations' = DOMAIN associations \ {n}
               /\ \A m \in DOMAIN associations \ {n} : associations'[m] = associations[m]
    <2>1. associations' = Delete(associations, n) /\ UNCHANGED disk
          /\ \A x \in steady'[r] : x \in steady[r] /\ x # n
      BY <1>4 DEF DeleteAssociation, Changed, TypeOK
    <2> QED BY <2>1, DeleteFacts
  <1>5. CASE \E f \in Files : \E e \in Editions[f] : EditFile(f, e)
    BY <1>1, <1>5
  <1>6. CASE \E n \in Uploads : \/ CreateNewUserUpload(n) \/ DeleteUserUpload(n)
                               \/ ReadUpload(n) \/ AddAssociationFails(n)
    BY <1>2, <1>6
  <1>7. CASE \E n \in Uploads : RecordAssociation(n)
    BY <1>3, <1>7
  <1>8. CASE \E n \in Uploads : DeleteAssociation(n)
    BY <1>4, <1>8
  <1> QED BY <1>5, <1>6, <1>7, <1>8 DEF Environment

\* No change to the sources breaks what a request relies on.
LEMMA EnvironmentKeeps ==
    ASSUME TypeOK, Environment, NEW r \in Requests, RInv(r)
    PROVE  RInv(r)'
  <1>1. UNCHANGED <<cache, pc, walk, gone, out>>
    BY EnvironmentFrame
  <1> DEFINE S == steady'[r]
  <1>2. \A x \in S :
          /\ x \in steady[r]
          /\ x \in Files => disk'[x] = disk[x]
          /\ x \in DOMAIN associations =>
               x \in DOMAIN associations' /\ associations'[x] = associations[x]
    BY EnvironmentFacts
  <1>3. \A n \in DOMAIN associations' : associations'[n] \in 1..minted =>
          n \in DOMAIN associations /\ associations[n] = associations'[n]
    BY EnvironmentFacts
  <1>4. walk[r].todo \subseteq Files \cup (1..minted)
    BY RequestTyped, WalkFields
  <1>5. WalkFits(r)'
    BY <1>1, <1>3, <1>4 DEF RInv, WalkFits
  <1>6. \A x \in S : Holds(x)' = Holds(x)
    BY <1>2 DEF Holds
  <1>7. \A x \in S : x \in Files \/ x \in DOMAIN associations
    BY <1>2 DEF RInv, SteadyThere
  <1>8. \A x \in S : Ahead(r, x)' = Ahead(r, x)
    BY <1>1, <1>2, <1>7, NamesAssumption DEF Ahead
  <1>9. SteadyThere(r)' /\ OutVisible(r)'
    BY <1>1, <1>2, <1>6 DEF RInv, SteadyThere, OutVisible, Visible
  <1>10. \A x \in S : WillFind(r, x)' = WillFind(r, x)
    BY <1>1, <1>8 DEF WillFind
  <1>11. LookupServed(r) => LookupServed(r)'
    BY <1>1, <1>2, <1>6, <1>10 DEF LookupServed, Visible
  <1>12. \A x : Given(r, x)' = Given(r, x)
    BY <1>1 DEF Given
  <1>13. \A x \in S : InTurn(r, x)' = InTurn(r, x) /\ GivenOnce(r, x)' = GivenOnce(r, x)
    BY <1>1, <1>8, <1>12 DEF InTurn, OnItsWay, GivenOnce
  <1>14. \A x \in S : WillGive(r, x)' = WillGive(r, x)
    BY <1>1, <1>12, <1>13 DEF WillGive
  <1>15. ListingServed(r) => ListingServed(r)'
    BY <1>1, <1>2, <1>6, <1>14 DEF ListingServed, Visible
  <1> QED BY <1>5, <1>9, <1>11, <1>15 DEF RInv
--------------------------------------------------------------------------------
\* What a request asks of a source.
Matches(r, x) == IF r \in Lookups THEN Holds(x) = Wanted[r] ELSE Holds(x) \in Filter[r]

\* A broken or missing source matches nothing.
LEMMA MatchesAnExam ==
    ASSUME NEW r \in Requests, NEW x, Matches(r, x)
    PROVE  Holds(x) \in ExamIds
  BY RequestsAssumption, NamesAssumption DEF Matches, Requests

\* A step moves the exam of x at most from ahead of the walk to its event.
Moves(r, x) ==
    \/ (Ahead(r, x)' <=> Ahead(r, x)) /\ (OnItsWay(r, x)' <=> OnItsWay(r, x))
    \/ Ahead(r, x) /\ ~OnItsWay(r, x) /\ ~Ahead(r, x)' /\ OnItsWay(r, x)'

\* A step of request r is its own affair.
LEMMA RequestStep ==
    ASSUME RepInv, NEW r \in Requests, UNCHANGED storeVars,
           TypeOK', CacheOfFiles', RInv(r)', DOMAIN cache \subseteq DOMAIN cache',
           \A q \in Requests \ {r} :
             /\ walk'[q] = walk[q] /\ pc'[q] = pc[q] /\ out'[q] = out[q]
             /\ steady'[q] = steady[q] /\ (q \in gone' <=> q \in gone)
    PROVE  RepInv'
  <1>1. AssociationsApart'
    BY DEF RepInv, AssociationsApart, storeVars
  <1>2. ASSUME NEW q \in Requests
        PROVE  RInv(q)'
    BY <1>2, Bystander DEF RepInv, storeVars
  <1> QED BY <1>1, <1>2 DEF RepInv

\* A step that only takes the walk of r further changes nothing else.
LEMMA QuietStep ==
    ASSUME RepInv, NEW r \in Requests, NEW w, WalkTyped(w), WalkTo(r, w),
           UNCHANGED <<storeVars, cache, pc, gone, out, steady>>, RInv(r)'
    PROVE  RepInv'
  <1>1. TypeOK /\ CacheOfFiles
    BY DEF RepInv
  <1>2. TypeOK'
    <2>1. /\ cache' \in [DOMAIN cache' -> Exam] /\ DOMAIN cache' \subseteq ExamIds
          /\ pc' \in [Requests -> Steps] /\ gone' \subseteq Requests
          /\ out' \in [Requests -> Seq(Exam)] /\ steady' \in [Requests -> SUBSET Sources]
      BY <1>1 DEF TypeOK, Steps
    <2> QED BY <1>1, <2>1, RequestStepTyped
  <1>3. \A q \in Requests \ {r} : walk'[q] = walk[q]
    BY <1>1, WalkToFacts DEF storeVars
  <1>4. CacheOfFiles'
    BY <1>1 DEF CacheOfFiles
  <1> QED BY <1>2, <1>3, <1>4, RequestStep

\* A step of the walk that moves each matching source in its scope at most from ahead
\* of the walk to its event keeps the promises to r.
LEMMA QuietServed ==
    ASSUME NEW r \in Requests, RInv(r),
           UNCHANGED <<disk, associations, cache, pc, gone, out, steady>>,
           WalkFits(r)', SteadyThere(r)', walk[r].event \notin Exam,
           \A x \in steady[r] :
             /\ r \notin gone /\ Visible(r, x) /\ Matches(r, x)
             /\ x \in Uploads <=> walk[r].scope = "user"
             => Moves(r, x)
    PROVE  RInv(r)'
  <1>1. \A x : Holds(x)' = Holds(x) /\ Given(r, x)' = Given(r, x)
    BY DEF Holds, Given
  <1>2. \A x : GivenOnce(r, x)' = GivenOnce(r, x)
    BY <1>1 DEF GivenOnce
  <1>3. OutVisible(r)'
    BY DEF RInv, OutVisible
  <1>4. ASSUME r \in Lookups PROVE LookupServed(r)'
    <2>1. LookupServed(r) /\ (pc[r] # "done" => out[r] = <<>>)'
      BY <1>4 DEF RInv, LookupServed
    <2>2. ASSUME r \notin gone, NEW x \in steady[r], Visible(r, x), Holds(x) = Wanted[r]
          PROVE  WillFind(r, x)'
      <3>1. WillFind(r, x) /\ Matches(r, x)
        BY <1>4, <2>1, <2>2 DEF LookupServed, Matches
      <3>2. OnItsWay(r, x)' => walk'[r].event \in Exam /\ walk'[r].event.id = Wanted[r]
        BY <1>1, <2>2 DEF SteadyThere, OnItsWay
      <3>3. (x \in Uploads <=> walk[r].scope = "user") => Moves(r, x)
        BY <2>2, <3>1
      <3>4. pc[r] = "user" => walk[r].scope = "user"
        BY DEF RInv, WalkFits
      <3>5. pc[r] = "reload" => walk[r].scope # "user"
        BY DEF RInv, WalkFits
      <3>6. x \in Files => x \notin Uploads
        BY NamesAssumption
      <3> QED BY <3>1, <3>2, <3>3, <3>4, <3>5, <3>6 DEF WillFind, Moves
    <2> QED BY <1>1, <2>1, <2>2 DEF LookupServed, Visible
  <1>5. ASSUME r \in Listings PROVE ListingServed(r)'
    <2>1. ListingServed(r) /\ (pc[r] = "idle" => out[r] = <<>>)'
      BY <1>5 DEF RInv, ListingServed
    <2>2. ASSUME r \notin gone, NEW x \in steady[r], Visible(r, x), Holds(x) \in Filter[r]
          PROVE  WillGive(r, x)'
      <3>1. WillGive(r, x) /\ Matches(r, x)
        BY <1>5, <2>1, <2>2, NamesAssumption DEF ListingServed, Matches
      <3>2. (x \in Uploads <=> walk[r].scope = "user") => Moves(r, x)
        BY <2>2, <3>1
      <3>3. /\ pc[r] = "user" => walk[r].scope = "user"
            /\ pc[r] = "system" => walk[r].scope # "user"
            /\ x \in Files => x \notin Uploads
        BY NamesAssumption DEF RInv, WalkFits
      <3>4. (x \in Uploads <=> walk[r].scope = "user") => (InTurn(r, x) => InTurn(r, x)')
        BY <1>1, <1>2, <3>2 DEF InTurn, Moves
      <3> QED BY <1>1, <1>2, <3>1, <3>3, <3>4 DEF WillGive
    <2> QED BY <1>1, <2>1, <2>2 DEF ListingServed, Visible
  <1> QED BY <1>3, <1>4, <1>5 DEF RInv
--------------------------------------------------------------------------------
\* Opening lists a URL for every steady source in scope; opening fails only for a client that left.
LEMMA OpenSourceKeeps ==
    ASSUME RepInv, NEW r \in Requests, OpenSource(r)
    PROVE  RepInv'
  <1>0. TypeOK /\ RInv(r) /\ WalkTyped(walk[r])
    BY RequestTyped DEF RepInv
  <1>1. PICK v : v = walk[r]
    OBVIOUS
  <1>2. /\ v.scope \in {"user", "system", "reload"} /\ v.todo = {} /\ v.event = Nothing
        /\ v = [scope |-> v.scope, state |-> v.state, todo |-> v.todo, event |-> v.event]
        /\ v.state = "opening"
    BY <1>0, <1>1, WalkFields DEF OpenSource, RInv, WalkFits
  <1>3. UNCHANGED <<storeVars, cache, pc, gone, out, steady>>
    BY DEF OpenSource
  <1>4. PICK urls : urls = UrlsOf(r)
    OBVIOUS
  <1>5. /\ v.scope = "user" => /\ urls \subseteq 1..minted
                               /\ \A n \in DOMAIN associations : associations[n] \in urls =>
                                    Owner[n] = Caller[r]
                               /\ \A n \in DOMAIN associations : Owner[n] = Caller[r] =>
                                    associations[n] \in urls
        /\ v.scope # "user" => urls \subseteq Files /\ \A f \in Files :
                                                     disk[f] # Missing => f \in urls
    BY <1>0, <1>1, <1>4 DEF UrlsOf, Own, RepInv, AssociationsApart, TypeOK
  <1>6. CASE WalkTo(r, [walk[r] EXCEPT !.state = "loading", !.todo = UrlsOf(r)])
    <2>0. PICK w : w = [v EXCEPT !.state = "loading", !.todo = urls]
      OBVIOUS
    <2>1. w.scope = v.scope /\ w.state = "loading" /\ w.todo = urls /\ w.event = Nothing
      BY <1>2, <2>0
    <2>2. WalkTo(r, w)
      BY <1>1, <1>4, <1>6, <2>0
    <2>3. WalkTyped(w)
      BY <1>2, <1>5, <2>0 DEF WalkTyped, Walks
    <2>4. walk'[r] = w
      BY <1>0, <1>3, <2>2, <2>3, WalkToFacts DEF storeVars
    <2>5. WalkFits(r)'
      BY <1>0, <1>1, <1>3, <1>5, <2>1, <2>4, NamesAssumption, EventAssumption
      DEF storeVars, RInv, WalkFits
    <2>6. SteadyThere(r)'
      BY <1>0, <1>3, <2>1, <2>4, EventAssumption DEF storeVars, RInv, SteadyThere
    <2>7. ASSUME NEW x \in steady[r], Visible(r, x), x \in Uploads <=> v.scope = "user"
          PROVE  Moves(r, x)
      <3>1. (x \in Files /\ disk[x] # Missing) \/ x \in DOMAIN associations
        BY <1>0 DEF RInv, SteadyThere
      <3>2. x \in Files => x \notin Uploads
        BY NamesAssumption
      <3>3. DOMAIN associations \subseteq Uploads
        BY <1>0 DEF TypeOK
      <3>4. Ahead(r, x) /\ ~OnItsWay(r, x)
        BY <1>1, <1>2, EventAssumption DEF Ahead, OnItsWay
      <3>5. Ahead(r, x)'
        BY <1>3, <1>5, <2>1, <2>4, <2>7, <3>1, <3>2, <3>3 DEF Ahead, Visible, storeVars
      <3>6. ~OnItsWay(r, x)'
        BY <2>1, <2>4, EventAssumption DEF OnItsWay
      <3> QED BY <3>4, <3>5, <3>6 DEF Moves
    <2>8. RInv(r)'
      BY <1>0, <1>1, <1>2, <1>3, <2>5, <2>6, <2>7, EventAssumption, QuietServed DEF storeVars
    <2> QED BY <1>3, <2>2, <2>3, <2>8, QuietStep
  <1>7. CASE /\ MayFail(r)
             /\ WalkTo(r, [walk[r] EXCEPT !.state = "sending", !.event = Failure])
    <2>0. PICK w : w = [v EXCEPT !.state = "sending", !.event = Failure]
      OBVIOUS
    <2>1. w.scope = v.scope /\ w.state = "sending" /\ w.todo = {} /\ w.event = Failure
      BY <1>2, <2>0
    <2>2. WalkTo(r, w)
      BY <1>1, <1>7, <2>0
    <2>3. WalkTyped(w)
      BY <1>2, <2>0, EventAssumption DEF WalkTyped, Walks
    <2>4. walk'[r] = w
      BY <1>0, <1>3, <2>2, <2>3, WalkToFacts DEF storeVars
    <2>5. WalkFits(r)'
      BY <1>0, <1>1, <1>2, <1>3, <2>1, <2>4, EventAssumption DEF storeVars, RInv, WalkFits
    <2>6. SteadyThere(r)'
      BY <1>0, <1>3, <2>1, <2>4, EventAssumption DEF storeVars, RInv, SteadyThere
    <2>7. r \in gone
      BY <1>7 DEF MayFail
    <2>8. RInv(r)'
      BY <1>0, <1>1, <1>2, <1>3, <2>5, <2>6, <2>7, EventAssumption, QuietServed DEF storeVars
    <2> QED BY <1>3, <2>2, <2>3, <2>8, QuietStep
  <1> QED BY <1>6, <1>7 DEF OpenSource

\* A walk closes when nothing is ahead.
LEMMA CloseKeeps ==
    ASSUME RepInv, NEW r \in Requests, Close(r)
    PROVE  RepInv'
  <1>0. TypeOK /\ RInv(r) /\ WalkTyped(walk[r])
    BY RequestTyped DEF RepInv
  <1>1. PICK v : v = walk[r]
    OBVIOUS
  <1>2. /\ v.scope \in {"user", "system", "reload"} /\ v.todo = {} /\ v.event = Nothing
        /\ v = [scope |-> v.scope, state |-> v.state, todo |-> v.todo, event |-> v.event]
        /\ v.state = "loading"
    BY <1>0, <1>1, WalkFields DEF Close, Exhausted
  <1>3. UNCHANGED <<storeVars, cache, pc, gone, out, steady>>
    BY DEF Close
  <1>a. PICK w : w = [v EXCEPT !.state = "closed"]
    OBVIOUS
  <1>4. w.scope = v.scope /\ w.state = "closed" /\ w.todo = {} /\ w.event = Nothing
    BY <1>2, <1>a
  <1>5. WalkTo(r, w)
    BY <1>1, <1>a DEF Close
  <1>6. WalkTyped(w)
    BY <1>2, <1>a DEF WalkTyped, Walks
  <1>7. walk'[r] = w
    BY <1>0, <1>3, <1>5, <1>6, WalkToFacts DEF storeVars
  <1>8. WalkFits(r)'
    BY <1>0, <1>1, <1>2, <1>3, <1>4, <1>7 DEF storeVars, RInv, WalkFits
  <1>9. SteadyThere(r)'
    BY <1>0, <1>3, <1>4, <1>7, EventAssumption DEF storeVars, RInv, SteadyThere
  <1>10. \A x : Moves(r, x)
    BY <1>1, <1>2, <1>3, <1>4, <1>7, EventAssumption DEF Moves, Ahead, OnItsWay, storeVars
  <1>11. RInv(r)'
    BY <1>0, <1>1, <1>2, <1>3, <1>8, <1>9, <1>10, EventAssumption, QuietServed DEF storeVars
  <1> QED BY <1>3, <1>5, <1>6, <1>11, QuietStep

\* What a URL of the walk for r stands for.
LEMMA LocatedFacts ==
    ASSUME TypeOK, AssociationsApart, NEW r \in Requests, RInv(r), NEW url \in walk[r].todo
    PROVE  /\ walk[r].scope = "user" => \A y \in Located(url) :
                y \in Uploads /\ y \notin Files /\ y \in DOMAIN associations
                /\ associations[y] = url /\ Owner[y] = Caller[r]
           /\ walk[r].scope # "user" => url \in Files /\ Located(url) = {url}
           /\ \A x \in steady[r] :
                /\ x \in Uploads <=> walk[r].scope = "user"
                /\ IF x \in Files THEN x = url ELSE associations[x] = url
                => x \in Located(url)
  <1>1. DOMAIN associations \subseteq Uploads /\ Files \cap Uploads = {}
    BY NamesAssumption DEF TypeOK
  <1>2. CASE walk[r].scope = "user"
    <2>1. url \notin Files
      BY <1>2 DEF RInv, WalkFits
    <2>2. Located(url) = {n \in DOMAIN associations : associations[n] = url}
      BY <2>1 DEF Located
    <2>3. \A y \in Located(url) : Owner[y] = Caller[r]
      BY <1>2, <2>2 DEF RInv, WalkFits
    <2>4. \A x \in steady[r] : x \in Uploads => x \in DOMAIN associations
      BY <1>1 DEF RInv, SteadyThere
    <2> QED BY <1>1, <1>2, <2>2, <2>3, <2>4
  <1>3. CASE walk[r].scope # "user"
    <2>1. url \in Files
      BY <1>3 DEF RInv, WalkFits
    <2>2. Located(url) = {url}
      BY <2>1 DEF Located
    <2>3. \A x \in steady[r] : x \in Files \/ x \in Uploads
      BY <1>1 DEF RInv, SteadyThere
    <2> QED BY <1>1, <1>3, <2>1, <2>2, <2>3
  <1> QED BY <1>2, <1>3

\* Once its URL is taken off the list, no other source is affected.
LEMMA UrlTaken ==
    ASSUME TypeOK, AssociationsApart, NEW r \in Requests, RInv(r), NEW url \in walk[r].todo,
           UNCHANGED associations, walk[r].state = "loading", walk'[r].state # "opening",
           walk'[r].todo = walk[r].todo \ {url},
           NEW x \in steady[r], x \in Uploads <=> walk[r].scope = "user"
    PROVE  /\ x \in Located(url) => Ahead(r, x) /\ ~Ahead(r, x)'
           /\ x \notin Located(url) => (Ahead(r, x)' <=> Ahead(r, x))
  <1>1. Files \cap Uploads = {}
    BY NamesAssumption
  <1>2. /\ x \in Located(url) => IF x \in Files THEN x = url ELSE associations[x] = url
        /\ x \notin Located(url) => IF x \in Files THEN x # url ELSE associations[x] # url
    BY LocatedFacts
  <1>3. x \in Files \/ x \in Uploads
    BY DEF TypeOK, RInv, SteadyThere
  <1> QED BY <1>1, <1>2, <1>3 DEF Ahead

\* Loading takes one URL: its exam becomes the event if it matches, a failure hides no other.
LEMMA LoadKeeps ==
    ASSUME RepInv, NEW r \in Requests, Load(r)
    PROVE  RepInv'
  <1>0. TypeOK /\ AssociationsApart /\ RInv(r) /\ WalkTyped(walk[r])
    BY RequestTyped DEF RepInv
  <1>1. PICK v : v = walk[r]
    OBVIOUS
  <1>2. /\ v.scope \in {"user", "system", "reload"} /\ v.event = Nothing
        /\ v = [scope |-> v.scope, state |-> v.state, todo |-> v.todo, event |-> v.event]
        /\ v.state = "loading" /\ v.todo \subseteq Files \cup (1..minted)
    BY <1>0, <1>1, WalkFields DEF Load
  <1>3. UNCHANGED <<storeVars, cache, pc, gone, out, steady>>
    BY DEF Load
  <1>4. PICK url \in walk[r].todo : LoadSucceeds(r, url) \/ LoadFails(r, url)
    BY DEF Load
  <1>5. /\ v.scope = "user" => \A y \in Located(url) :
             y \in Uploads /\ y \notin Files /\ Owner[y] = Caller[r]
        /\ v.scope # "user" => url \in Files /\ Located(url) = {url}
    BY <1>0, <1>1, LocatedFacts
  \* What is left to be shown of either outcome: w is the walk it leaves behind.
  <1>6. ASSUME NEW w, NEW next, NEW event,
               w = [v EXCEPT !.state = next, !.todo = v.todo \ {url}, !.event = event],
               WalkTo(r, w),
               \/ next = "loading" /\ event = Nothing
               \/ next \in {"caching", "sending"} /\ event \in Exam \cup {Failure},
               next = "caching" => v.scope # "user" /\ event \in Exam,
               event \in Exam => /\ event.from \in Located(url)
                                 /\ event.id = Holds(event.from),
               \A x \in steady[r] :
                 /\ r \notin gone /\ Visible(r, x) /\ Matches(r, x)
                 /\ x \in Uploads <=> v.scope = "user"
                 => (x \in Located(url) <=> event \in Exam /\ event.from = x)
        PROVE  RepInv'
    <2>1. w.scope = v.scope /\ w.state = next /\ w.todo = v.todo \ {url} /\ w.event = event
      BY <1>2, <1>6
    <2>2. WalkTyped(w)
      <3>1. w \in Walks
        BY <1>2, <1>6 DEF Walks
      <3> QED BY <1>6, <2>1, <3>1, EventAssumption DEF WalkTyped
    <2>3. walk'[r] = w
      BY <1>0, <1>3, <1>6, <2>2, WalkToFacts DEF storeVars
    <2>4. WalkFits(r)'
      BY <1>0, <1>1, <1>2, <1>3, <1>5, <1>6, <2>1, <2>3, EventAssumption
      DEF storeVars, RInv, WalkFits
    <2>5. SteadyThere(r)'
      <3>1. \A x : Holds(x)' = Holds(x)
        BY <1>3 DEF Holds, storeVars
      <3> QED BY <1>0, <1>3, <1>6, <2>1, <2>3, <3>1 DEF storeVars, RInv, SteadyThere
    <2>6. ASSUME NEW x \in steady[r], r \notin gone, Visible(r, x), Matches(r, x),
                 x \in Uploads <=> v.scope = "user"
          PROVE  Moves(r, x)
      <3>1. ~OnItsWay(r, x)
        BY <1>1, <1>2, EventAssumption DEF OnItsWay
      <3>2. OnItsWay(r, x)' <=> x \in Located(url)
        BY <1>6, <2>1, <2>3, <2>6 DEF OnItsWay
      <3>3. /\ x \in Located(url) => Ahead(r, x) /\ ~Ahead(r, x)'
            /\ x \notin Located(url) => (Ahead(r, x)' <=> Ahead(r, x))
        BY <1>0, <1>1, <1>2, <1>3, <1>6, <2>1, <2>3, <2>6, UrlTaken DEF storeVars
      <3> QED BY <3>1, <3>2, <3>3 DEF Moves
    <2>7. RInv(r)'
      BY <1>0, <1>1, <1>2, <1>3, <2>4, <2>5, <2>6, EventAssumption, QuietServed DEF storeVars
    <2> QED BY <1>3, <1>6, <2>2, <2>7, QuietStep
  <1>7. CASE LoadSucceeds(r, url)
    <2>1. PICK exam \in Loaded(url) :
            WalkTo(r, [walk[r] EXCEPT
              !.state = AfterLoad(r, exam),
              !.todo  = @ \ {url},
              !.event = IF AfterLoad(r, exam) = "loading" THEN Nothing ELSE exam])
      BY <1>7 DEF LoadSucceeds
    <2>2. PICK y \in Located(url) : Holds(y) \in ExamIds /\ exam = [id |-> Holds(y), from |-> y]
      BY <2>1 DEF Loaded
    <2>3. exam.id = Holds(y) /\ exam.from = y /\ exam \in Exam
      <3>1. y \in Sources
        BY <1>5, <2>2 DEF Sources
      <3> QED BY <2>2, <3>1 DEF Exam
    <2>4. PICK next : next = AfterLoad(r, exam)
      OBVIOUS
    <2>5. PICK event : event = IF next = "loading" THEN Nothing ELSE exam
      OBVIOUS
    <2>6. PICK w : w = [v EXCEPT !.state = next, !.todo = v.todo \ {url}, !.event = event]
      OBVIOUS
    <2>7. WalkTo(r, w)
      BY <1>1, <2>1, <2>4, <2>5, <2>6
    <2>8. /\ next \in {"caching", "sending", "loading"}
          /\ next = "caching" => v.scope # "user"
          /\ next = "loading" => v.scope = "user" /\ ~Passes(r, exam)
      BY <1>1, <2>4 DEF AfterLoad
    <2>9. ASSUME NEW x \in steady[r], Matches(r, x), x \in Uploads <=> v.scope = "user"
          PROVE  x \in Located(url) <=> event \in Exam /\ event.from = x
      <3>1. x \in Located(url) => x = y
        BY <1>0, <1>5, <2>2, <2>9, LocatedFacts DEF AssociationsApart
      <3>2. x = y => Passes(r, exam)
        BY <2>3, <2>9, NamesAssumption DEF Passes, Matches
      <3> QED BY <2>2, <2>3, <2>5, <2>8, <3>1, <3>2, EventAssumption
    <2>10. /\ \/ next = "loading" /\ event = Nothing
              \/ next \in {"caching", "sending"} /\ event \in Exam \cup {Failure}
           /\ next = "caching" => v.scope # "user" /\ event \in Exam
           /\ event \in Exam => event.from \in Located(url) /\ event.id = Holds(event.from)
      BY <2>2, <2>3, <2>5, <2>8, EventAssumption
    <2> QED BY <1>6, <2>6, <2>7, <2>9, <2>10
  <1>8. CASE LoadFails(r, url)
    <2>1. PICK next : next = IF v.scope # "reload" THEN "sending" ELSE "loading"
      OBVIOUS
    <2>2. PICK event : event = IF v.scope # "reload" THEN Failure ELSE Nothing
      OBVIOUS
    <2>3. PICK w : w = [v EXCEPT !.state = next, !.todo = v.todo \ {url}, !.event = event]
      OBVIOUS
    <2>4. WalkTo(r, w)
      BY <1>1, <1>8, <2>1, <2>2, <2>3 DEF LoadFails, AfterFailure
    <2>5. ASSUME NEW x \in steady[r], r \notin gone, Matches(r, x)
          PROVE  x \notin Located(url)
      <3>1. Loaded(url) = {}
        BY <1>8, <2>5 DEF LoadFails, MayFail
      <3>2. \A y \in Located(url) : Holds(y) \notin ExamIds
        BY <3>1 DEF Loaded
      <3> QED BY <2>5, <3>2, MatchesAnExam
    <2>6. event \notin Exam
      BY <2>2, EventAssumption
    <2>7. \/ next = "loading" /\ event = Nothing
          \/ next = "sending" /\ event = Failure
      BY <2>1, <2>2
    <2> QED BY <1>6, <2>3, <2>4, <2>5, <2>6, <2>7
  <1> QED BY <1>4, <1>7, <1>8

\* A cached exam is one of a file, and goes on to a listing that it matches.
LEMMA CacheExamKeeps ==
    ASSUME RepInv, NEW r \in Requests, CacheExam(r)
    PROVE  RepInv'
  <1>0. TypeOK /\ CacheOfFiles /\ RInv(r) /\ WalkTyped(walk[r])
    BY RequestTyped DEF RepInv
  <1>1. PICK v : v = walk[r]
    OBVIOUS
  <1>2. /\ v.scope \in {"system", "reload"} /\ v.event \in Exam
        /\ v = [scope |-> v.scope, state |-> v.state, todo |-> v.todo, event |-> v.event]
        /\ v.state = "caching" /\ v.todo \subseteq Files /\ v.event.from \in Files
        /\ v.todo \subseteq Files \cup (1..minted)
    BY <1>0, <1>1, WalkFields DEF CacheExam, RInv, WalkFits
  <1>3. UNCHANGED <<storeVars, pc, gone, out, steady>>
    BY DEF CacheExam
  <1>4. PICK exam : exam = v.event
    OBVIOUS
  <1>5. exam \in Exam /\ exam.id \in ExamIds
    BY <1>2, <1>4 DEF Exam
  <1>6. /\ DOMAIN cache' = DOMAIN cache \cup {exam.id}
        /\ cache' \in [DOMAIN cache' -> Exam] /\ DOMAIN cache' \subseteq ExamIds
        /\ CacheOfFiles'
    <2>1. cache' = Store(cache, exam.id, exam)
      BY <1>1, <1>4 DEF CacheExam
    <2>2. /\ DOMAIN cache' = DOMAIN cache \cup {exam.id} /\ cache'[exam.id] = exam
          /\ \A k \in DOMAIN cache : k # exam.id => cache'[k] = cache[k]
      BY <2>1 DEF Store
    <2>3. cache' \in [DOMAIN cache \cup {exam.id} -> Exam]
      BY <1>0, <1>5, <2>1 DEF TypeOK, Store
    <2> QED BY <1>0, <1>2, <1>4, <1>5, <2>2, <2>3 DEF CacheOfFiles, TypeOK
  <1>7. PICK onwards \in BOOLEAN : onwards <=> v.scope # "reload" /\ Passes(r, exam)
    OBVIOUS
  <1>8. PICK w : w = IF onwards THEN [v EXCEPT !.state = "sending"]
                     ELSE [v EXCEPT !.state = "loading", !.event = Nothing]
    OBVIOUS
  <1>9. /\ w.scope = v.scope /\ w.todo = v.todo
        /\ onwards => w.state = "sending" /\ w.event = exam
        /\ ~onwards => w.state = "loading" /\ w.event = Nothing
    BY <1>2, <1>4, <1>8
  <1>10. WalkTo(r, w)
    BY <1>1, <1>4, <1>7, <1>8 DEF CacheExam
  <1>11. WalkTyped(w)
    <2>1. w \in Walks
      BY <1>2, <1>8 DEF Walks
    <2> QED BY <1>5, <1>9, <2>1, EventAssumption DEF WalkTyped
  <1>12. walk'[r] = w /\ \A q \in Requests \ {r} : walk'[q] = walk[q]
    BY <1>0, <1>3, <1>10, <1>11, WalkToFacts DEF storeVars
  <1>13. TypeOK'
    <2>1. /\ pc' \in [Requests -> Steps] /\ gone' \subseteq Requests
          /\ out' \in [Requests -> Seq(Exam)] /\ steady' \in [Requests -> SUBSET Sources]
      BY <1>0, <1>3 DEF TypeOK, Steps
    <2> QED BY <1>0, <1>3, <1>6, <1>10, <1>11, <2>1, RequestStepTyped
  <1>14. WalkFits(r)' /\ OutVisible(r)'
    BY <1>0, <1>1, <1>2, <1>3, <1>4, <1>9, <1>12, EventAssumption
    DEF storeVars, RInv, WalkFits, OutVisible, Visible
  <1>15. \A x : Holds(x)' = Holds(x) /\ (Ahead(r, x)' <=> Ahead(r, x))
    BY <1>1, <1>2, <1>3, <1>9, <1>12 DEF Holds, Ahead, storeVars
  <1>16. SteadyThere(r)'
    BY <1>0, <1>1, <1>3, <1>4, <1>9, <1>12, <1>15, EventAssumption
    DEF storeVars, RInv, SteadyThere
  <1>17. ASSUME r \in Lookups PROVE LookupServed(r)'
    <2>1. LookupServed(r)
      BY <1>0, <1>17 DEF RInv
    <2>2. pc[r] # "user"
      BY <1>0, <1>1, <1>2 DEF RInv, WalkFits
    <2>3. \A x : WillFind(r, x) => WillFind(r, x)'
      BY <1>1, <1>3, <1>4, <1>6, <1>15, <2>2 DEF WillFind
    <2> QED BY <1>3, <1>15, <2>1, <2>3 DEF LookupServed, Visible
  <1>18. ASSUME r \in Listings PROVE ListingServed(r)'
    <2>1. ListingServed(r)
      BY <1>0, <1>18 DEF RInv
    <2>2. pc[r] # "user" /\ (pc[r] = "system" => v.scope # "reload")
      BY <1>0, <1>1, <1>2 DEF RInv, WalkFits
    <2>3. \A x : Given(r, x)' = Given(r, x)
      BY <1>3 DEF Given
    <2>4. \A x : GivenOnce(r, x)' = GivenOnce(r, x)
      BY <1>3, <2>3 DEF GivenOnce
    <2>5. ASSUME NEW x \in steady[r], Holds(x) \in Filter[r], pc[r] = "system"
          PROVE  OnItsWay(r, x)' <=> OnItsWay(r, x)
      <3>1. OnItsWay(r, x) => Passes(r, exam)
        BY <1>0, <1>1, <1>4, <2>5 DEF OnItsWay, Passes, RInv, SteadyThere
      <3> QED BY <1>1, <1>2, <1>4, <1>7, <1>9, <1>12, <2>2, <2>5, <3>1, EventAssumption
          DEF OnItsWay
    <2>6. ASSUME NEW x \in steady[r], Holds(x) \in Filter[r], WillGive(r, x)
          PROVE  WillGive(r, x)'
      <3>1. pc[r] = "system" => (InTurn(r, x) => InTurn(r, x)')
        BY <1>15, <2>3, <2>4, <2>5, <2>6 DEF InTurn
      <3> QED BY <1>3, <2>2, <2>3, <2>4, <2>6, <3>1 DEF WillGive
    <2> QED BY <1>3, <1>15, <2>1, <2>6 DEF ListingServed, Visible
  <1>19. RInv(r)'
    BY <1>14, <1>16, <1>17, <1>18 DEF RInv
  <1> QED BY <1>3, <1>6, <1>12, <1>13, <1>19, RequestStep
--------------------------------------------------------------------------------
\* A request begins with all its sources ahead.
LEMMA BeginKeeps ==
    ASSUME RepInv, NEW r \in Requests, Begin(r)
    PROVE  RepInv'
  <1>0. TypeOK /\ CacheOfFiles /\ RInv(r)
    BY DEF RepInv
  <1>1. UNCHANGED <<storeVars, cache, gone, out>> /\ pc[r] = "idle"
    BY DEF Begin
  <1>2. PICK w : w = NewWalk("user", "opening")
    OBVIOUS
  <1>3. /\ w.scope = "user" /\ w.state = "opening" /\ w.todo = {} /\ w.event = Nothing
        /\ WalkTyped(w)
    BY <1>2 DEF NewWalk, WalkTyped, Walks
  <1>4. WalkTo(r, w)
    BY <1>2 DEF Begin
  <1>5. walk'[r] = w /\ \A q \in Requests \ {r} : walk'[q] = walk[q]
    BY <1>0, <1>1, <1>3, <1>4, WalkToFacts DEF storeVars
  <1>6. /\ pc' \in [Requests -> Steps] /\ pc'[r] = "user"
        /\ \A q \in Requests \ {r} : pc'[q] = pc[q]
    BY <1>0 DEF Begin, Goto, FirstStep, TypeOK, Steps
  <1>7. PICK here : here = {f \in Files : disk[f] # Missing} \cup DOMAIN associations
    OBVIOUS
  <1>8. /\ steady' \in [Requests -> SUBSET Sources] /\ steady'[r] = here
        /\ \A q \in Requests \ {r} : steady'[q] = steady[q]
    <2>1. here \subseteq Sources
      BY <1>0, <1>7 DEF TypeOK, Sources
    <2>2. steady' = [steady EXCEPT ![r] = here]
      BY <1>7 DEF Begin
    <2> QED BY <1>0, <2>1, <2>2 DEF TypeOK
  <1>9. TypeOK'
    <2>1. /\ cache' \in [DOMAIN cache' -> Exam] /\ DOMAIN cache' \subseteq ExamIds
          /\ gone' \subseteq Requests /\ out' \in [Requests -> Seq(Exam)]
      BY <1>0, <1>1 DEF TypeOK
    <2> QED BY <1>0, <1>1, <1>3, <1>4, <1>6, <1>8, <2>1, RequestStepTyped
  <1>10. WalkFits(r)' /\ OutVisible(r)'
    BY <1>0, <1>1, <1>3, <1>5, <1>6, EventAssumption
    DEF storeVars, RInv, WalkFits, OutVisible, Visible
  <1>11. SteadyThere(r)'
    BY <1>1, <1>3, <1>5, <1>7, <1>8, EventAssumption DEF storeVars, SteadyThere
  <1>12. \A x : Ahead(r, x)' /\ ~OnItsWay(r, x)'
    BY <1>3, <1>5, EventAssumption DEF Ahead, OnItsWay
  <1>13. r \in Lookups => LookupServed(r)'
    BY <1>0, <1>1, <1>6, <1>12 DEF RInv, LookupServed, WillFind
  <1>14. ASSUME r \in Listings PROVE ListingServed(r)'
    <2>1. out'[r] = <<>>
      BY <1>0, <1>1, <1>14 DEF RInv, ListingServed
    <2>2. \A x : Given(r, x)' = {}
      BY <2>1 DEF Given
    <2> QED BY <1>6, <1>12, <2>1, <2>2 DEF ListingServed, WillGive, InTurn
  <1>15. RInv(r)'
    BY <1>10, <1>11, <1>13, <1>14 DEF RInv
  <1>16. CacheOfFiles'
    BY <1>0, <1>1 DEF CacheOfFiles
  <1> QED BY <1>1, <1>5, <1>6, <1>8, <1>9, <1>15, <1>16, RequestStep

\* Nothing is promised to a client that left.
LEMMA DisconnectKeeps ==
    ASSUME RepInv, NEW r \in Requests, Disconnect(r)
    PROVE  RepInv'
  <1>0. TypeOK /\ CacheOfFiles /\ RInv(r)
    BY DEF RepInv
  <1>1. UNCHANGED <<storeVars, cache, pc, walk, out, steady>> /\ gone' = gone \cup {r}
    BY DEF Disconnect
  <1>2. TypeOK'
    <2>1. /\ cache' \in [DOMAIN cache' -> Exam] /\ DOMAIN cache' \subseteq ExamIds
          /\ pc' \in [Requests -> Steps] /\ gone' \subseteq Requests
          /\ out' \in [Requests -> Seq(Exam)] /\ steady' \in [Requests -> SUBSET Sources]
      BY <1>0, <1>1 DEF TypeOK, Steps
    <2> QED BY <1>0, <1>1, <2>1, RequestStepTyped
  <1>3. WalkFits(r)' /\ OutVisible(r)'
    BY <1>0, <1>1 DEF storeVars, RInv, WalkFits, OutVisible, Visible
  <1>4. \A x : Holds(x)' = Holds(x)
    BY <1>1 DEF Holds, storeVars
  <1>5. SteadyThere(r)'
    BY <1>0, <1>1, <1>4 DEF storeVars, RInv, SteadyThere
  <1>6. RInv(r)'
    BY <1>0, <1>1, <1>3, <1>5 DEF RInv, LookupServed, ListingServed
  <1>7. CacheOfFiles'
    BY <1>0, <1>1 DEF CacheOfFiles
  <1> QED BY <1>1, <1>2, <1>6, <1>7, RequestStep
--------------------------------------------------------------------------------
\* What every step of a consumer leaves alone.
LEMMA ConsumerStep ==
    ASSUME RepInv, NEW r \in Requests, UNCHANGED <<storeVars, cache, gone, steady>>,
           \/ walk' = walk
           \/ \E w : WalkTyped(w) /\ WalkTo(r, w),
           \/ pc' = pc
           \/ \E where \in Steps : Goto(r, where),
           \/ out' = out
           \/ \E exam \in Exam : Give(r, exam),
           RInv(r)'
    PROVE  RepInv'
  <1>0. TypeOK /\ CacheOfFiles
    BY DEF RepInv
  <1>1. /\ pc' \in [Requests -> Steps]
        /\ \A q \in Requests \ {r} : pc'[q] = pc[q]
    BY <1>0 DEF TypeOK, Steps, Goto
  <1>2. /\ out' \in [Requests -> Seq(Exam)]
        /\ \A q \in Requests \ {r} : out'[q] = out[q]
    <2> DEFINE E == Exam
    <2>1. out \in [Requests -> Seq(E)]
      BY <1>0 DEF TypeOK
    <2>2. out' = out \/ \E exam \in E : out' = [out EXCEPT ![r] = Append(out[r], exam)]
      BY DEF Give
    <2> HIDE DEF E
    <2>3. \A exam \in E : Append(out[r], exam) \in Seq(E)
      BY <2>1
    <2>4. /\ out' \in [Requests -> Seq(E)]
          /\ \A q \in Requests \ {r} : out'[q] = out[q]
      BY <2>1, <2>2, <2>3
    <2> QED BY <2>4 DEF E
  <1>3. /\ cache' \in [DOMAIN cache' -> Exam] /\ DOMAIN cache' \subseteq ExamIds
        /\ gone' \subseteq Requests /\ steady' \in [Requests -> SUBSET Sources]
        /\ CacheOfFiles'
    BY <1>0 DEF TypeOK, CacheOfFiles
  <1>4. \A q \in Requests \ {r} : walk'[q] = walk[q]
    BY <1>0, WalkToFacts DEF storeVars
  <1>5. TypeOK'
    BY <1>0, <1>1, <1>2, <1>3, RequestStepTyped
  <1> QED BY <1>1, <1>2, <1>3, <1>4, <1>5, RequestStep

\* Receiving empties the event and lets the walk go on where it was.
LEMMA ReceivedFacts ==
    ASSUME TypeOK, NEW r \in Requests, RInv(r), walk[r].state = "sending", Received(r),
           UNCHANGED storeVars
    PROVE  /\ \E w : WalkTyped(w) /\ WalkTo(r, w)
           /\ walk'[r].scope = walk[r].scope /\ walk'[r].todo = walk[r].todo
           /\ walk'[r].state = "loading" /\ walk'[r].event = Nothing
           /\ walk[r].event \in Exam \cup {Failure}
           /\ \A x : Ahead(r, x)' <=> Ahead(r, x)
  <1>0. WalkTyped(walk[r])
    BY RequestTyped
  <1>1. PICK v : v = walk[r]
    OBVIOUS
  <1>2. /\ v.scope \in {"user", "system", "reload"} /\ v.event \in Exam \cup {Failure}
        /\ v = [scope |-> v.scope, state |-> v.state, todo |-> v.todo, event |-> v.event]
        /\ v.todo \subseteq Files \cup (1..minted) /\ v.state = "sending"
    BY <1>0, <1>1, WalkFields
  <1>3. PICK w : w = [v EXCEPT !.state = "loading", !.event = Nothing]
    OBVIOUS
  <1>4. WalkTo(r, w)
    BY <1>1, <1>3 DEF Received
  <1>5. /\ w.scope = v.scope /\ w.todo = v.todo /\ w.state = "loading" /\ w.event = Nothing
        /\ WalkTyped(w)
    BY <1>2, <1>3 DEF WalkTyped, Walks
  <1>6. walk'[r] = w
    BY <1>4, <1>5, WalkToFacts DEF storeVars
  <1>7. \A x : Ahead(r, x)' <=> Ahead(r, x)
    BY <1>1, <1>2, <1>5, <1>6 DEF Ahead, storeVars
  <1> QED BY <1>1, <1>2, <1>4, <1>5, <1>6, <1>7

\* A lookup is done with the exam it wants, one of its caller; it passes over any other.
LEMMA LookupReceivesKeeps ==
    ASSUME RepInv, NEW r \in Requests, LookupReceives(r)
    PROVE  RepInv'
  <1>0. TypeOK /\ RInv(r)
    BY DEF RepInv
  <1>1. /\ r \in Lookups /\ r \notin Listings /\ pc[r] = "user" /\ walk[r].state = "sending"
        /\ UNCHANGED <<storeVars, cache, gone, steady>> /\ walk[r].scope = "user"
    BY <1>0, NamesAssumption DEF LookupReceives, RInv, WalkFits
  <1>2. PICK event : event = walk[r].event
    OBVIOUS
  <1>3. /\ \E w : WalkTyped(w) /\ WalkTo(r, w)
        /\ walk'[r].scope = walk[r].scope /\ walk'[r].todo = walk[r].todo
        /\ walk'[r].state = "loading" /\ walk'[r].event = Nothing
        /\ event \in Exam \cup {Failure} /\ \A x : Ahead(r, x)' <=> Ahead(r, x)
    BY <1>0, <1>1, <1>2, ReceivedFacts DEF LookupReceives
  <1>4. \A x : Holds(x)' = Holds(x)
    BY <1>1 DEF Holds, storeVars
  <1>5. SteadyThere(r)'
    BY <1>0, <1>1, <1>3, <1>4, EventAssumption DEF storeVars, RInv, SteadyThere
  <1>6. LookupServed(r) /\ out[r] = <<>>
    BY <1>0, <1>1 DEF RInv, LookupServed
  <1>7. CASE event # Failure /\ event.id = Wanted[r]
    <2>1. event \in Exam /\ Give(r, event) /\ Goto(r, "done")
      BY <1>2, <1>3, <1>7 DEF LookupReceives
    <2>2. pc'[r] = "done" /\ out'[r] = <<event>>
      BY <1>0, <1>6, <2>1 DEF TypeOK, Give, Goto
    <2>3. event.from \in Uploads /\ Owner[event.from] = Caller[r]
      BY <1>0, <1>1, <1>2, <2>1 DEF RInv, WalkFits
    <2>4. WalkFits(r)'
      BY <1>0, <1>1, <1>3, <2>2, EventAssumption DEF RInv, WalkFits, storeVars
    <2>5. OutVisible(r)'
      BY <2>2, <2>3 DEF OutVisible, Visible
    <2>6. LookupServed(r)'
      <3>1. out'[r] # <<>> /\ out'[r][1].from \in Uploads
        BY <2>2, <2>3
      <3> QED BY <2>2, <3>1 DEF LookupServed, WillFind
    <2>7. RInv(r)'
      BY <1>1, <1>5, <2>4, <2>5, <2>6 DEF RInv
    <2> QED BY <1>1, <1>3, <2>1, <2>7, ConsumerStep DEF Steps
  <1>8. CASE ~(event # Failure /\ event.id = Wanted[r])
    <2>1. UNCHANGED <<out, pc>>
      BY <1>2, <1>8 DEF LookupReceives
    <2>2. WalkFits(r)'
      BY <1>0, <1>1, <1>3, <2>1, EventAssumption DEF RInv, WalkFits, storeVars
    <2>3. OutVisible(r)'
      BY <1>0, <2>1 DEF RInv, OutVisible, Visible
    <2>4. \A x : WillFind(r, x) => WillFind(r, x)'
      BY <1>1, <1>2, <1>3, <1>8, <2>1, EventAssumption DEF WillFind
    <2>5. LookupServed(r)'
      BY <1>1, <1>4, <1>6, <2>1, <2>4 DEF LookupServed, Visible
    <2>6. RInv(r)'
      BY <1>1, <1>5, <2>2, <2>3, <2>5 DEF RInv
    <2> QED BY <1>1, <1>3, <2>1, <2>6, ConsumerStep
  <1> QED BY <1>7, <1>8

\* A listing gives each exam it receives once, and failures are no exam.
LEMMA ListingReceivesKeeps ==
    ASSUME RepInv, NEW r \in Requests, ListingReceives(r)
    PROVE  RepInv'
  <1>0. TypeOK /\ RInv(r)
    BY DEF RepInv
  <1>1. /\ r \in Listings /\ r \notin Lookups /\ pc[r] \in {"user", "system"}
        /\ walk[r].state = "sending"
        /\ UNCHANGED <<storeVars, cache, pc, gone, steady>>
    BY NamesAssumption DEF ListingReceives
  <1>2. PICK event : event = walk[r].event
    OBVIOUS
  <1>3. /\ \E w : WalkTyped(w) /\ WalkTo(r, w)
        /\ walk'[r].scope = walk[r].scope /\ walk'[r].todo = walk[r].todo
        /\ walk'[r].state = "loading" /\ walk'[r].event = Nothing
        /\ event \in Exam \cup {Failure} /\ \A x : Ahead(r, x)' <=> Ahead(r, x)
    BY <1>0, <1>1, <1>2, ReceivedFacts DEF ListingReceives
  <1>4. \A x : Holds(x)' = Holds(x)
    BY <1>1 DEF Holds, storeVars
  <1>5. SteadyThere(r)'
    BY <1>0, <1>1, <1>3, <1>4, EventAssumption DEF storeVars, RInv, SteadyThere
  <1>6. WalkFits(r)'
    BY <1>0, <1>1, <1>3, EventAssumption DEF RInv, WalkFits, storeVars
  <1>7. ListingServed(r) /\ OutVisible(r)
    BY <1>0, <1>1 DEF RInv
  <1>8. \A x : ~OnItsWay(r, x)'
    BY <1>3, EventAssumption DEF OnItsWay
  <1>9. CASE event # Failure /\ Give(r, event)
    <2>0. PICK given \in Seq(Exam) : given = out[r]
      BY <1>0 DEF TypeOK
    <2>1. event \in Exam
      BY <1>3, <1>9
    <2>2. out'[r] = Append(given, event)
      BY <1>0, <1>9, <2>0 DEF TypeOK, Give
    <2>3. /\ DOMAIN out'[r] = DOMAIN given \cup {Len(given) + 1}
          /\ Len(given) + 1 \notin DOMAIN given /\ out'[r][Len(given) + 1] = event
          /\ \A i \in DOMAIN given : out'[r][i] = given[i]
      <3> DEFINE E == Exam
      <3>1. given \in Seq(E) /\ event \in E
        BY <2>0, <2>1
      <3> HIDE DEF E
      <3> QED BY <2>2, <3>1
    <2>4. Visible(r, event.from)
      BY <1>0, <1>1, <1>2, <2>1 DEF RInv, WalkFits, Visible
    <2>5. OutVisible(r)'
      BY <1>7, <2>0, <2>3, <2>4 DEF OutVisible, Visible
    <2>6. \A x : Given(r, x)' = IF event.from = x THEN Given(r, x) \cup {Len(given) + 1}
                                ELSE Given(r, x)
      BY <2>0, <2>3 DEF Given
    <2>7. \A x : OnItsWay(r, x) <=> event.from = x
      BY <1>2, <2>1 DEF OnItsWay
    <2>8. \A x : ~OnItsWay(r, x) /\ GivenOnce(r, x) => GivenOnce(r, x)'
      BY <2>0, <2>3, <2>6, <2>7 DEF GivenOnce
    <2>9. \A x : OnItsWay(r, x) /\ Given(r, x) = {} => GivenOnce(r, x)'
      BY <2>3, <2>6, <2>7 DEF GivenOnce
    <2>10. \A x : InTurn(r, x) => InTurn(r, x)'
      BY <1>3, <1>8, <2>6, <2>7, <2>8, <2>9 DEF InTurn
    <2>11. \A x : /\ pc[r] = "user" /\ x \in Files => ~OnItsWay(r, x)
                  /\ pc[r] = "system" /\ x \in Uploads => ~OnItsWay(r, x)
      BY <1>0, <1>1, <1>2, <2>1, NamesAssumption DEF RInv, WalkFits, OnItsWay
    <2>12. \A x : WillGive(r, x) => WillGive(r, x)'
      BY <1>1, <2>6, <2>7, <2>8, <2>10, <2>11 DEF WillGive
    <2>13. ListingServed(r)'
      BY <1>1, <1>4, <1>7, <2>12 DEF ListingServed, Visible
    <2>14. RInv(r)'
      BY <1>1, <1>5, <1>6, <2>5, <2>13 DEF RInv
    <2> QED BY <1>1, <1>3, <1>9, <2>1, <2>14, ConsumerStep
  <1>10. CASE (event = Failure \/ r \in gone) /\ UNCHANGED out
    <2>1. OutVisible(r)'
      BY <1>7, <1>10 DEF OutVisible, Visible
    <2>2. \A x : Given(r, x)' = Given(r, x)
      BY <1>10 DEF Given
    <2>3. \A x : GivenOnce(r, x)' <=> GivenOnce(r, x)
      BY <1>10, <2>2 DEF GivenOnce
    <2>4. r \notin gone => \A x : ~OnItsWay(r, x)
      BY <1>2, <1>10, EventAssumption DEF OnItsWay
    <2>5. r \notin gone => \A x : InTurn(r, x) => InTurn(r, x)'
      BY <1>3, <1>8, <2>2, <2>3, <2>4 DEF InTurn
    <2>6. r \notin gone => \A x : WillGive(r, x) => WillGive(r, x)'
      BY <1>1, <2>2, <2>3, <2>5 DEF WillGive
    <2>7. ListingServed(r)'
      BY <1>1, <1>4, <1>7, <1>10, <2>6 DEF ListingServed, Visible
    <2>8. RInv(r)'
      BY <1>1, <1>5, <1>6, <2>1, <2>7 DEF RInv
    <2> QED BY <1>1, <1>3, <1>10, <2>8, ConsumerStep
  <1> QED BY <1>2, <1>9, <1>10 DEF ListingReceives

\* A walk that has ended has nothing ahead and nothing on its way.
LEMMA ClosedFacts ==
    ASSUME TypeOK, NEW r \in Requests, RInv(r), walk[r].state = "closed"
    PROVE  \A x : ~Ahead(r, x) /\ ~OnItsWay(r, x) /\ walk[r].event \notin Exam
  <1>1. walk[r].event = Nothing /\ walk[r].todo = {}
    BY RequestTyped, WalkFields DEF RInv, WalkFits
  <1> QED BY <1>1, EventAssumption DEF Ahead, OnItsWay

\* A new walk has everything ahead.
LEMMA NewWalkFacts ==
    ASSUME TypeOK, UNCHANGED storeVars, NEW r \in Requests,
           NEW scope \in {"user", "system", "reload"},
           WalkTo(r, NewWalk(scope, "opening"))
    PROVE  /\ \E w : WalkTyped(w) /\ WalkTo(r, w)
           /\ walk'[r].scope = scope /\ walk'[r].state = "opening" /\ walk'[r].todo = {}
           /\ walk'[r].event = Nothing
           /\ \A x : Ahead(r, x)' /\ ~OnItsWay(r, x)'
  <1>1. PICK w : w = NewWalk(scope, "opening")
    OBVIOUS
  <1>2. /\ w.scope = scope /\ w.state = "opening" /\ w.todo = {} /\ w.event = Nothing
        /\ WalkTyped(w)
    BY <1>1 DEF NewWalk, WalkTyped, Walks
  <1>3. WalkTo(r, w)
    BY <1>1
  <1>4. walk'[r] = w
    BY <1>2, <1>3, WalkToFacts DEF storeVars
  <1>5. \A x : Ahead(r, x)' /\ ~OnItsWay(r, x)'
    BY <1>2, <1>4, EventAssumption DEF Ahead, OnItsWay
  <1> QED BY <1>2, <1>3, <1>4, <1>5

\* At the end of the caller's own sources a lookup has not missed its exam, and a listing has
\* given those of the uploads.
LEMMA UserStreamEndsKeeps ==
    ASSUME RepInv, NEW r \in Requests, UserStreamEnds(r)
    PROVE  RepInv'
  <1>0. TypeOK /\ RInv(r)
    BY DEF RepInv
  <1>1. /\ pc[r] = "user" /\ walk[r].state = "closed"
        /\ UNCHANGED <<storeVars, cache, gone, out, steady>>
    BY DEF UserStreamEnds
  <1>2. \A x : ~Ahead(r, x) /\ ~OnItsWay(r, x) /\ walk[r].event \notin Exam
    BY <1>0, <1>1, ClosedFacts
  <1>3. OutVisible(r)' /\ \A x : Holds(x)' = Holds(x) /\ Given(r, x)' = Given(r, x)
    BY <1>0, <1>1 DEF RInv, OutVisible, Visible, Holds, Given, storeVars
  <1>4. CASE r \in Lookups
    <2>1. /\ UNCHANGED walk /\ Goto(r, "cache") /\ pc'[r] = "cache" /\ r \notin Listings
      BY <1>0, <1>4, NamesAssumption DEF UserStreamEnds, Goto, TypeOK
    <2>2. WalkFits(r)' /\ SteadyThere(r)'
      BY <1>0, <1>1, <1>3, <1>4, <2>1 DEF RInv, WalkFits, SteadyThere, storeVars
    <2>3. LookupServed(r)
      BY <1>0, <1>4 DEF RInv
    <2>4. \A x : WillFind(r, x) => WillFind(r, x)'
      BY <1>1, <1>2, <2>1 DEF WillFind
    <2>5. LookupServed(r)'
      BY <1>1, <1>3, <2>1, <2>3, <2>4 DEF LookupServed, Visible
    <2>6. RInv(r)'
      BY <1>3, <2>1, <2>2, <2>5 DEF RInv
    <2> QED BY <1>1, <2>1, <2>6, ConsumerStep DEF Steps
  <1>5. CASE r \notin Lookups
    <2>1. /\ r \in Listings /\ WalkTo(r, NewWalk("system", "opening"))
          /\ Goto(r, "system") /\ pc'[r] = "system"
      BY <1>0, <1>5 DEF UserStreamEnds, Goto, TypeOK, Requests
    <2>2. /\ \E w : WalkTyped(w) /\ WalkTo(r, w)
          /\ walk'[r].scope = "system" /\ walk'[r].state = "opening" /\ walk'[r].todo = {}
          /\ walk'[r].event = Nothing
          /\ \A x : Ahead(r, x)' /\ ~OnItsWay(r, x)'
      BY <1>0, <1>1, <2>1, NewWalkFacts
    <2>3. WalkFits(r)' /\ SteadyThere(r)'
      BY <1>0, <1>1, <1>3, <2>1, <2>2, EventAssumption
      DEF RInv, WalkFits, SteadyThere, storeVars
    <2>4. ListingServed(r)
      BY <1>0, <2>1 DEF RInv
    <2>5. \A x : GivenOnce(r, x)' <=> GivenOnce(r, x)
      BY <1>1, <1>3 DEF GivenOnce
    <2>6. \A x : WillGive(r, x) => WillGive(r, x)'
      BY <1>1, <1>2, <1>3, <2>1, <2>2, <2>5 DEF WillGive, InTurn
    <2>7. ListingServed(r)'
      BY <1>1, <1>3, <2>1, <2>4, <2>6 DEF ListingServed, Visible
    <2>8. RInv(r)'
      BY <1>3, <1>5, <2>3, <2>7 DEF RInv
    <2> QED BY <1>1, <2>1, <2>2, <2>8, ConsumerStep DEF Steps
  <1> QED BY <1>4, <1>5

\* At the end of the directory a listing has given all.
LEMMA SystemStreamEndsKeeps ==
    ASSUME RepInv, NEW r \in Requests, SystemStreamEnds(r)
    PROVE  RepInv'
  <1>0. TypeOK /\ RInv(r)
    BY DEF RepInv
  <1>1. /\ pc[r] = "system" /\ walk[r].state = "closed" /\ Goto(r, "done") /\ pc'[r] = "done"
        /\ UNCHANGED <<storeVars, cache, walk, gone, out, steady>>
        /\ r \in Listings /\ r \notin Lookups
    BY <1>0, NamesAssumption DEF SystemStreamEnds, Goto, TypeOK, RInv, WalkFits
  <1>2. \A x : ~Ahead(r, x) /\ ~OnItsWay(r, x)
    BY <1>0, <1>1, ClosedFacts
  <1>3. OutVisible(r)' /\ \A x : Holds(x)' = Holds(x) /\ Given(r, x)' = Given(r, x)
    BY <1>0, <1>1 DEF RInv, OutVisible, Visible, Holds, Given, storeVars
  <1>4. WalkFits(r)' /\ SteadyThere(r)'
    BY <1>0, <1>1, <1>3 DEF RInv, WalkFits, SteadyThere, storeVars
  <1>5. \A x : GivenOnce(r, x)' <=> GivenOnce(r, x)
    BY <1>1, <1>3 DEF GivenOnce
  <1>6. \A x \in steady[r] : x \in Files \/ x \in Uploads
    BY <1>0 DEF TypeOK, Sources
  <1>7. \A x \in steady[r] : WillGive(r, x) => WillGive(r, x)'
    BY <1>1, <1>2, <1>5, <1>6 DEF WillGive, InTurn
  <1>8. ListingServed(r)'
    BY <1>0, <1>1, <1>3, <1>7 DEF RInv, ListingServed, Visible
  <1>9. RInv(r)'
    BY <1>1, <1>3, <1>4, <1>8 DEF RInv
  <1> QED BY <1>1, <1>9, ConsumerStep DEF Steps

\* At the end of a reload a wanted exam that is there is in the cache.
LEMMA ReloadEndsKeeps ==
    ASSUME RepInv, NEW r \in Requests, ReloadEnds(r)
    PROVE  RepInv'
  <1>0. TypeOK /\ RInv(r)
    BY DEF RepInv
  <1>1. /\ pc[r] = "reload" /\ walk[r].state = "closed" /\ Goto(r, "recheck")
        /\ pc'[r] = "recheck" /\ UNCHANGED <<storeVars, cache, walk, gone, out, steady>>
        /\ r \in Lookups /\ r \notin Listings
    BY <1>0, NamesAssumption DEF ReloadEnds, Goto, TypeOK, RInv, WalkFits
  <1>2. \A x : ~Ahead(r, x) /\ walk[r].event \notin Exam
    BY <1>0, <1>1, ClosedFacts
  <1>3. OutVisible(r)' /\ \A x : Holds(x)' = Holds(x)
    BY <1>0, <1>1 DEF RInv, OutVisible, Visible, Holds, storeVars
  <1>4. WalkFits(r)' /\ SteadyThere(r)'
    BY <1>0, <1>1, <1>3 DEF RInv, WalkFits, SteadyThere, storeVars
  <1>5. \A x : WillFind(r, x) => WillFind(r, x)'
    BY <1>1, <1>2 DEF WillFind
  <1>6. LookupServed(r)'
    BY <1>0, <1>1, <1>3, <1>5 DEF RInv, LookupServed, Visible
  <1>7. RInv(r)'
    BY <1>1, <1>3, <1>4, <1>6 DEF RInv
  <1> QED BY <1>1, <1>7, ConsumerStep DEF Steps

\* A hit is an exam of a file, and what is not there after a reload was not to be found.
LEMMA ConsultCacheKeeps ==
    ASSUME RepInv, NEW r \in Requests, ConsultCache(r)
    PROVE  RepInv'
  <1>0. TypeOK /\ CacheOfFiles /\ RInv(r)
    BY DEF RepInv
  <1>1. /\ pc[r] \in {"cache", "recheck"} /\ r \in Lookups /\ r \notin Listings
        /\ UNCHANGED <<storeVars, cache, gone, steady>>
    BY <1>0, NamesAssumption DEF ConsultCache, RInv, WalkFits
  <1>2. LookupServed(r) /\ out[r] = <<>>
    BY <1>0, <1>1 DEF RInv, LookupServed
  <1>3. \A x : Holds(x)' = Holds(x)
    BY <1>1 DEF Holds, storeVars
  <1>4. CASE Wanted[r] \in DOMAIN cache
    <2>1. PICK exam : exam = cache[Wanted[r]]
      OBVIOUS
    <2>2. exam \in Exam /\ exam.from \in Files
      BY <1>0, <1>4, <2>1 DEF TypeOK, CacheOfFiles
    <2>3. Give(r, exam) /\ Goto(r, "done") /\ UNCHANGED walk
      BY <1>4, <2>1 DEF ConsultCache
    <2>4. out'[r] = <<exam>> /\ pc'[r] = "done"
      BY <1>0, <1>2, <2>3 DEF TypeOK, Give, Goto
    <2>5. WalkFits(r)' /\ SteadyThere(r)'
      BY <1>0, <1>1, <1>3, <2>3, <2>4 DEF RInv, WalkFits, SteadyThere, storeVars
    <2>6. OutVisible(r)'
      BY <2>2, <2>4 DEF OutVisible, Visible
    <2>7. \A x : WillFind(r, x) => WillFind(r, x)'
      BY <1>1, <2>4 DEF WillFind
    <2>8. LookupServed(r)'
      BY <1>1, <1>2, <1>3, <2>4, <2>7 DEF LookupServed, Visible
    <2>9. RInv(r)'
      BY <1>1, <2>5, <2>6, <2>8 DEF RInv
    <2> QED BY <1>1, <2>2, <2>3, <2>9, ConsumerStep DEF Steps
  <1>5. CASE Wanted[r] \notin DOMAIN cache /\ pc[r] = "cache"
    <2>1. /\ UNCHANGED out /\ Goto(r, "reload") /\ pc'[r] = "reload"
          /\ WalkTo(r, NewWalk("reload", "opening"))
      BY <1>0, <1>5 DEF ConsultCache, Goto, TypeOK
    <2>2. /\ \E w : WalkTyped(w) /\ WalkTo(r, w)
          /\ walk'[r].scope = "reload" /\ walk'[r].state = "opening" /\ walk'[r].todo = {}
          /\ walk'[r].event = Nothing /\ \A x : Ahead(r, x)'
      BY <1>0, <1>1, <2>1, NewWalkFacts
    <2>3. WalkFits(r)' /\ SteadyThere(r)'
      BY <1>0, <1>1, <1>3, <2>1, <2>2, EventAssumption
      DEF RInv, WalkFits, SteadyThere, storeVars
    <2>4. OutVisible(r)'
      BY <1>0, <2>1 DEF RInv, OutVisible, Visible
    <2>5. \A x : WillFind(r, x) => WillFind(r, x)'
      BY <1>5, <2>1, <2>2 DEF WillFind
    <2>6. LookupServed(r)'
      BY <1>1, <1>2, <1>3, <2>1, <2>5 DEF LookupServed, Visible
    <2>7. RInv(r)'
      BY <1>1, <2>3, <2>4, <2>6 DEF RInv
    <2> QED BY <1>1, <2>1, <2>2, <2>7, ConsumerStep DEF Steps
  <1>6. CASE Wanted[r] \notin DOMAIN cache /\ pc[r] = "recheck"
    <2>1. UNCHANGED <<out, walk>> /\ Goto(r, "done") /\ pc'[r] = "done"
      BY <1>0, <1>6 DEF ConsultCache, Goto, TypeOK
    <2>2. WalkFits(r)' /\ SteadyThere(r)' /\ OutVisible(r)'
      BY <1>0, <1>1, <1>3, <2>1
      DEF RInv, WalkFits, SteadyThere, OutVisible, Visible, storeVars
    <2>3. \A x : WillFind(r, x) => WillFind(r, x)'
      BY <1>6, <2>1 DEF WillFind
    <2>4. LookupServed(r)'
      BY <1>1, <1>2, <1>3, <2>1, <2>3 DEF LookupServed, Visible
    <2>5. RInv(r)'
      BY <1>1, <2>2, <2>4 DEF RInv
    <2> QED BY <1>1, <2>1, <2>5, ConsumerStep DEF Steps
  <1> QED BY <1>1, <1>4, <1>5, <1>6
--------------------------------------------------------------------------------
\* The invariant holds initially ...
LEMMA InitRepInv == ASSUME Init PROVE RepInv
  <1>1. TypeOK
    BY InitType
  <1>2. AssociationsApart /\ CacheOfFiles
    BY DEF Init, AssociationsApart, CacheOfFiles
  <1>3. ASSUME NEW r \in Requests PROVE RInv(r)
    <2>1. /\ pc[r] = "idle" /\ out[r] = <<>> /\ steady[r] = {} /\ walk[r] = NewWalk("user", "off")
      BY DEF Init
    <2>2. PICK w : w = walk[r]
      OBVIOUS
    <2>3. w.scope = "user" /\ w.state = "off" /\ w.todo = {} /\ w.event = Nothing
      BY <2>1, <2>2 DEF NewWalk
    <2>4. WalkFits(r)
      BY <2>1, <2>2, <2>3, EventAssumption DEF WalkFits
    <2> QED BY <2>1, <2>4 DEF RInv, SteadyThere, OutVisible, LookupServed, ListingServed
  <1> QED BY <1>1, <1>2, <1>3 DEF RepInv

\* ... when nothing happens ...
LEMMA StutterKeeps == ASSUME RepInv, UNCHANGED vars PROVE RepInv'
  <1>0. TypeOK /\ AssociationsApart /\ CacheOfFiles
    BY DEF RepInv
  <1>1. UNCHANGED <<storeVars, cache, pc, walk, gone, out, steady>>
    BY DEF vars, requestVars
  <1>2. /\ cache' \in [DOMAIN cache' -> Exam] /\ DOMAIN cache' \subseteq ExamIds
        /\ pc' \in [Requests -> Steps] /\ gone' \subseteq Requests
        /\ out' \in [Requests -> Seq(Exam)] /\ steady' \in [Requests -> SUBSET Sources]
    BY <1>0, <1>1 DEF TypeOK, Steps
  <1>3. TypeOK'
    BY <1>0, <1>1, <1>2, RequestStepTyped
  <1>4. AssociationsApart' /\ CacheOfFiles'
    BY <1>0, <1>1 DEF AssociationsApart, CacheOfFiles, storeVars
  <1>5. ASSUME NEW r \in Requests PROVE RInv(r)'
    BY <1>0, <1>1, Bystander DEF RepInv, storeVars
  <1> QED BY <1>3, <1>4, <1>5 DEF RepInv

\* ... when a source changes ...
LEMMA EnvironmentStep == ASSUME RepInv, Environment PROVE RepInv'
  <1>0. TypeOK /\ AssociationsApart /\ CacheOfFiles
    BY DEF RepInv
  <1>1. TypeOK'
    BY <1>0, EnvironmentType
  <1>2. AssociationsApart'
    BY <1>0, EnvironmentApart
  <1>3. CacheOfFiles'
    BY <1>0, EnvironmentFrame DEF CacheOfFiles
  <1>4. ASSUME NEW r \in Requests PROVE RInv(r)'
    BY <1>0, EnvironmentKeeps DEF RepInv
  <1> QED BY <1>1, <1>2, <1>3, <1>4 DEF RepInv

\* ... and in every step.
LEMMA NextKeeps == ASSUME RepInv, [Next]_vars PROVE RepInv'
  <1>1. CASE Environment
    BY <1>1, EnvironmentStep
  <1>2. ASSUME NEW r \in Requests, Begin(r) \/ Disconnect(r)
        PROVE  RepInv'
    BY <1>2, BeginKeeps, DisconnectKeeps
  <1>3. ASSUME NEW r \in Requests, Produce(r)
        PROVE  RepInv'
    BY <1>3, OpenSourceKeeps, LoadKeeps, CacheExamKeeps, CloseKeeps DEF Produce
  <1>4. ASSUME NEW r \in Requests, Consume(r)
        PROVE  RepInv'
    BY <1>4, LookupReceivesKeeps, ListingReceivesKeeps, UserStreamEndsKeeps,
      SystemStreamEndsKeeps, ConsultCacheKeeps, ReloadEndsKeeps DEF Consume
  <1>5. CASE UNCHANGED vars
    BY <1>5, StutterKeeps
  <1> QED BY <1>1, <1>2, <1>3, <1>4, <1>5 DEF Next

\* The inductive invariant of everything below.
THEOREM AlwaysRepInv == Spec => []RepInv
  <1>1. Init => RepInv
    BY InitRepInv
  <1>2. RepInv /\ [Next]_vars => RepInv'
    BY NextKeeps
  <1> QED BY <1>1, <1>2, PTL DEF Spec

\* TypeOK, however many requests, sources and changes to them there are.
THEOREM TypeCorrect == Spec => []TypeOK
  <1>1. RepInv => TypeOK
    BY DEF RepInv
  <1> QED BY <1>1, AlwaysRepInv, PTL

\* OwnExamsOnly: what a user uploaded is given to no other user, although upload
\* numbers, and so exam ids, are the same for every user, and the cache is shared.
THEOREM OwnExams == Spec => []OwnExamsOnly
  <1>1. RepInv => OwnExamsOnly
    BY DEF RepInv, RInv, OutVisible, OwnExamsOnly
  <1> QED BY <1>1, AlwaysRepInv, PTL

\* LastingExamsAreFound: no failing source and no concurrent change hides an exam
\* that was there all along from GetExamDocumentById.
THEOREM LastingFound == Spec => []LastingExamsAreFound
  <1>1. ASSUME RepInv, NEW l \in Lookups \ gone, pc[l] = "done", out[l] = <<>>,
               NEW x \in steady[l], Visible(l, x), Holds(x) = Wanted[l]
        PROVE  FALSE
    <2>1. l \in Requests /\ TypeOK
      BY <1>1 DEF Requests, RepInv
    <2>2. WillFind(l, x)
      BY <1>1, <2>1 DEF RepInv, RInv, LookupServed
    <2>3. x \in Files \/ x \in Uploads
      BY <2>1 DEF TypeOK, Sources
    <2> QED BY <1>1, <2>2, <2>3 DEF WillFind
  <1>2. RepInv => LastingExamsAreFound
    BY <1>1 DEF LastingExamsAreFound
  <1> QED BY <1>2, AlwaysRepInv, PTL

\* OwnExamTakesPrecedence: a user's own exam is found before one of the directory,
\* also when that one is in the cache already.
THEOREM Precedence == Spec => []OwnExamTakesPrecedence
  <1>1. ASSUME RepInv, NEW l \in Lookups \ gone, pc[l] = "done",
               NEW x \in steady[l] \cap Uploads, Visible(l, x), Holds(x) = Wanted[l]
        PROVE  out[l][1].from \in Uploads
    <2>1. WillFind(l, x)
      BY <1>1 DEF RepInv, RInv, LookupServed, Requests
    <2> QED BY <1>1, <2>1 DEF WillFind
  <1>2. RepInv => OwnExamTakesPrecedence
    BY <1>1 DEF OwnExamTakesPrecedence
  <1> QED BY <1>2, AlwaysRepInv, PTL

\* ListingIsComplete: a listing gives every matching exam of a lasting source once.
THEOREM ListingComplete == Spec => []ListingIsComplete
  <1>1. ASSUME RepInv, NEW s \in Listings \ gone, pc[s] = "done",
               NEW x \in steady[s], Visible(s, x), Holds(x) \in Filter[s]
        PROVE  Cardinality({i \in DOMAIN out[s] : out[s][i].from = x}) = 1
    <2>1. GivenOnce(s, x)
      BY <1>1 DEF RepInv, RInv, ListingServed, WillGive, Requests
    <2>2. PICK i : {j \in DOMAIN out[s] : out[s][j].from = x} = {i}
      BY <2>1 DEF GivenOnce, Given
    <2>3. Cardinality({i}) = 1
      BY FS_Singleton
    <2> QED BY <2>2, <2>3
  <1>2. RepInv => ListingIsComplete
    BY <1>1 DEF ListingIsComplete
  <1> QED BY <1>2, AlwaysRepInv, PTL
================================================================================
