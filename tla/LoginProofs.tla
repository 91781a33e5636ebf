------------------------------ MODULE LoginProofs ------------------------------
(***************************************************************************)
(* Logins, for any browsers, tabs, providers' accounts and bounds.         *)
(*                                                                         *)
(* The invariant LInv is about the three places a login passes through: a  *)
(* page that waits for an answer, the answer on its way, and the jar.  In  *)
(* each of them a nonce or a token belongs to the browser it is in; and a  *)
(* nonce that is still under way has not been seen by the browser before,  *)
(* so that a cookie can never hold one that something has put an end to.   *)
(* The pacing of visitors has an invariant of its own, Paid.               *)
(***************************************************************************)
EXTENDS Login, SequenceTheorems, TLAPS

\* What has been issued stays issued: attempts and visits only grow, and an account
\* once granted to an attempt is not exchanged for another.
Grows ==
    /\ \A n \in DOMAIN attempts : n \in DOMAIN attempts' /\ attempts'[n] = attempts[n]
    /\ \A n \in DOMAIN granted : granted[n] # None => granted'[n] = granted[n]
    /\ \A v \in DOMAIN visits : v \in DOMAIN visits' /\ visits'[v] = visits[v]

\* Nonce n belongs to an attempt of browser b.
OwnAttempt(b, n) == n \in DOMAIN attempts /\ attempts[n].browser = b

OwnSubject(b, s) ==
    /\ s \notin Blacklist /\ (RejectVisitor => s[1] # Visitor)
    /\ IF s[1] = Visitor
       THEN s[2] \in DOMAIN visits /\ visits[s[2]].browser = b
       ELSE \E n \in DOMAIN attempts : /\ s = <<attempts[n].provider, granted[n]>>
                                       /\ attempts[n].browser = b

\* Page pg in a tab of browser b: what it sets and shows belongs to logins of this
\* browser, and a nonce still under way is none the browser has seen.
GoodPage(b, pg) ==
    /\ ~pg.stale
    /\ pg.setJwt = None => pg.setNonce # Keep
    /\ pg.setNonce \notin {0, Keep} =>
         OwnAttempt(b, pg.setNonce) /\ pg.setNonce \notin reached[b]
    /\ pg.at = "exchange" =>
         OwnAttempt(b, pg.n) /\ attempts[pg.n].provider = pg.p /\ granted[pg.n] # None
    /\ pg.setJwt \in Tokens => OwnLogin(b, pg.setJwt)
    /\ pg.shown \in Subjects => OwnSubject(b, pg.shown)

PagesGood ==
    \A t \in Tabs, pg \in TabTypes : tab[t] = pg => GoodPage(BrowserOf[t], pg)

\* No two responses are on their way with the same new nonce.
NoncesApart ==
    \A t, u \in Tabs : tab[t].setNonce = tab[u].setNonce =>
                          t = u \/ tab[t].setNonce \in {0, Keep}

\* A cookie holds a nonce of the browser that nothing has put an end to.
JarsGood ==
    \A b \in Browsers :
      /\ jar[b].nonce # 0 => OwnAttempt(b, jar[b].nonce) /\ jar[b].nonce \notin over[b]
      /\ \A token \in Tokens : jar[b].jwt = token => OwnLogin(b, token)
      /\ reached[b] \subseteq DOMAIN attempts /\ over[b] \subseteq reached[b]

LInv == TypeOK /\ PagesGood /\ NoncesApart /\ JarsGood

LEMMA HomeType == Home \in TabTypes
  BY DEF Home, TabTypes

LEMMA PageTypes ==
    ASSUME NEW n \in Nat, NEW p \in Providers, NEW stale \in BOOLEAN,
           NEW setNonce \in Nat \cup {Keep}, NEW setJwt \in Tokens \cup {None, Keep},
           NEW subject \in Subjects, NEW at \in {"start", "ticket"}
    PROVE  /\ [Home EXCEPT !.at = "answered", !.stale = stale,
                           !.setNonce = setNonce, !.setJwt = setJwt] \in TabTypes
           /\ [Home EXCEPT !.at = "idp", !.n = n] \in TabTypes
           /\ [Home EXCEPT !.at = "answered", !.next = "idp", !.n = n,
                           !.setNonce = setNonce] \in TabTypes
           /\ [Home EXCEPT !.at = "start", !.p = p] \in TabTypes
           /\ [Home EXCEPT !.at = "ticket"] \in TabTypes
           /\ [Home EXCEPT !.at = "exchange", !.p = p, !.n = n, !.stale = stale]
                 \in TabTypes
           /\ [Home EXCEPT !.at = "answered", !.stale = stale, !.setNonce = setNonce]
                 \in TabTypes
           /\ [Home EXCEPT !.at = "answered", !.shown = subject] \in TabTypes
  BY DEF Home, TabTypes, InFlight
--------------------------------------------------------------------------------
LEMMA RemoveType ==
    ASSUME NEW S, NEW s \in Seq(S), NEW i \in DOMAIN s
    PROVE  RemoveAt(s, i) \in Seq(S)
  <1>1. SubSeq(s, 1, i - 1) \in Seq(S) /\ SubSeq(s, i + 1, Len(s)) \in Seq(S)
    OBVIOUS
  <1> QED BY <1>1, ConcatProperties DEF RemoveAt

LEMMA WithoutType ==
    ASSUME TypeOK, NEW t
    PROVE  WithoutVisitor(t) \in Seq(Tabs)
  <1> DEFINE places == {i \in DOMAIN waiting : waiting[i] = t}
             i == CHOOSE i \in places : TRUE
  <1>0. waiting \in Seq(Tabs)
    BY DEF TypeOK
  <1>1. CASE places = {}
    BY <1>0, <1>1 DEF WithoutVisitor
  <1>2. CASE places # {}
    <2>1. i \in places
      BY <1>2
    <2>2. RemoveAt(waiting, i) \in Seq(Tabs)
      BY <1>0, <2>1, RemoveType
    <2> QED BY <1>2, <2>2 DEF WithoutVisitor
  <1> QED BY <1>1, <1>2

LEMMA GotoType ==
    ASSUME tab \in [Tabs -> TabTypes], NEW t \in Tabs, NEW pg \in TabTypes, Goto(t, pg)
    PROVE  /\ tab' \in [Tabs -> TabTypes] /\ tab'[t] = pg
           /\ \A u \in Tabs \ {t} : tab'[u] = tab[u]
  BY DEF Goto

LEMMA OwnStays ==
    ASSUME TypeOK, Grows, NEW b, NEW token \in Tokens, OwnLogin(b, token)
    PROVE  OwnLogin(b, token)'
  <1>1. CASE token.subject[1] = Visitor
    BY <1>1 DEF OwnLogin, Grows
  <1>2. CASE token.subject[1] # Visitor
    <2>1. token.subject \in Providers \X Accounts
      BY <1>2 DEF Tokens, Subjects
    <2>2. /\ token.attempt \in DOMAIN attempts
          /\ attempts[token.attempt].browser = b
          /\ token.subject =
              <<attempts[token.attempt].provider, granted[token.attempt]>>
      BY <1>2 DEF OwnLogin
    <2>3. granted[token.attempt] # None
      BY <2>1, <2>2, KeepAssumption
    <2>4. token.attempt \in DOMAIN granted
      BY <2>2 DEF TypeOK
    <2> QED BY <1>2, <2>2, <2>3, <2>4 DEF OwnLogin, Grows
  <1> QED BY <1>1, <1>2

LEMMA SubjectStays ==
    ASSUME TypeOK, Grows, NEW b, NEW s \in Subjects, OwnSubject(b, s)
    PROVE  OwnSubject(b, s)'
  <1>1. CASE s[1] = Visitor
    BY <1>1 DEF OwnSubject, Grows
  <1>2. CASE s[1] # Visitor
    <2>1. s \in Providers \X Accounts
      BY <1>2 DEF Subjects
    <2>2. PICK n \in DOMAIN attempts : /\ s = <<attempts[n].provider, granted[n]>>
                                       /\ attempts[n].browser = b
      BY <1>2 DEF OwnSubject
    <2>3. granted[n] # None
      BY <2>1, <2>2, KeepAssumption
    <2>4. n \in DOMAIN granted
      BY <2>2 DEF TypeOK
    <2>5. n \in DOMAIN attempts' /\ attempts'[n] = attempts[n] /\ granted'[n] = granted[n]
      BY <2>3, <2>4 DEF Grows
    <2> QED BY <1>2, <2>2, <2>5 DEF OwnSubject
  <1> QED BY <1>1, <1>2

LEMMA AttemptStays ==
    ASSUME TypeOK, Grows, NEW b, NEW n, OwnAttempt(b, n)
    PROVE  OwnAttempt(b, n)' /\ attempts'[n] = attempts[n]
           /\ (granted[n] # None => granted'[n] = granted[n])
  <1>1. n \in DOMAIN granted
    BY DEF TypeOK, OwnAttempt
  <1> QED BY <1>1 DEF OwnAttempt, Grows

LEMMA PageStays ==
    ASSUME TypeOK, Grows, NEW b, NEW pg \in TabTypes, GoodPage(b, pg),
           pg.setNonce \notin {0, Keep} => pg.setNonce \notin reached'[b]
    PROVE  GoodPage(b, pg)'
  <1>1. pg.setJwt \in Tokens => OwnLogin(b, pg.setJwt)'
    BY OwnStays DEF GoodPage
  <1>2. pg.shown \in Subjects => OwnSubject(b, pg.shown)'
    BY SubjectStays DEF GoodPage
  <1>3. pg.setNonce \notin {0, Keep} => OwnAttempt(b, pg.setNonce)'
    BY AttemptStays DEF GoodPage
  <1>4. pg.at = "exchange" => /\ OwnAttempt(b, pg.n)'
                              /\ attempts'[pg.n].provider = pg.p /\ granted'[pg.n] # None
    BY AttemptStays DEF GoodPage
  <1> QED BY <1>1, <1>2, <1>3, <1>4 DEF GoodPage
\* A step that sends one tab to another page, and no response arrives.
LEMMA WorkKeeps ==
    ASSUME LInv, TypeOK', Grows, NEW t \in Tabs, NEW pg \in TabTypes, Goto(t, pg),
           GoodPage(BrowserOf[t], pg)',
           pg.setNonce \notin {0, Keep} =>
             \A u \in Tabs \ {t} : tab[u].setNonce # pg.setNonce,
           UNCHANGED <<jar, reached, over>>
    PROVE  LInv'
  <1>0. /\ TypeOK /\ tab \in [Tabs -> TabTypes] /\ BrowserOf \in [Tabs -> Browsers]
        /\ tab' \in [Tabs -> TabTypes] /\ tab'[t] = pg
        /\ \A u \in Tabs \ {t} : tab'[u] = tab[u]
    BY GotoType, BrowserAssumption DEF LInv, TypeOK
  <1>1. PagesGood'
    <2>1. SUFFICES ASSUME NEW u \in Tabs, NEW q \in TabTypes, tab'[u] = q
                   PROVE  GoodPage(BrowserOf[u], q)'
      BY DEF PagesGood
    <2>2. CASE u = t
      BY <1>0, <2>1, <2>2
    <2>3. CASE u # t
      <3>1. GoodPage(BrowserOf[u], q)
        BY <1>0, <2>1, <2>3 DEF LInv, PagesGood
      <3> QED BY <1>0, <3>1, PageStays DEF GoodPage
    <2> QED BY <2>2, <2>3
  <1>2. NoncesApart'
    BY <1>0 DEF LInv, NoncesApart
  <1>3. JarsGood'
    <2>1. SUFFICES ASSUME NEW b \in Browsers
                   PROVE /\ jar[b].nonce # 0 =>
                              OwnAttempt(b, jar[b].nonce)' /\ jar[b].nonce \notin over[b]
                         /\ \A token \in Tokens : jar[b].jwt = token => OwnLogin(b, token)'
                         /\ reached[b] \subseteq DOMAIN attempts' /\ over[b] \subseteq reached[b]
      BY DEF JarsGood, OwnAttempt
    <2> QED BY <1>0, OwnStays, AttemptStays DEF LInv, JarsGood, Grows
  <1> QED BY <1>1, <1>2, <1>3 DEF LInv

\* A step of no tab.
LEMMA OtherKeeps ==
    ASSUME LInv, TypeOK', Grows, UNCHANGED <<tab, jar, reached, over>>
    PROVE  LInv'
  <1>0. /\ TypeOK /\ BrowserOf \in [Tabs -> Browsers]
    BY BrowserAssumption DEF LInv
  <1>1. PagesGood'
    <2>1. SUFFICES ASSUME NEW u \in Tabs, NEW q \in TabTypes, tab[u] = q
                   PROVE  GoodPage(BrowserOf[u], q)'
      BY DEF PagesGood
    <2>2. GoodPage(BrowserOf[u], q)
      BY <2>1 DEF LInv, PagesGood
    <2> QED BY <1>0, <2>2, PageStays DEF GoodPage
  <1>2. NoncesApart'
    BY DEF LInv, NoncesApart
  <1>3. JarsGood'
    <2>1. SUFFICES ASSUME NEW b \in Browsers
                   PROVE /\ jar[b].nonce # 0 =>
                              OwnAttempt(b, jar[b].nonce)' /\ jar[b].nonce \notin over[b]
                         /\ \A token \in Tokens : jar[b].jwt = token => OwnLogin(b, token)'
                         /\ reached[b] \subseteq DOMAIN attempts' /\ over[b] \subseteq reached[b]
      BY DEF JarsGood, OwnAttempt
    <2> QED BY <1>0, OwnStays, AttemptStays DEF LInv, JarsGood, Grows
  <1> QED BY <1>1, <1>2, <1>3 DEF LInv

LEMMA Stand ==
    ASSUME TypeOK, UNCHANGED <<attempts, granted, visits>>
    PROVE  Grows
  BY DEF Grows

\* Pages that set nothing and show nothing need no attempt or visit to speak for them.
LEMMA PlainPage ==
    ASSUME NEW b, NEW pg, ~pg.stale, pg.setNonce = Keep, pg.setJwt = Keep,
           pg.at # "exchange", pg.shown = None
    PROVE  GoodPage(b, pg)'
  BY KeepAssumption DEF GoodPage

LEMMA PlainPages ==
    ASSUME NEW b, NEW n, NEW p
    PROVE  /\ GoodPage(b, Home)'
           /\ GoodPage(b, [Home EXCEPT !.at = "idp", !.n = n])'
           /\ GoodPage(b, [Home EXCEPT !.at = "start", !.p = p])'
           /\ GoodPage(b, [Home EXCEPT !.at = "ticket"])'
  <1>1. GoodPage(b, Home)'
    BY PlainPage DEF Home
  <1> DEFINE idp   == [Home EXCEPT !.at = "idp", !.n = n]
             start == [Home EXCEPT !.at = "start", !.p = p]
  <1>2. GoodPage(b, idp)'
    <2>1. /\ ~idp.stale /\ idp.setNonce = Keep /\ idp.setJwt = Keep
          /\ idp.at # "exchange" /\ idp.shown = None
      BY DEF Home
    <2> HIDE DEF idp
    <2> QED BY <2>1, PlainPage
  <1>3. GoodPage(b, start)'
    <2>1. /\ ~start.stale /\ start.setNonce = Keep /\ start.setJwt = Keep
          /\ start.at # "exchange" /\ start.shown = None
      BY DEF Home
    <2> HIDE DEF start
    <2> QED BY <2>1, PlainPage
  <1>4. GoodPage(b, [Home EXCEPT !.at = "ticket"])'
    BY PlainPage DEF Home
  <1> QED BY <1>1, <1>2, <1>3, <1>4

\* A response arrives: its nonce has now reached the browser, and no other response
\* on its way carries it.
LEMMA ArriveKeeps == ASSUME LInv, NEW t \in Tabs, Arrive(t) PROVE LInv'
  <1> DEFINE b == BrowserOf[t]
  <1>1. /\ TypeOK /\ BrowserOf \in [Tabs -> Browsers] /\ b \in Browsers
        /\ tab \in [Tabs -> TabTypes]
        /\ jar \in [Browsers -> [nonce : Nat, jwt : Tokens \cup {None}]]
        /\ reached \in [Browsers -> SUBSET Nat] /\ over \in [Browsers -> SUBSET Nat]
    BY BrowserAssumption DEF LInv, TypeOK
  <1>2. PICK r \in TabTypes : r = tab[t]
    BY <1>1
  <1>3. /\ UNCHANGED <<flow, pacing, budget>>
        /\ jar' = [jar EXCEPT
             ![b].nonce = IF r.setNonce = Keep THEN @ ELSE r.setNonce,
             ![b].jwt = IF r.setJwt = Keep THEN @ ELSE r.setJwt]
        /\ Goto(t, IF r.next = "idp" THEN [Home EXCEPT !.at = "idp", !.n = r.n] ELSE Home)
        /\ over' = IF r.setNonce = Keep /\ r.setJwt # None
                    THEN over ELSE [over EXCEPT ![b] = reached[b]]
        /\ reached' = IF r.setNonce \in {Keep, 0} THEN reached
                      ELSE [reached EXCEPT ![b] = @ \cup {r.setNonce}]
    BY <1>2 DEF Arrive
  <1>4. /\ r.setNonce \in Nat \cup {Keep} /\ r.setJwt \in Tokens \cup {None, Keep}
        /\ r.n \in Nat
    BY DEF TabTypes
  <1>5. GoodPage(b, r)
    BY <1>2 DEF LInv, PagesGood
  <1>6. PICK pg \in TabTypes : /\ Goto(t, pg) /\ GoodPage(b, pg)'
                              /\ pg.setNonce = Keep
    <2>1. CASE r.next = "idp"
      <3> DEFINE page == [Home EXCEPT !.at = "idp", !.n = r.n]
      <3>1. page \in TabTypes
        BY <1>4 DEF Home, TabTypes
      <3>3. GoodPage(b, page)'
        BY PlainPages
      <3>2. page.setNonce = Keep
        BY DEF Home
      <3> QED BY <1>3, <2>1, <3>1, <3>2, <3>3
    <2>2. CASE r.next # "idp"
      <3>1. Home \in TabTypes /\ GoodPage(b, Home)' /\ Home.setNonce = Keep
        BY HomeType, PlainPages DEF Home
      <3> QED BY <1>3, <2>2, <3>1
    <2> QED BY <2>1, <2>2
  <1>7. /\ tab' \in [Tabs -> TabTypes] /\ tab'[t] = pg
        /\ \A u \in Tabs \ {t} : tab'[u] = tab[u]
    BY <1>1, <1>6, GotoType
  <1>8. /\ jar' \in [Browsers -> [nonce : Nat, jwt : Tokens \cup {None}]]
        /\ jar'[b].nonce = IF r.setNonce = Keep THEN jar[b].nonce ELSE r.setNonce
        /\ jar'[b].jwt = IF r.setJwt = Keep THEN jar[b].jwt ELSE r.setJwt
        /\ \A c \in Browsers \ {b} : jar'[c] = jar[c]
    BY <1>1, <1>3, <1>4
  <1>9. /\ reached' \in [Browsers -> SUBSET Nat]
        /\ reached'[b] = IF r.setNonce \in {Keep, 0} THEN reached[b]
                         ELSE reached[b] \cup {r.setNonce}
        /\ \A c \in Browsers \ {b} : reached'[c] = reached[c]
    BY <1>1, <1>3, <1>4
  <1>10. /\ over' \in [Browsers -> SUBSET Nat]
         /\ over'[b] = IF r.setNonce = Keep /\ r.setJwt # None THEN over[b] ELSE reached[b]
         /\ \A c \in Browsers \ {b} : over'[c] = over[c]
    BY <1>1, <1>3
  <1> HIDE DEF b
  <1>11. TypeOK'
    BY <1>1, <1>3, <1>7, <1>8, <1>9, <1>10 DEF TypeOK, flow, pacing
  <1>12. Grows
    BY <1>1, <1>3, Stand DEF flow, pacing
  <1>13. PagesGood'
    <2>1. SUFFICES ASSUME NEW u \in Tabs, NEW q \in TabTypes, tab'[u] = q
                   PROVE  GoodPage(BrowserOf[u], q)'
      BY DEF PagesGood
    <2>2. CASE u = t
      BY <1>6, <1>7, <2>1, <2>2 DEF b
    <2>3. CASE u # t
      <3>1. tab[u] = q /\ GoodPage(BrowserOf[u], q)
        BY <1>7, <2>1, <2>3 DEF LInv, PagesGood
      <3>2. q.setNonce \notin {0, Keep} => q.setNonce \notin reached[BrowserOf[u]]
        BY <3>1 DEF GoodPage
      <3>3. q.setNonce \notin {0, Keep} => q.setNonce # r.setNonce
        BY <1>2, <2>3, <3>1 DEF LInv, NoncesApart
      <3>4. q.setNonce \notin {0, Keep} => q.setNonce \notin reached'[BrowserOf[u]]
        BY <1>1, <1>9, <3>2, <3>3
      <3> QED BY <1>1, <1>12, <3>1, <3>4, PageStays
    <2> QED BY <2>2, <2>3
  <1>14. NoncesApart'
    BY <1>6, <1>7 DEF LInv, NoncesApart
  <1>15. JarsGood'
    <2>1. SUFFICES ASSUME NEW c \in Browsers
                   PROVE /\ jar'[c].nonce # 0 =>
                              OwnAttempt(c, jar'[c].nonce) /\ jar'[c].nonce \notin over'[c]
                         /\ \A token \in Tokens : jar'[c].jwt = token => OwnLogin(c, token)'
                         /\ reached'[c] \subseteq DOMAIN attempts /\ over'[c] \subseteq reached'[c]
      BY <1>3 DEF JarsGood, OwnAttempt, flow
    <2>2. /\ jar[c].nonce # 0 => OwnAttempt(c, jar[c].nonce) /\ jar[c].nonce \notin over[c]
          /\ \A token \in Tokens : jar[c].jwt = token => OwnLogin(c, token)'
          /\ reached[c] \subseteq DOMAIN attempts /\ over[c] \subseteq reached[c]
      BY <1>1, <1>12, OwnStays DEF LInv, JarsGood
    <2>3. CASE c # b
      BY <1>8, <1>9, <1>10, <2>2, <2>3
    <2>4. CASE c = b
      <3>1. /\ r.setNonce \notin {0, Keep} =>
                 OwnAttempt(b, r.setNonce) /\ r.setNonce \notin reached[b]
            /\ r.setJwt = None => r.setNonce # Keep
            /\ r.setJwt \in Tokens => OwnLogin(b, r.setJwt)'
        BY <1>1, <1>5, <1>12, OwnStays DEF GoodPage
      <3>2. jar'[c].nonce # 0 =>
              OwnAttempt(c, jar'[c].nonce) /\ jar'[c].nonce \notin over'[c]
        BY <1>8, <1>10, <2>2, <2>4, <3>1
      <3>3. reached'[c] \subseteq DOMAIN attempts
        BY <1>9, <2>2, <2>4, <3>1 DEF OwnAttempt
      <3>4. over'[c] \subseteq reached'[c]
        BY <1>9, <1>10, <2>2, <2>4
      <3>5. \A token \in Tokens : jar'[c].jwt = token => OwnLogin(c, token)'
        BY <1>8, <2>2, <2>4, <3>1
      <3> QED BY <3>2, <3>3, <3>4, <3>5
    <2> QED BY <2>3, <2>4
  <1> QED BY <1>11, <1>13, <1>14, <1>15 DEF LInv
--------------------------------------------------------------------------------
\* The page an answer makes.
LEMMA AnswerPage ==
    ASSUME LInv, NEW t \in Tabs, NEW setNonce \in Nat \cup {Keep},
           NEW setJwt \in Tokens \cup {None, Keep}, Answer(t, setNonce, setJwt)
    PROVE  \E pg \in TabTypes :
             /\ Goto(t, pg) /\ pg.at = "answered" /\ ~pg.stale /\ pg.shown = None
             /\ pg.setNonce = setNonce /\ pg.setJwt = setJwt
  <1>1. tab[t] \in TabTypes
    BY DEF LInv, TypeOK
  <1>2. tab[t].stale \in BOOLEAN
    BY <1>1 DEF TabTypes
  <1>3. ~tab[t].stale
    BY <1>1 DEF LInv, PagesGood, GoodPage
  <1> DEFINE s == tab[t].stale
             pg == [Home EXCEPT !.at = "answered", !.stale = s,
                                !.setNonce = setNonce, !.setJwt = setJwt]
  <1> HIDE DEF s
  <1>4. s \in BOOLEAN /\ ~s
    BY <1>2, <1>3 DEF s
  <1>5. pg \in TabTypes
    BY <1>4 DEF Home, TabTypes, InFlight
  <1>6. /\ pg.at = "answered" /\ pg.stale = s /\ pg.shown = None
        /\ pg.setNonce = setNonce /\ pg.setJwt = setJwt
    BY <1>4 DEF Home
  <1>7. Goto(t, pg)
    BY DEF Answer, s
  <1> HIDE DEF pg
  <1> QED BY <1>4, <1>5, <1>6, <1>7

LEMMA HangUpKeeps == ASSUME LInv, NEW t \in Tabs, HangUp(t) PROVE LInv'
  <1>1. /\ TypeOK /\ Goto(t, Home) /\ waiting' = WithoutVisitor(t)
        /\ UNCHANGED <<jar, attempts, granted, discovery, tick, due, tickets, visits,
                       reached, over, budget>>
    BY DEF HangUp, LInv, history
  <1>2. tab' \in [Tabs -> TabTypes] /\ waiting' \in Seq(Tabs)
    BY <1>1, HomeType, GotoType, WithoutType DEF TypeOK
  <1>3. spent' \subseteq Nat
    <2>1. tab[t].n \in Nat
      BY <1>1 DEF TypeOK, TabTypes
    <2> QED BY <1>1, <2>1 DEF HangUp, TypeOK
  <1>4. TypeOK'
    BY <1>1, <1>2, <1>3 DEF TypeOK
  <1> QED BY <1>1, <1>4, HomeType, PlainPages, Stand, WorkKeeps DEF Home

LEMMA IssueFacts ==
    ASSUME TypeOK, NEW t \in Tabs, NEW p \in Providers, IssueNonce(t, p), visits' = visits
    PROVE  /\ Grows /\ FreshNonce \in Nat \ {0} /\ FreshNonce \notin DOMAIN attempts
           /\ attempts' \in Seq([provider : Providers, browser : Browsers])
           /\ granted' \in Seq(Accounts \cup {None}) /\ Len(granted') = Len(attempts')
           /\ FreshNonce \in DOMAIN attempts'
           /\ attempts'[FreshNonce].browser = BrowserOf[t]
  <1> DEFINE A == [provider : Providers, browser : Browsers]
             rec == [provider |-> p, browser |-> BrowserOf[t]]
             G == Accounts \cup {None}
  <1>1. /\ attempts \in Seq(A) /\ rec \in A /\ rec.browser = BrowserOf[t]
        /\ granted \in Seq(G) /\ None \in G /\ Len(granted) = Len(attempts)
        /\ attempts' = Append(attempts, rec) /\ granted' = Append(granted, None)
    BY BrowserAssumption DEF TypeOK, IssueNonce
  <1> HIDE DEF A, rec, G
  <1>2. /\ attempts' \in Seq(A) /\ Len(attempts') = Len(attempts) + 1
        /\ \A i \in DOMAIN attempts : i \in DOMAIN attempts' /\ attempts'[i] = attempts[i]
        /\ Len(attempts) \in Nat /\ DOMAIN attempts = 1..Len(attempts)
        /\ DOMAIN attempts' = 1..(Len(attempts) + 1) /\ attempts'[Len(attempts) + 1] = rec
    BY <1>1
  <1>3. /\ granted' \in Seq(G) /\ Len(granted') = Len(granted) + 1
        /\ \A i \in DOMAIN granted : granted'[i] = granted[i]
    BY <1>1
  <1>4. Grows
    BY <1>2, <1>3 DEF Grows
  <1> QED BY <1>1, <1>2, <1>3, <1>4 DEF FreshNonce, A, G

\* A page that brings the fresh nonce.
LEMMA FreshPage ==
    ASSUME LInv, NEW t \in Tabs, NEW p \in Providers, IssueNonce(t, p),
           UNCHANGED <<jar, spent, discovery, pacing, history>>,
           NEW pg \in TabTypes, Goto(t, pg), ~pg.stale, pg.at # "exchange",
           pg.setNonce = FreshNonce, pg.setJwt = Keep, pg.shown = None
    PROVE  LInv'
  <1>1. /\ TypeOK /\ visits' = visits /\ reached' = reached /\ over' = over
        /\ BrowserOf[t] \in Browsers
    BY BrowserAssumption DEF LInv, pacing, history
  <1>2. /\ Grows /\ FreshNonce \in Nat \ {0} /\ FreshNonce \notin DOMAIN attempts
        /\ attempts' \in Seq([provider : Providers, browser : Browsers])
        /\ granted' \in Seq(Accounts \cup {None}) /\ Len(granted') = Len(attempts')
        /\ FreshNonce \in DOMAIN attempts'
        /\ attempts'[FreshNonce].browser = BrowserOf[t]
    BY <1>1, IssueFacts
  <1>3. tab' \in [Tabs -> TabTypes]
    BY <1>1, GotoType DEF TypeOK
  <1>4. TypeOK'
    BY <1>1, <1>2, <1>3 DEF TypeOK, pacing, history
  <1>5. FreshNonce \notin reached[BrowserOf[t]]
    BY <1>1, <1>2 DEF LInv, JarsGood
  <1>6. GoodPage(BrowserOf[t], pg)'
    BY <1>1, <1>2, <1>5, KeepAssumption DEF GoodPage, OwnAttempt
  <1>7. ASSUME NEW u \in Tabs PROVE tab[u].setNonce # FreshNonce
    <2>1. PICK q \in TabTypes : q = tab[u]
      BY <1>1 DEF TypeOK
    <2>2. GoodPage(BrowserOf[u], q)
      BY <2>1 DEF LInv, PagesGood
    <2>3. q.setNonce \notin {0, Keep} => q.setNonce \in DOMAIN attempts
      BY <2>2 DEF GoodPage, OwnAttempt
    <2> QED BY <1>2, <2>1, <2>3, KeepAssumption
  <1> QED BY <1>1, <1>2, <1>4, <1>6, <1>7, WorkKeeps

LEMMA RedirectKeeps ==
    ASSUME LInv, NEW t \in Tabs, NEW p \in Providers, IssueNonce(t, p), Redirect(t),
           UNCHANGED <<jar, spent, discovery, pacing, history>>
    PROVE  LInv'
  <1>1. FreshNonce \in Nat
    BY DEF LInv, TypeOK, FreshNonce
  <1> DEFINE pg == [Home EXCEPT !.at = "answered", !.next = "idp", !.n = FreshNonce,
                                !.setNonce = FreshNonce]
  <1>2. PICK q : q = pg
    OBVIOUS
  <1>3. q \in TabTypes
    BY <1>1, <1>2 DEF Home, TabTypes, InFlight
  <1>4. /\ ~q.stale /\ q.at # "exchange" /\ q.setNonce = FreshNonce
        /\ q.setJwt = Keep /\ q.shown = None
    BY <1>1, <1>2 DEF Home
  <1>5. Goto(t, q)
    BY <1>2 DEF Redirect
  <1> HIDE DEF pg
  <1> QED BY <1>3, <1>4, <1>5, FreshPage

LEMMA OAuthStartKeeps ==
    ASSUME LInv, NEW t \in Tabs, NEW p \in Providers, OAuthStart(t, p)
    PROVE  LInv'
  <1>1. /\ IssueNonce(t, p) /\ UNCHANGED <<jar, spent, discovery, pacing, history>>
        /\ Redirect(t) \/ Answer(t, FreshNonce, Keep)
    BY DEF OAuthStart
  <1>2. CASE Redirect(t)
    BY <1>1, <1>2, RedirectKeeps
  <1>3. CASE Answer(t, FreshNonce, Keep)
    <2>1. FreshNonce \in Nat
      BY DEF LInv, TypeOK, FreshNonce
    <2>2. PICK pg \in TabTypes :
             /\ Goto(t, pg) /\ pg.at = "answered" /\ ~pg.stale /\ pg.shown = None
             /\ pg.setNonce = FreshNonce /\ pg.setJwt = Keep
      BY <1>3, <2>1, AnswerPage
    <2> QED BY <1>1, <2>2, FreshPage
  <1> QED BY <1>1, <1>2, <1>3
--------------------------------------------------------------------------------
\* Steps that lead a tab to a plain page and change nothing that pages rest on.
LEMMA PlainWork ==
    ASSUME LInv, NEW t \in Tabs, NEW pg \in TabTypes, Goto(t, pg),
           GoodPage(BrowserOf[t], pg)', pg.setNonce \in {0, Keep},
           UNCHANGED <<jar, attempts, granted, visits, tick, due, tickets, history>>,
           spent' \subseteq Nat, waiting' \in Seq(Tabs),
           discovery' \in {"unknown", "asked", "known", "failed"}
    PROVE  LInv'
  <1>1. TypeOK
    BY DEF LInv
  <1>2. tab' \in [Tabs -> TabTypes]
    BY <1>1, GotoType DEF TypeOK
  <1>3. TypeOK'
    BY <1>1, <1>2 DEF TypeOK, history
  <1> QED BY <1>1, <1>3, Stand, WorkKeeps DEF history

LEMMA PlainActionsKeep ==
    ASSUME LInv, NEW t \in Tabs,
           ClickOidc(t) \/ Unavailable(t) \/ Decline(t) \/ ClickVisitor(t)
    PROVE  LInv'
  <1>1. /\ spent \subseteq Nat /\ waiting \in Seq(Tabs)
        /\ discovery \in {"unknown", "asked", "known", "failed"}
    BY DEF LInv, TypeOK
  <1> DEFINE start == [Home EXCEPT !.at = "start", !.p = "oidc"]
             ticket == [Home EXCEPT !.at = "ticket"]
  <1>2. /\ start \in TabTypes /\ start.setNonce = Keep
        /\ ticket \in TabTypes /\ ticket.setNonce = Keep
        /\ Home \in TabTypes /\ Home.setNonce = Keep
    BY DEF Home, TabTypes, InFlight, Providers
  <1>3. /\ GoodPage(BrowserOf[t], start)' /\ GoodPage(BrowserOf[t], ticket)'
        /\ GoodPage(BrowserOf[t], Home)'
    BY PlainPages
  <1>4. CASE ClickOidc(t)
    <2>1. Goto(t, start) /\ UNCHANGED <<jar, flow, pacing, history>>
      BY <1>4 DEF ClickOidc
    <2> HIDE DEF start
    <2> QED BY <1>1, <1>2, <1>3, <2>1, PlainWork DEF flow, pacing
  <1>5. CASE Unavailable(t) \/ Decline(t)
    <2>1. Goto(t, Home) /\ UNCHANGED <<jar, flow, pacing, history>>
      BY <1>5 DEF Unavailable, Decline
    <2> QED BY <1>1, <1>2, <1>3, <2>1, PlainWork DEF flow, pacing
  <1>6. CASE ClickVisitor(t)
    <2>1. /\ Goto(t, ticket) /\ waiting' = Append(waiting, t)
          /\ UNCHANGED <<jar, flow, tick, due, tickets, visits, history>>
      BY <1>6 DEF ClickVisitor
    <2>2. waiting' \in Seq(Tabs)
      BY <1>1, <2>1
    <2> HIDE DEF ticket
    <2> QED BY <1>1, <1>2, <1>3, <2>1, <2>2, PlainWork DEF flow
  <1> QED BY <1>4, <1>5, <1>6

LEMMA ProviderStepsKeep ==
    ASSUME LInv, (\E t \in Tabs : InitProvider(t)) \/ ProviderDiscovered \/ Tick \/ ProduceTicket
    PROVE  LInv'
  <1>1. TypeOK
    BY DEF LInv
  <1>2. /\ UNCHANGED <<jar, tab, attempts, granted, spent, waiting, visits, history>>
        /\ discovery' \in {"unknown", "asked", "known", "failed"}
        /\ tick' \in Nat /\ due' \in {0, 1} /\ tickets' \in Nat
    BY <1>1 DEF InitProvider, ProviderDiscovered, Tick, ProduceTicket, TypeOK, pacing, flow
  <1>3. TypeOK'
    BY <1>1, <1>2 DEF TypeOK, history
  <1> QED BY <1>1, <1>2, <1>3, Stand, OtherKeeps DEF history

LEMMA OidcStartKeeps == ASSUME LInv, NEW t \in Tabs, OidcStart(t) PROVE LInv'
  <1>1. CASE IssueNonce(t, "oidc") /\ Redirect(t)
    <2>1. UNCHANGED <<jar, spent, discovery, pacing, history>> /\ "oidc" \in Providers
      BY DEF OidcStart, Providers
    <2> QED BY <1>1, <2>1, RedirectKeeps
  <1>2. CASE Goto(t, Home) /\ UNCHANGED <<attempts, granted>>
    <2>1. UNCHANGED <<jar, spent, discovery, pacing, history>>
      BY DEF OidcStart
    <2>2. /\ spent' \subseteq Nat /\ waiting' \in Seq(Tabs)
          /\ discovery' \in {"unknown", "asked", "known", "failed"}
          /\ UNCHANGED <<jar, attempts, granted, visits, tick, due, tickets, history>>
      BY <1>2, <2>1 DEF LInv, TypeOK, pacing
    <2>3. Home \in TabTypes /\ GoodPage(BrowserOf[t], Home)' /\ Home.setNonce = Keep
      BY HomeType, PlainPages DEF Home
    <2> QED BY <1>2, <2>2, <2>3, PlainWork
  <1> QED BY <1>1, <1>2 DEF OidcStart

LEMMA LogoutKeeps == ASSUME LInv, NEW t \in Tabs, Logout(t) PROVE LInv'
  <1>1. Answer(t, 0, None) /\ UNCHANGED <<jar, flow, pacing, history>>
    BY DEF Logout, LogoutAnswer
  <1>2. PICK pg \in TabTypes :
             /\ Goto(t, pg) /\ pg.at = "answered" /\ ~pg.stale /\ pg.shown = None
             /\ pg.setNonce = 0 /\ pg.setJwt = None
    BY <1>1, AnswerPage
  <1>3. GoodPage(BrowserOf[t], pg)'
    BY <1>2, KeepAssumption DEF GoodPage
  <1>4. /\ spent' \subseteq Nat /\ waiting' \in Seq(Tabs)
        /\ discovery' \in {"unknown", "asked", "known", "failed"}
        /\ UNCHANGED <<jar, attempts, granted, visits, tick, due, tickets, history>>
    BY <1>1 DEF LInv, TypeOK, pacing, flow
  <1> QED BY <1>2, <1>3, <1>4, PlainWork

LEMMA ServeProfileKeeps == ASSUME LInv, NEW t \in Tabs, ServeProfile(t) PROVE LInv'
  <1>1. /\ TypeOK /\ BrowserOf[t] \in Browsers
    BY BrowserAssumption DEF LInv
  <1>2. PICK token \in Tokens \cup {None} : token = jar[BrowserOf[t]].jwt
    BY <1>1 DEF TypeOK
  <1>3. /\ token # None /\ Admitted(token.subject)
        /\ Goto(t, [Home EXCEPT !.at = "answered", !.shown = token.subject])
        /\ UNCHANGED <<jar, flow, pacing, history>>
    BY <1>2 DEF ServeProfile, PassesMiddleware, TokenOf, Jar, SessionOf, WhiteList
  <1>4. PICK s \in Subjects : s = token.subject
    BY <1>3 DEF Tokens
  <1>5. OwnLogin(BrowserOf[t], token)
    BY <1>1, <1>2, <1>3 DEF LInv, JarsGood
  <1>6. OwnSubject(BrowserOf[t], s)
    <2>1. s \notin Blacklist /\ (RejectVisitor => s[1] # Visitor)
      BY <1>3, <1>4 DEF Admitted, CheckBlackList
    <2> QED BY <1>4, <1>5, <2>1 DEF OwnLogin, OwnSubject
  <1> DEFINE page == [Home EXCEPT !.at = "answered", !.shown = s]
  <1>7. PICK pg \in TabTypes : pg = page
    <2>1. page \in TabTypes
      BY DEF Home, TabTypes, InFlight
    <2> QED BY <2>1
  <1>8. /\ ~pg.stale /\ pg.setNonce = Keep /\ pg.setJwt = Keep /\ pg.at = "answered"
        /\ pg.shown = s
    BY <1>7 DEF Home
  <1>9. Goto(t, pg)
    BY <1>3, <1>4, <1>7
  <1> HIDE DEF page
  <1>10. OwnSubject(BrowserOf[t], s)'
    BY <1>1, <1>3, <1>6, Stand, SubjectStays DEF flow, pacing
  <1>11. GoodPage(BrowserOf[t], pg)'
    BY <1>8, <1>10, KeepAssumption DEF GoodPage
  <1>12. /\ spent' \subseteq Nat /\ waiting' \in Seq(Tabs)
         /\ discovery' \in {"unknown", "asked", "known", "failed"}
         /\ UNCHANGED <<jar, attempts, granted, visits, tick, due, tickets, history>>
    BY <1>1, <1>3 DEF TypeOK, pacing, flow
  <1> QED BY <1>8, <1>9, <1>11, <1>12, PlainWork
--------------------------------------------------------------------------------
LEMMA CallbackGrows ==
    ASSUME TypeOK, NEW t, NEW n \in DOMAIN attempts, NEW p, NEW cleared,
           Callback(t, n, p, cleared)
    PROVE  /\ Grows /\ granted' \in Seq(Accounts \cup {None})
           /\ Len(granted') = Len(granted) /\ granted'[n] # None
  <1>1. /\ granted \in Seq(Accounts \cup {None}) /\ n \in DOMAIN granted
        /\ UNCHANGED <<attempts, visits>>
    BY DEF TypeOK, Callback, pacing
  <1>2. CASE granted[n] = None
    <2>1. PICK a \in Accounts : granted' = [granted EXCEPT ![n] = a]
      BY <1>2 DEF Callback
    <2>2. /\ granted' \in Seq(Accounts \cup {None}) /\ Len(granted') = Len(granted)
          /\ granted'[n] = a /\ \A m \in DOMAIN granted \ {n} : granted'[m] = granted[m]
      BY <1>1, <2>1
    <2> QED BY <1>1, <1>2, <2>2, KeepAssumption DEF Grows
  <1>3. CASE granted[n] # None
    <2>1. granted' = granted
      BY <1>3 DEF Callback
    <2> QED BY <1>1, <1>3, <2>1 DEF Grows
  <1> QED BY <1>2, <1>3

\* Only a nonce that is in the cookie leads on, and none that is over is there.
LEMMA CallbackKeeps ==
    ASSUME LInv, NEW t \in Tabs, NEW n \in DOMAIN attempts, NEW p \in Providers,
           NEW cleared \in {0, Keep}, Callback(t, n, p, cleared)
    PROVE  LInv'
  <1> DEFINE b == BrowserOf[t]
  <1>1. /\ TypeOK /\ b \in Browsers /\ n \in Nat /\ attempts[n].provider = p
        /\ UNCHANGED <<jar, attempts, spent, discovery, pacing, history>>
    BY BrowserAssumption DEF LInv, TypeOK, Callback
  <1>2. /\ Grows /\ granted' \in Seq(Accounts \cup {None})
        /\ Len(granted') = Len(granted) /\ granted'[n] # None
    BY <1>1, CallbackGrows
  <1>3. StateMatches(t, n) => OwnAttempt(b, n) /\ n \notin over[b]
    BY <1>1 DEF StateMatches, Jar, LInv, JarsGood
  <1>4. PICK pg \in TabTypes : /\ Goto(t, pg) /\ GoodPage(b, pg)'
                              /\ pg.setNonce \in {0, Keep}
    <2> DEFINE s == n \in over[b]
               ex == [Home EXCEPT !.at = "exchange", !.p = p, !.n = n, !.stale = s]
               an == [Home EXCEPT !.at = "answered", !.stale = s, !.setNonce = cleared]
    <2>1. \/ Goto(t, Home)
          \/ StateMatches(t, n) /\ Goto(t, ex)
          \/ StateMatches(t, n) /\ Goto(t, an)
      BY <1>1 DEF Callback, CallbackLeadsTo
    <2>2. CASE Goto(t, Home)
      <3>1. Home \in TabTypes /\ GoodPage(b, Home)' /\ Home.setNonce = Keep
        BY HomeType, PlainPages DEF Home
      <3> QED BY <2>2, <3>1
    <2>3. PICK q : q = ex
      OBVIOUS
    <2>4. PICK r : r = an
      OBVIOUS
    <2>5. s \in BOOLEAN /\ (StateMatches(t, n) => ~s) /\ cleared \in Nat \cup {Keep}
      BY <1>3
    <2> HIDE DEF s
    <2>6. /\ q \in TabTypes /\ q.at = "exchange" /\ q.p = p /\ q.n = n /\ q.stale = s
          /\ q.setNonce = Keep /\ q.setJwt = Keep /\ q.shown = None
      BY <1>1, <2>3, <2>5 DEF Home, TabTypes, InFlight
    <2>7. /\ r \in TabTypes /\ r.at = "answered" /\ r.stale = s
          /\ r.setNonce = cleared /\ r.setJwt = Keep /\ r.shown = None
      BY <2>4, <2>5 DEF Home, TabTypes, InFlight
    <2>8. CASE StateMatches(t, n) /\ Goto(t, ex)
      <3>1. OwnAttempt(b, n)' /\ attempts'[n].provider = p /\ granted'[n] # None
        BY <1>1, <1>2, <1>3, <2>8 DEF OwnAttempt
      <3>2. ~q.stale
        BY <2>5, <2>6, <2>8
      <3>3. GoodPage(b, q)'
        BY <2>6, <3>1, <3>2, KeepAssumption DEF GoodPage
      <3> HIDE DEF ex, an
      <3> QED BY <2>3, <2>6, <2>8, <3>3
    <2>9. CASE StateMatches(t, n) /\ Goto(t, an)
      <3>1. ~r.stale
        BY <2>5, <2>7, <2>9
      <3>2. GoodPage(b, r)'
        BY <2>7, <3>1, KeepAssumption DEF GoodPage
      <3> HIDE DEF ex, an
      <3> QED BY <2>4, <2>7, <2>9, <3>2
    <2> QED BY <2>1, <2>2, <2>8, <2>9
  <1>5. tab' \in [Tabs -> TabTypes]
    BY <1>1, <1>4, GotoType DEF TypeOK
  <1>6. TypeOK'
    BY <1>1, <1>2, <1>5 DEF TypeOK, pacing, history
  <1> QED BY <1>1, <1>2, <1>4, <1>6, WorkKeeps DEF history

LEMMA ExchangeKeeps ==
    ASSUME LInv, NEW t \in Tabs, NEW p \in Providers, NEW cleared \in {0, Keep},
           Exchange(t, p, cleared)
    PROVE  LInv'
  <1>1. /\ TypeOK /\ tab[t].at = "exchange" /\ tab[t].p = p
        /\ UNCHANGED <<jar, attempts, granted, discovery, pacing, history>>
        /\ cleared \in Nat \cup {Keep}
    BY DEF LInv, Exchange, At
  <1>2. PICK q \in TabTypes : q = tab[t]
    BY <1>1 DEF TypeOK
  <1>3. PICK n \in Nat : n = tab[t].n
    BY <1>2 DEF TabTypes
  <1>4. /\ OwnAttempt(BrowserOf[t], n) /\ attempts[n].provider = p /\ granted[n] # None
    BY <1>1, <1>2, <1>3 DEF LInv, PagesGood, GoodPage
  <1>5. PICK a \in Accounts : a = granted[n]
    BY <1>1, <1>4 DEF TypeOK, OwnAttempt
  <1> DEFINE token == IssueToken(<<p, a>>, n)
  <1>6. /\ token \in Tokens /\ token.subject = <<p, a>> /\ token.attempt = n
    BY DEF IssueToken, Tokens, Subjects
  <1>7. PICK jwt \in {token, Keep} : Answer(t, cleared, jwt) /\ spent' \subseteq Nat
    BY <1>1, <1>3, <1>5 DEF Exchange, TypeOK
  <1>8. jwt \in Tokens \cup {None, Keep}
    BY <1>6
  <1>9. jwt \in Tokens => OwnLogin(BrowserOf[t], jwt)'
    <2>1. SUFFICES ASSUME jwt = token PROVE OwnLogin(BrowserOf[t], jwt)'
      BY KeepAssumption
    <2>2. jwt.subject = <<p, a>> /\ jwt.attempt = n /\ p # Visitor
      BY <1>6, <2>1 DEF Providers, Visitor
    <2> HIDE DEF token
    <2>3. /\ jwt.attempt \in DOMAIN attempts' /\ attempts'[jwt.attempt].browser = BrowserOf[t]
          /\ jwt.subject = <<attempts'[jwt.attempt].provider, granted'[jwt.attempt]>>
          /\ jwt.subject[1] # Visitor
      BY <1>1, <1>4, <1>5, <2>2 DEF OwnAttempt
    <2> QED BY <2>3 DEF OwnLogin
  <1> HIDE DEF token
  <1>10. PICK pg \in TabTypes :
             /\ Goto(t, pg) /\ pg.at = "answered" /\ ~pg.stale /\ pg.shown = None
             /\ pg.setNonce = cleared /\ pg.setJwt = jwt
    <2>1. cleared \in Nat \cup {Keep} /\ Answer(t, cleared, jwt)
      BY <1>7
    <2> QED BY <1>8, <2>1, AnswerPage
  <1>11. jwt # None
    BY <1>6, KeepAssumption
  <1>12. GoodPage(BrowserOf[t], pg)'
    BY <1>9, <1>10, <1>11, KeepAssumption DEF GoodPage
  <1>13. /\ waiting' \in Seq(Tabs) /\ discovery' \in {"unknown", "asked", "known", "failed"}
         /\ UNCHANGED <<jar, attempts, granted, visits, tick, due, tickets, history>>
    BY <1>1 DEF TypeOK, pacing
  <1> QED BY <1>7, <1>10, <1>12, <1>13, PlainWork

LEMMA VisitorLoginKeeps == ASSUME LInv, NEW t \in Tabs, VisitorLogin(t) PROVE LInv'
  <1>1. /\ TypeOK /\ BrowserOf[t] \in Browsers /\ tickets > 0 /\ tickets' = tickets - 1
        /\ waiting # <<>> /\ waiting' = Tail(waiting)
        /\ visits' = Append(visits, [browser |-> BrowserOf[t], tick |-> tick])
        /\ UNCHANGED <<jar, flow, tick, due, history>>
        /\ Answer(t, Keep, IssueToken(<<Visitor, Len(visits) + 1>>, 0))
    BY BrowserAssumption DEF LInv, VisitorLogin
  <1>2. PICK v \in Nat : v = Len(visits) + 1
    BY <1>1 DEF TypeOK
  <1> DEFINE V == [browser : Browsers, tick : Nat]
             rec == [browser |-> BrowserOf[t], tick |-> tick]
  <1>3. /\ visits \in Seq(V) /\ rec \in V /\ rec.browser = BrowserOf[t]
        /\ visits' = Append(visits, rec)
    BY <1>1 DEF TypeOK
  <1> HIDE DEF V, rec
  <1>4. /\ visits' \in Seq(V) /\ v \in DOMAIN visits' /\ visits'[v] = rec
        /\ \A i \in DOMAIN visits : i \in DOMAIN visits' /\ visits'[i] = visits[i]
    BY <1>2, <1>3
  <1>5. Grows
    BY <1>1, <1>4 DEF Grows, flow
  <1>6. /\ tickets' \in Nat /\ waiting' \in Seq(Tabs)
    BY <1>1 DEF TypeOK
  <1> DEFINE token == IssueToken(<<Visitor, v>>, 0)
  <1>7. token \in Tokens /\ token.subject = <<Visitor, v>>
    BY DEF IssueToken, Tokens, Subjects
  <1>8. PICK jwt \in Tokens : jwt = token
    BY <1>7
  <1>9. OwnLogin(BrowserOf[t], jwt)'
    <2>1. jwt.subject[1] = Visitor /\ jwt.subject[2] = v
      BY <1>7, <1>8
    <2> HIDE DEF token
    <2> QED BY <1>3, <1>4, <2>1 DEF OwnLogin
  <1>10. PICK pg \in TabTypes :
             /\ Goto(t, pg) /\ pg.at = "answered" /\ ~pg.stale /\ pg.shown = None
             /\ pg.setNonce = Keep /\ pg.setJwt = jwt
    <2>1. PICK setNonce \in Nat \cup {Keep} : setNonce = Keep
      OBVIOUS
    <2>2. Answer(t, setNonce, jwt) /\ jwt \in Tokens \cup {None, Keep}
      BY <1>1, <1>2, <1>8, <2>1
    <2> HIDE DEF token
    <2>3. \E pg \in TabTypes :
             /\ Goto(t, pg) /\ pg.at = "answered" /\ ~pg.stale /\ pg.shown = None
             /\ pg.setNonce = setNonce /\ pg.setJwt = jwt
      BY <2>2, AnswerPage
    <2> QED BY <2>1, <2>3
  <1> HIDE DEF token
  <1>11. GoodPage(BrowserOf[t], pg)'
    BY <1>9, <1>10, KeepAssumption DEF GoodPage
  <1>12. tab' \in [Tabs -> TabTypes]
    BY <1>1, <1>10, GotoType DEF TypeOK
  <1>13. TypeOK'
    BY <1>1, <1>4, <1>6, <1>12 DEF TypeOK, flow, history, V
  <1> QED BY <1>1, <1>5, <1>10, <1>11, <1>13, WorkKeeps DEF history
--------------------------------------------------------------------------------
LEMMA InitLInv == ASSUME Init PROVE LInv
  <1>1. TypeOK
    BY HomeType, BrowserAssumption DEF Init, TypeOK
  <1>2. PagesGood
    BY KeepAssumption DEF Init, PagesGood, GoodPage, Home
  <1>3. NoncesApart
    BY DEF Init, NoncesApart, Home
  <1>4. JarsGood
    BY KeepAssumption DEF Init, JarsGood
  <1> QED BY <1>1, <1>2, <1>3, <1>4 DEF LInv

LEMMA UnchangedKeeps == ASSUME LInv, UNCHANGED vars PROVE LInv'
  <1>1. TypeOK' /\ Grows
    BY DEF vars, flow, pacing, history, LInv, TypeOK, Grows
  <1> QED BY <1>1, OtherKeeps DEF vars, history

LEMMA NextKeeps == ASSUME LInv, [Next]_vars PROVE LInv'
  <1>1. CASE UNCHANGED vars
    BY <1>1, UnchangedKeeps
  <1>2. ASSUME NEW t \in Tabs, Server(t) PROVE LInv'
    <2>1. CASE InitProvider(t)
      BY <2>1, ProviderStepsKeep
    <2>2. CASE Unavailable(t)
      BY <2>2, PlainActionsKeep
    <2>3. CASE OidcStart(t)
      BY <2>3, OidcStartKeeps
    <2>4. CASE GithubExchange(t) \/ GoogleExchange(t) \/ OidcExchange(t)
      <3>1. PICK p \in Providers, cleared \in {0, Keep} : Exchange(t, p, cleared)
        BY <2>4 DEF GithubExchange, GoogleExchange, OidcExchange, Providers
      <3> QED BY <3>1, ExchangeKeeps
    <2>5. CASE VisitorLogin(t)
      BY <2>5, VisitorLoginKeeps
    <2> QED BY <1>2, <2>1, <2>2, <2>3, <2>4, <2>5 DEF Server
  <1>3. ASSUME NEW t \in Tabs, Person(t) PROVE LInv'
    <2>1. CASE GithubStart(t) \/ GoogleStart(t)
      <3>1. PICK p \in Providers : OAuthStart(t, p)
        BY <2>1 DEF GithubStart, GoogleStart, Providers
      <3> QED BY <3>1, OAuthStartKeeps
    <2>2. CASE ClickOidc(t) \/ Decline(t) \/ ClickVisitor(t)
      BY <2>2, PlainActionsKeep
    <2>3. CASE \E n \in DOMAIN attempts :
                 GithubCallback(t, n) \/ GoogleCallback(t, n) \/ OidcCallback(t, n)
      <3>1. PICK n \in DOMAIN attempts, p \in Providers, cleared \in {0, Keep} :
              Callback(t, n, p, cleared)
        BY <2>3 DEF GithubCallback, GoogleCallback, OidcCallback, Providers
      <3> QED BY <3>1, CallbackKeeps
    <2>4. CASE Logout(t)
      BY <2>4, LogoutKeeps
    <2>5. CASE ServeProfile(t)
      BY <2>5, ServeProfileKeeps
    <2>6. CASE HangUp(t)
      BY <2>6, HangUpKeeps
    <2> QED BY <1>3, <2>1, <2>2, <2>3, <2>4, <2>5, <2>6 DEF Person
  <1>4. ASSUME NEW t \in Tabs, Arrive(t) PROVE LInv'
    BY <1>4, ArriveKeeps
  <1>5. CASE ProviderDiscovered \/ Tick \/ ProduceTicket
    BY <1>5, ProviderStepsKeep
  <1> QED BY <1>1, <1>2, <1>3, <1>4, <1>5 DEF Next

LEMMA Invariant == Spec => []LInv
  BY InitLInv, NextKeeps, PTL DEF Spec

\* Tabs, jars, attempts and the pacing of visitors have their types, whatever the
\* browsers do.
THEOREM TypeCorrect == Spec => []TypeOK
  <1>1. LInv => TypeOK
    BY DEF LInv
  <1> QED BY <1>1, Invariant, PTL

\* Whatever callbacks are opened in whatever browser, and in whatever order answers
\* arrive, a browser is only logged in by an attempt or a visit of its own.
THEOREM OwnLogins == Spec => []LoginsAreOwn
  <1>1. ASSUME LInv PROVE LoginsAreOwn
    <2>1. ASSUME NEW b \in Browsers, jar[b].jwt # None PROVE OwnLogin(b, jar[b].jwt)
      <3>1. jar[b].jwt \in Tokens
        BY <1>1, <2>1 DEF LInv, TypeOK
      <3> QED BY <1>1, <3>1 DEF LInv, JarsGood
    <2>2. ASSUME NEW t \in Tabs, tab[t].setJwt \notin {None, Keep}
          PROVE  OwnLogin(BrowserOf[t], tab[t].setJwt)
      <3>1. PICK pg \in TabTypes : pg = tab[t]
        BY <1>1 DEF LInv, TypeOK
      <3>2. GoodPage(BrowserOf[t], pg) /\ pg.setJwt \in Tokens
        BY <1>1, <2>2, <3>1 DEF LInv, PagesGood, TabTypes
      <3> QED BY <3>1, <3>2 DEF GoodPage
    <2> QED BY <2>1, <2>2 DEF LoginsAreOwn
  <1> QED BY <1>1, Invariant, PTL

\* An attempt that a logout, a later attempt or its own end has put an end to never
\* logs anybody in, however many tabs race with one another.
THEOREM OverIsOver == Spec => []OverAttemptsNeverLogIn
  <1>1. ASSUME LInv PROVE OverAttemptsNeverLogIn
    <2>1. ASSUME NEW t \in Tabs PROVE ~tab[t].stale
      <3>1. PICK pg \in TabTypes : pg = tab[t]
        BY <1>1 DEF LInv, TypeOK
      <3> QED BY <1>1, <3>1 DEF LInv, PagesGood, GoodPage
    <2> QED BY <2>1 DEF OverAttemptsNeverLogIn
  <1> QED BY <1>1, Invariant, PTL

\* What the API shows is the session of a login of this browser that was admitted on
\* this request.
THEOREM ShownIsOwn == Spec => []ShownAsLoggedIn
  <1>1. ASSUME LInv PROVE ShownAsLoggedIn
    <2>1. ASSUME NEW t \in Tabs, tab[t].shown # None
          PROVE  OwnSubject(BrowserOf[t], tab[t].shown)
      <3>1. PICK pg \in TabTypes : pg = tab[t]
        BY <1>1 DEF LInv, TypeOK
      <3>2. GoodPage(BrowserOf[t], pg) /\ pg.shown \in Subjects
        BY <1>1, <2>1, <3>1 DEF LInv, PagesGood, TabTypes
      <3> QED BY <3>1, <3>2 DEF GoodPage
    <2> QED BY <2>1 DEF ShownAsLoggedIn, OwnSubject
  <1> QED BY <1>1, Invariant, PTL
--------------------------------------------------------------------------------
\* What the clock has not yet paid for: from visit i on, the visits made, the ticket
\* stored and the tick due number at most one more than the ticks since.
Paid == tick < budget.ticks =>
          \A i \in DOMAIN visits :
            Len(visits) - i + tickets + due <= tick - visits[i].tick + 1

VisitsInOrder == \A i \in DOMAIN visits : visits[i].tick <= tick

PInv == TypeOK /\ tickets <= 1 /\ Paid /\ VisitsInOrder /\ VisitorsArePaced

LEMMA PacingTypes ==
    ASSUME TypeOK
    PROVE  /\ tick \in Nat /\ due \in {0, 1} /\ tickets \in Nat /\ budget.ticks \in Nat
           /\ Len(visits) \in Nat /\ DOMAIN visits = 1..Len(visits)
           /\ \A i \in DOMAIN visits : visits[i].tick \in Nat
  <1>1. budget.ticks \in Nat
    BY BudgetAssumption DEF TypeOK
  <1> DEFINE V == [browser : Browsers, tick : Nat]
  <1>2. visits \in Seq(V)
    BY DEF TypeOK
  <1>3. \A v \in V : v.tick \in Nat
    OBVIOUS
  <1> HIDE DEF V
  <1>4. /\ Len(visits) \in Nat /\ DOMAIN visits = 1..Len(visits)
        /\ \A i \in 1..Len(visits) : visits[i] \in V
    BY <1>2
  <1> QED BY <1>1, <1>3, <1>4 DEF TypeOK

LEMMA TickPaces == ASSUME PInv, TypeOK', Tick PROVE PInv'
  <1>1. /\ tick \in Nat /\ due \in {0, 1} /\ tickets \in Nat /\ budget.ticks \in Nat
        /\ Len(visits) \in Nat /\ DOMAIN visits = 1..Len(visits)
        /\ \A i \in DOMAIN visits : visits[i].tick \in Nat
    BY PacingTypes DEF PInv
  <1>2. /\ UNCHANGED <<visits, tickets, budget>> /\ due' = 1
        /\ tick' = IF tick < budget.ticks THEN tick + 1 ELSE tick
    BY DEF Tick, history
  <1>3. Paid'
    <2>1. SUFFICES ASSUME tick + 1 < budget.ticks, NEW i \in DOMAIN visits
          PROVE  Len(visits) - i + tickets + 1 <= tick + 1 - visits[i].tick + 1
      BY <1>1, <1>2 DEF Paid
    <2>2. Len(visits) - i + tickets + due <= tick - visits[i].tick + 1
      BY <1>1, <2>1 DEF PInv, Paid
    <2> QED BY <1>1, <2>1, <2>2
  <1> QED BY <1>1, <1>2, <1>3 DEF PInv, VisitsInOrder, VisitorsArePaced

LEMMA ProducePaces == ASSUME PInv, TypeOK', ProduceTicket PROVE PInv'
  <1>1. /\ tick \in Nat /\ due \in {0, 1} /\ tickets \in Nat /\ budget.ticks \in Nat
        /\ Len(visits) \in Nat /\ DOMAIN visits = 1..Len(visits)
        /\ \A i \in DOMAIN visits : visits[i].tick \in Nat
    BY PacingTypes DEF PInv
  <1>2. /\ UNCHANGED <<visits, tick, budget>> /\ due = 1 /\ due' = 0
        /\ tickets' = IF tickets < 1 THEN tickets + 1 ELSE tickets
    BY BufferAssumption DEF ProduceTicket, Capacity, history
  <1>3. Paid'
    BY <1>1, <1>2 DEF PInv, Paid
  <1> QED BY <1>1, <1>2, <1>3 DEF PInv, VisitsInOrder, VisitorsArePaced

\* A ticket was paid for by a tick after the visit before the last.
LEMMA VisitPaces ==
    ASSUME PInv, TypeOK', NEW t \in Tabs, VisitorLogin(t)
    PROVE  PInv'
  <1>1. /\ tick \in Nat /\ due \in {0, 1} /\ tickets \in Nat /\ budget.ticks \in Nat
        /\ Len(visits) \in Nat /\ DOMAIN visits = 1..Len(visits)
        /\ \A i \in DOMAIN visits : visits[i].tick \in Nat
    BY PacingTypes DEF PInv
  <1> DEFINE V == [browser : Browsers, tick : Nat]
             rec == [browser |-> BrowserOf[t], tick |-> tick]
  <1>2. /\ UNCHANGED <<due, tick, budget>> /\ tickets > 0 /\ tickets' = tickets - 1
        /\ visits' = Append(visits, rec) /\ visits \in Seq(V) /\ rec \in V /\ rec.tick = tick
    BY BrowserAssumption DEF VisitorLogin, history, PInv, TypeOK
  <1> HIDE DEF V, rec
  <1>3. /\ Len(visits') = Len(visits) + 1 /\ DOMAIN visits' = 1..(Len(visits) + 1)
        /\ \A i \in 1..Len(visits) : visits'[i] = visits[i]
        /\ visits'[Len(visits) + 1].tick = tick
    BY <1>2
  <1>4. tickets = 1 /\ tickets' = 0
    BY <1>1, <1>2 DEF PInv
  <1>5. Paid'
    <2>1. SUFFICES ASSUME tick < budget.ticks, NEW i \in 1..(Len(visits) + 1)
          PROVE  Len(visits) + 1 - i + 0 + due <= tick - visits'[i].tick + 1
      BY <1>2, <1>3, <1>4 DEF Paid
    <2>2. CASE i = Len(visits) + 1
      <3>1. visits'[i].tick = tick
        BY <1>3, <2>2
      <3> QED BY <1>1, <2>2, <3>1
    <2>3. CASE i \in 1..Len(visits)
      <3>1. Len(visits) - i + 1 + due <= tick - visits[i].tick + 1
        BY <1>1, <1>4, <2>1, <2>3 DEF PInv, Paid
      <3> QED BY <1>1, <1>3, <2>3, <3>1
    <2>4. i = Len(visits) + 1 \/ i \in 1..Len(visits)
      BY <1>1
    <2> QED BY <2>2, <2>3, <2>4
  <1>6. VisitsInOrder'
    BY <1>1, <1>2, <1>3 DEF PInv, VisitsInOrder
  <1>7. VisitorsArePaced'
    <2>1. SUFFICES ASSUME NEW i \in 1..(Len(visits) + 1), NEW j \in 1..(Len(visits) + 1),
                          i < j, visits'[j].tick < budget.ticks
          PROVE  visits'[j].tick - visits'[i].tick >= j - i - 1
      BY <1>2, <1>3 DEF VisitorsArePaced
    <2>2. CASE j = Len(visits) + 1
      <3>1. Len(visits) - i + 1 + due <= tick - visits[i].tick + 1
        BY <1>1, <1>3, <1>4, <2>1, <2>2 DEF PInv, Paid
      <3> QED BY <1>1, <1>3, <2>1, <2>2, <3>1
    <2>3. CASE j \in 1..Len(visits)
      <3>1. i \in 1..Len(visits)
        BY <1>1, <2>1, <2>3
      <3>2. visits'[i] = visits[i] /\ visits'[j] = visits[j]
        BY <1>3, <2>3, <3>1
      <3> QED BY <1>1, <2>1, <2>3, <3>1, <3>2 DEF PInv, VisitorsArePaced
    <2> QED BY <1>1, <2>2, <2>3
  <1> QED BY <1>1, <1>4, <1>5, <1>6, <1>7 DEF PInv

\* However many visitors wait, and whatever becomes of ticks and tickets, visitor
\* logins are no denser than the ticker allows.
THEOREM PacedVisitors == Spec => []VisitorsArePaced
  <1>1. ASSUME Init PROVE PInv
    <2>1. TypeOK
      BY <1>1, InitLInv DEF LInv
    <2> QED BY <1>1, <2>1 DEF Init, PInv, Paid, VisitsInOrder, VisitorsArePaced
  <1>2. ASSUME PInv, TypeOK', [Next]_vars PROVE PInv'
    <2>1. CASE UNCHANGED <<tick, due, tickets, visits, budget>>
      BY <1>2, <2>1 DEF PInv, Paid, VisitsInOrder, VisitorsArePaced
    <2>2. CASE Tick
      BY <1>2, <2>2, TickPaces
    <2>3. CASE ProduceTicket
      BY <1>2, <2>3, ProducePaces
    <2>4. ASSUME NEW t \in Tabs, VisitorLogin(t) PROVE PInv'
      BY <1>2, <2>4, VisitPaces
    <2>5. ASSUME NEW t \in Tabs, Server(t), ~VisitorLogin(t)
          PROVE  UNCHANGED <<tick, due, tickets, visits, budget>>
      BY <2>5 DEF Server, InitProvider, Unavailable, OidcStart, GithubExchange,
           GoogleExchange, OidcExchange, Exchange, pacing, history
    <2>6. ASSUME NEW t \in Tabs, Person(t)
          PROVE  UNCHANGED <<tick, due, tickets, visits, budget>>
      BY <2>6 DEF Person, GithubStart, GoogleStart, OAuthStart, ClickOidc, Callback,
           GithubCallback, GoogleCallback, OidcCallback, Decline, ClickVisitor, Logout,
           ServeProfile, HangUp, pacing, history
    <2>7. ASSUME NEW t \in Tabs, Arrive(t)
          PROVE  UNCHANGED <<tick, due, tickets, visits, budget>>
      BY <2>7 DEF Arrive, pacing
    <2>8. CASE UNCHANGED vars \/ ProviderDiscovered
      BY <2>1, <2>8 DEF vars, ProviderDiscovered, pacing, history
    <2> QED BY <1>2, <2>1, <2>2, <2>3, <2>4, <2>5, <2>6, <2>7, <2>8 DEF Next
  <1>3. PInv => VisitorsArePaced
    BY DEF PInv
  <1> QED BY <1>1, <1>2, <1>3, TypeCorrect, PTL DEF Spec
================================================================================
