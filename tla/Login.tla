--------------------------------- MODULE Login ---------------------------------
(***************************************************************************)
(* How a browser logs in and out (pkg/api/login, pkg/api/logout, pkg/auth, *)
(* pkg/session): the authorization-code flows of Github, Google and a      *)
(* generic OIDC provider, the paced visitor login, and the JWT middleware  *)
(* in front of every other path.                                           *)
(*                                                                         *)
(* The tabs of one browser share one cookie jar, which has one nonce       *)
(* cookie for all providers and one jwt cookie.  A request carries the     *)
(* cookies of the moment it is sent, and what its response sets takes      *)
(* effect when the response arrives: between the two, any other tab may    *)
(* act.  A handler that reads nothing but its request is one step with the *)
(* sending of the request.  The identity providers are external: one       *)
(* issues a code for the account a person chose and honours it once.       *)
(*                                                                         *)
(* A nonce is named by its number, and names the login attempt it was      *)
(* issued for.  Signatures hold; that a nonce or a token has expired is a  *)
(* choice at the check that would notice.                                  *)
(***************************************************************************)
EXTENDS Integers, SequencesExt

CONSTANTS
    Browsers,
    Tabs,
    BrowserOf,     \* [Tabs -> Browsers]
    Accounts,      \* the people the identity providers know
    Relative,      \* the providers configured with a relative redirect URL
    Blacklist,     \* subjects barred from the API
    RejectVisitor, \* --reject-visitor
    TicketBuffer,  \* capacity of the channel of visitor tickets
    None,          \* no cookie, no account, no subject
    Keep,          \* a response that leaves a cookie alone
    Budgets        \* bound: how many logins of each kind are tried and from which
                   \* tabs, the tabs that are open, how many ticks are told apart

Providers == {"github", "google", "oidc"}
Visitor == "visitor"

ASSUME BrowserAssumption == BrowserOf \in [Tabs -> Browsers]
ASSUME RelativeAssumption == Relative \subseteq Providers
ASSUME BudgetAssumption ==
    Budgets \subseteq [nonces : Nat, visits : Nat, ticks : Nat,
                  tabs : SUBSET Tabs, from : SUBSET Tabs]
ASSUME BufferAssumption == TicketBuffer = 1

VARIABLES
    jar,        \* browser -> its nonce cookie (0: none) and its jwt cookie
    tab,        \* tab -> the page it shows or the request it waits for
    attempts,   \* nonce -> the provider and the browser it was issued for
    granted,    \* nonce -> the account a code was issued for, or None
    spent,      \* the nonces whose code the provider has honoured
    discovery   \* providerInit of the OIDC handler and its outcome

flow == <<attempts, granted, spent, discovery>>

VARIABLES
    tick,       \* ticks of the ticker so far
    due,        \* ticks in the ticker's channel (0 or 1)
    tickets,    \* tickets in ticksProducer
    waiting,    \* visitors in GetTicket, in the order the channel serves them
    visits      \* visitor logins: the browser, and the tick it got its ticket at

pacing == <<tick, due, tickets, waiting, visits>>

\* History: the nonces that have reached a browser, and those of them that a later
\* attempt, the end of the attempt or a logout has put an end to.
VARIABLES reached, over

\* The bound of this behaviour: one of Budgets, for ever.
VARIABLE budget

history == <<reached, over, budget>>
vars == <<jar, tab, flow, pacing, history>>

Subjects == (Providers \X Accounts) \cup ({Visitor} \X Nat)
Tokens == [subject : Subjects, attempt : Nat]

ASSUME KeepAssumption == /\ Keep \notin Nat \cup Tokens \cup {None}
                         /\ None \notin Accounts \cup Subjects \cup Tokens

\* A tab: at its page, in a handler (start, exchange, ticket), at the provider, or
\* waiting for a response that is on its way; n is the nonce in its address.
Home == [at |-> "home", p |-> None, n |-> 0, stale |-> FALSE,
         next |-> "home", setNonce |-> Keep, setJwt |-> Keep, shown |-> None]

InFlight == {"start", "exchange", "ticket", "answered"}

TabTypes ==
    [at : InFlight \cup {"home", "idp"}, p : Providers \cup {None}, n : Nat,
     stale : BOOLEAN, next : {"home", "idp"}, setNonce : Nat \cup {Keep},
     setJwt : Tokens \cup {None, Keep}, shown : Subjects \cup {None}]

TypeOK ==
    /\ jar \in [Browsers -> [nonce : Nat, jwt : Tokens \cup {None}]]
    /\ tab \in [Tabs -> TabTypes]
    /\ attempts \in Seq([provider : Providers, browser : Browsers])
    /\ granted \in Seq(Accounts \cup {None}) /\ Len(granted) = Len(attempts)
    /\ spent \subseteq Nat
    /\ discovery \in {"unknown", "asked", "known", "failed"}
    /\ tick \in Nat /\ due \in {0, 1} /\ tickets \in Nat
    /\ waiting \in Seq(Tabs)
    /\ visits \in Seq([browser : Browsers, tick : Nat])
    /\ reached \in [Browsers -> SUBSET Nat] /\ over \in [Browsers -> SUBSET Nat]
    /\ budget \in Budgets

Init ==
    /\ jar = [b \in Browsers |-> [nonce |-> 0, jwt |-> None]]
    /\ tab = [t \in Tabs |-> Home]
    /\ attempts = <<>> /\ granted = <<>> /\ spent = {} /\ discovery = "unknown"
    /\ tick = 0 /\ due = 0 /\ tickets = 0 /\ waiting = <<>> /\ visits = <<>>
    /\ reached = [b \in Browsers |-> {}] /\ over = [b \in Browsers |-> {}]
    /\ budget \in Budgets
--------------------------------------------------------------------------------
AtHome(t) == tab[t].at = "home" /\ t \in budget.tabs
MayLogIn(t) == AtHome(t) /\ t \in budget.from
Goto(t, page) == tab' = [tab EXCEPT ![t] = page]
At(t, stage) == tab[t].at = stage
Jar(t) == jar[BrowserOf[t]]

\* An answer on its way to the tab: where it leads and the cookies it sets.
Answer(t, setNonce, setJwt) ==
    Goto(t, [Home EXCEPT !.at = "answered", !.stale = tab[t].stale,
                         !.setNonce = setNonce, !.setJwt = setJwt])

\* A response arrives: its Set-Cookie lines, then the page it leads to.  A logout, or
\* a nonce that replaces or clears another, ends every attempt begun before.
Arrive(t) ==
    LET b == BrowserOf[t] r == tab[t] IN
    /\ At(t, "answered")
    /\ jar' = [jar EXCEPT
         ![b].nonce = IF r.setNonce = Keep THEN @ ELSE r.setNonce,
         ![b].jwt = IF r.setJwt = Keep THEN @ ELSE r.setJwt]
    /\ Goto(t, IF r.next = "idp" THEN [Home EXCEPT !.at = "idp", !.n = r.n] ELSE Home)
    /\ over' = IF r.setNonce = Keep /\ r.setJwt # None
               THEN over ELSE [over EXCEPT ![b] = reached[b]]
    /\ reached' = IF r.setNonce \in {Keep, 0} THEN reached
                  ELSE [reached EXCEPT ![b] = @ \cup {r.setNonce}]
    /\ UNCHANGED <<flow, pacing, budget>>

\* ctx.Done in GetTicket: the visitor leaves the queue, where it stands once at most.
WithoutVisitor(t) ==
    LET places == {i \in DOMAIN waiting : waiting[i] = t}
    IN  IF places = {} THEN waiting ELSE RemoveAt(waiting, CHOOSE i \in places : TRUE)

\* The tab is closed or navigates away: the response and its cookies are lost.  The
\* server's request ends with it, though a code may just have been spent.
HangUp(t) ==
    /\ ~At(t, "home")
    /\ Goto(t, Home)
    /\ waiting' = WithoutVisitor(t)
    /\ \/ UNCHANGED spent
       \/ At(t, "exchange") /\ spent' = spent \cup {tab[t].n}
    /\ UNCHANGED <<jar, attempts, granted, discovery, tick, due, tickets, visits,
                   history>>
--------------------------------------------------------------------------------
(***************************************************************************)
(* GET .../start: a nonce in a cookie and in the address of the provider.  *)
(***************************************************************************)
\* A relative redirect URL is resolved only against an allowed origin.
RedirectAllowed(p, allowed) == p \in Relative => allowed

FreshNonce == Len(attempts) + 1

\* Bookkeeping that forgets the person's side of the attempt.
IssueNonceOnly(t, p) ==
    /\ Len(attempts) < budget.nonces
    /\ attempts' = Append(attempts, [provider |-> p, browser |-> BrowserOf[t]])
    /\ UNCHANGED granted

IssueNonce(t, p) ==
    /\ Len(attempts) < budget.nonces
    /\ attempts' = Append(attempts, [provider |-> p, browser |-> BrowserOf[t]])
    /\ granted' = Append(granted, None)

Redirect(t) ==
    Goto(t, [Home EXCEPT !.at = "answered", !.next = "idp", !.n = FreshNonce,
                         !.setNonce = FreshNonce])

\* Github and Google set the cookie before they look at the origin.
OAuthStart(t, p) ==
    /\ MayLogIn(t)
    /\ IssueNonce(t, p)
    /\ \E allowed \in BOOLEAN :
         IF RedirectAllowed(p, allowed) THEN Redirect(t)
                                        ELSE Answer(t, FreshNonce, Keep)
    /\ UNCHANGED <<jar, spent, discovery, pacing, history>>

GithubStart(t) == OAuthStart(t, "github")
GoogleStart(t) == OAuthStart(t, "google")

(***************************************************************************)
(* The OIDC handler discovers its provider in a sync.Once, on behalf of    *)
(* the request that comes first; the others wait.  A failure is final.     *)
(***************************************************************************)
ClickOidc(t) ==
    /\ MayLogIn(t) /\ Len(attempts) < budget.nonces
    /\ Goto(t, [Home EXCEPT !.at = "start", !.p = "oidc"])
    /\ UNCHANGED <<jar, flow, pacing, history>>

InitProvider(t) ==
    /\ At(t, "start") /\ discovery = "unknown"
    /\ discovery' = "asked"
    /\ UNCHANGED <<jar, tab, attempts, granted, spent, pacing, history>>

ProviderDiscovered ==
    /\ discovery = "asked"
    /\ discovery' \in {"known", "failed"}
    /\ UNCHANGED <<jar, tab, attempts, granted, spent, pacing, history>>

\* A handler that waited for a provider instead of reporting initErr.
WaitsForProvider(t) == At(t, "start") /\ discovery = "failed" /\ UNCHANGED vars

Unavailable(t) ==
    /\ At(t, "start") /\ discovery = "failed"
    /\ Goto(t, Home)
    /\ UNCHANGED <<jar, flow, pacing, history>>

ProviderReady == discovery = "known"

\* Nothing is issued, nor set, before the origin has been looked at.
OidcStart(t) ==
    /\ At(t, "start") /\ ProviderReady
    /\ \/ IssueNonce(t, "oidc") /\ Redirect(t)
       \/ /\ "oidc" \in Relative \/ Len(attempts) = budget.nonces
          /\ Goto(t, Home) /\ UNCHANGED <<attempts, granted>>
    /\ UNCHANGED <<jar, spent, discovery, pacing, history>>
--------------------------------------------------------------------------------
(***************************************************************************)
(* GET .../auth: the state must be the nonce in the cookie, and valid.     *)
(***************************************************************************)
\* The callback's address: a code for nonce n, on the way back from the provider or
\* loaded again later (reloaded, restored, or opened in another browser).
CallbackSent(t, n) == \/ At(t, "idp") /\ tab[t].n = n
                      \/ AtHome(t) /\ granted[n] # None

StateIsANonce(t, n) == n # 0
StateMatches(t, n) == Jar(t).nonce # 0 /\ Jar(t).nonce = n

\* A nonce is a signed statement of when it expires, and remains valid until then.
ValidateNonce == BOOLEAN

\* Where a callback with a code gets to: refused for its state; refused for its
\* origin, when the nonce has been cleared if this provider's handler clears it; or
\* on to the exchange.
CallbackLeadsTo(t, n, cleared) ==
    LET stale == n \in over[BrowserOf[t]] p == attempts[n].provider IN
    \E valid \in ValidateNonce, allowed \in BOOLEAN :
      IF ~(StateMatches(t, n) /\ valid) THEN Goto(t, Home)
      ELSE IF RedirectAllowed(p, allowed)
      THEN Goto(t, [Home EXCEPT !.at = "exchange", !.p = p, !.n = n, !.stale = stale])
      ELSE Goto(t, [Home EXCEPT !.at = "answered", !.stale = stale,
                                !.setNonce = cleared])

Callback(t, n, p, cleared) ==
    /\ attempts[n].provider = p
    /\ CallbackSent(t, n)
    /\ IF granted[n] = None
       THEN \E a \in Accounts : granted' = [granted EXCEPT ![n] = a]
       ELSE UNCHANGED granted
    /\ CallbackLeadsTo(t, n, cleared)
    /\ UNCHANGED <<jar, attempts, spent, discovery, pacing, history>>

GithubCallback(t, n) == Callback(t, n, "github", Keep)
GoogleCallback(t, n) == Callback(t, n, "google", 0)
OidcCallback(t, n) == ProviderReady /\ Callback(t, n, "oidc", 0)

\* The person declines: the callback carries an error and gets a 400.
Decline(t) ==
    /\ At(t, "idp")
    /\ Goto(t, Home)
    /\ UNCHANGED <<jar, flow, pacing, history>>

(***************************************************************************)
(* The code is exchanged for the account it was issued for, and the        *)
(* session starts: unless the exchange, the profile or a claim fails.      *)
(***************************************************************************)
IssueToken(subject, n) == [subject |-> subject, attempt |-> n]

Exchange(t, p, cleared) ==
    LET n == tab[t].n IN
    /\ At(t, "exchange") /\ tab[t].p = p
    /\ \/ /\ n \notin spent
          /\ spent' = spent \cup {n}
          /\ Answer(t, cleared, IssueToken(<<p, granted[n]>>, n))
       \/ /\ spent' \in {spent, spent \cup {n}}
          /\ Answer(t, cleared, Keep)
    /\ UNCHANGED <<jar, attempts, granted, discovery, pacing, history>>

GithubExchange(t) == Exchange(t, "github", Keep)
GoogleExchange(t) == Exchange(t, "google", 0)
OidcExchange(t) == Exchange(t, "oidc", 0)
--------------------------------------------------------------------------------
(***************************************************************************)
(* Visitors: a ticker, a goroutine that turns a tick into a ticket unless  *)
(* one is already lying there, and the login that waits for a ticket.      *)
(***************************************************************************)
Tick ==
    /\ budget.ticks > 0
    /\ due' = 1
    /\ tick' = IF tick < budget.ticks THEN tick + 1 ELSE tick
    /\ UNCHANGED <<jar, tab, flow, tickets, waiting, visits, history>>

TwiceTheCapacity == 2 * TicketBuffer
Capacity == TicketBuffer

ProduceTicket ==
    /\ due = 1
    /\ due' = 0
    /\ tickets' = IF tickets < Capacity THEN tickets + 1 ELSE tickets
    /\ UNCHANGED <<jar, tab, flow, tick, waiting, visits, history>>

ClickVisitor(t) ==
    /\ MayLogIn(t) /\ Len(visits) + Len(waiting) < budget.visits
    /\ Goto(t, [Home EXCEPT !.at = "ticket"])
    /\ waiting' = Append(waiting, t)
    /\ UNCHANGED <<jar, flow, tick, due, tickets, visits, history>>

VisitorLogin(t) ==
    /\ waiting # <<>> /\ t = Head(waiting) /\ tickets > 0
    /\ tickets' = tickets - 1
    /\ waiting' = Tail(waiting)
    /\ visits' = Append(visits, [browser |-> BrowserOf[t], tick |-> tick])
    /\ Answer(t, Keep, IssueToken(<<Visitor, Len(visits) + 1>>, 0))
    /\ UNCHANGED <<jar, flow, tick, due, history>>
--------------------------------------------------------------------------------
(***************************************************************************)
(* Logout, and every other path: the JWT middleware and the session.       *)
(***************************************************************************)
WhiteList == {"/api/login", "/api/login/", "/api/logout"}

NotChecked(subject) == FALSE
CheckBlackList(subject) == subject \in Blacklist

Admitted(subject) == /\ ~CheckBlackList(subject)
                     /\ RejectVisitor => subject[1] # Visitor

TokenOf(t) == Jar(t).jwt

\* A request that is not on the whitelist needs a token that is admitted.
PassesMiddleware(t, path) ==
    \/ path \in WhiteList
    \/ TokenOf(t) # None /\ Admitted(TokenOf(t).subject)

LogoutOfSessionOnly(t) == Answer(t, Keep, None)
LogoutAnswer(t) == Answer(t, 0, None)

Logout(t) ==
    /\ AtHome(t) /\ PassesMiddleware(t, "/api/logout")
    /\ LogoutAnswer(t)
    /\ UNCHANGED <<jar, flow, pacing, history>>

\* The handler behind the middleware runs in the session of the token the request
\* carried, here GET /api/profile; a token that is refused or has expired gets a 401.
SessionOf(t) == TokenOf(t).subject

ServeProfile(t) ==
    /\ AtHome(t) /\ PassesMiddleware(t, "/api/profile")
    /\ Goto(t, [Home EXCEPT !.at = "answered", !.shown = SessionOf(t)])
    /\ UNCHANGED <<jar, flow, pacing, history>>
--------------------------------------------------------------------------------
Server(t) ==
    \/ InitProvider(t) \/ Unavailable(t) \/ OidcStart(t)
    \/ GithubExchange(t) \/ GoogleExchange(t) \/ OidcExchange(t)
    \/ VisitorLogin(t)

\* Requests a person makes.
Person(t) ==
    \/ GithubStart(t) \/ GoogleStart(t) \/ ClickOidc(t)
    \/ \E n \in DOMAIN attempts :
         GithubCallback(t, n) \/ GoogleCallback(t, n) \/ OidcCallback(t, n)
    \/ Decline(t) \/ ClickVisitor(t) \/ Logout(t) \/ ServeProfile(t) \/ HangUp(t)

Next == \/ \E t \in Tabs : Server(t) \/ Person(t) \/ Arrive(t)
        \/ ProviderDiscovered \/ Tick \/ ProduceTicket

\* A request is handled, its answer arrives, and the ticker ticks; the identity
\* provider answers, or its connection breaks.
Fairness == /\ \A t \in Tabs : WF_vars(Server(t) \/ Arrive(t))
            /\ WF_vars(ProviderDiscovered) /\ WF_vars(Tick) /\ WF_vars(ProduceTicket)

Spec == Init /\ [][Next]_vars
FairSpec == Spec /\ Fairness
--------------------------------------------------------------------------------
(***************************************************************************)
(* Properties.                                                             *)
(***************************************************************************)
\* The token is the outcome of a login that began in browser b, for the account a
\* person chose there.
OwnLogin(b, token) ==
    IF token.subject[1] = Visitor
    THEN /\ token.subject[2] \in DOMAIN visits
         /\ visits[token.subject[2]].browser = b
    ELSE /\ token.attempt \in DOMAIN attempts
         /\ attempts[token.attempt].browser = b
         /\ token.subject =
              <<attempts[token.attempt].provider, granted[token.attempt]>>

\* A browser is only ever logged in by an attempt of its own (any of its tabs), as
\* the account that was authorized in it: a callback opened elsewhere logs nobody in.
LoginsAreOwn ==
    /\ \A b \in Browsers : jar[b].jwt # None => OwnLogin(b, jar[b].jwt)
    /\ \A t \in Tabs : tab[t].setJwt \notin {None, Keep} =>
                         OwnLogin(BrowserOf[t], tab[t].setJwt)

\* Once a logout, a later attempt or the end of the attempt has reached the browser,
\* a callback sent for the attempt gets no session: no tab logs the browser in again
\* behind the person's back.
OverAttemptsNeverLogIn ==
    \A t \in Tabs : tab[t].stale => /\ tab[t].at # "exchange"
                                    /\ tab[t].setJwt = Keep

\* "To slow down the visitor's registration": however many visitors wait and however
\* late the goroutine runs, m + 1 visitors in a row take at least m - 1 ticks.
VisitorsArePaced ==
    \A i, j \in DOMAIN visits : i < j /\ visits[j].tick < budget.ticks =>
      visits[j].tick - visits[i].tick >= j - i - 1

\* What the API sends to a tab belongs to a login of the tab's browser that is not
\* barred, whichever token the jar holds by now.
ShownAsLoggedIn ==
    \A t \in Tabs : LET s == tab[t].shown IN s # None =>
      /\ s \notin Blacklist /\ (RejectVisitor => s[1] # Visitor)
      /\ IF s[1] = Visitor
         THEN visits[s[2]].browser = BrowserOf[t]
         ELSE \E n \in DOMAIN attempts : /\ s = <<attempts[n].provider, granted[n]>>
                                         /\ attempts[n].browser = BrowserOf[t]

\* Every request is answered, though visitors wait for one another and OIDC logins
\* wait for a discovery another request began.
EveryRequestAnswered ==
    \A t \in Tabs : tab[t].at \in InFlight ~> tab[t].at \notin InFlight
================================================================================
