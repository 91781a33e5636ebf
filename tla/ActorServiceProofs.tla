--------------------------- MODULE ActorServiceProofs ---------------------------
(***************************************************************************)
(* An actor gives its callers at-most-once service, for any set of calls.  *)
(*                                                                         *)
(* The inductive invariant says what each place a call can be in tells     *)
(* about its command: a call that is still at dispatch, or was refused     *)
(* there, has a command that nobody runs or ran; a response is in the      *)
(* buffer only of a call whose command ran.                                *)
(***************************************************************************)
EXTENDS ActorService, TLAPS

\* A call has an outcome exactly when it has returned.
OutcomeOnReturn ==
    \A c \in Calls : call[c] = "returned" <=> outcome[c] # "none"

\* The actor took a command from its caller, who then waited or gave up waiting.
Taken(c) == call[c] = "waiting" \/ outcome[c] \in {"result", "ctxErr"}

\* A command runs only if it was taken, and is not run again.
OnlyTakenRun ==
    /\ \A c \in Range(applied) : Taken(c)
    /\ cmd # NoCall => Taken(cmd) /\ cmd \notin Range(applied)

\* A response stands for a command that ran.
ResponsesAreEarned ==
    /\ response \subseteq Range(applied)
    /\ \A c \in Calls : outcome[c] = "result" => c \in Range(applied)

IInv == TypeOK /\ OutcomeOnReturn /\ OnlyTakenRun /\ ResponsesAreEarned
-------------------------------------------------------------------------------
\* Running one more command adds it to the history and changes nothing else.
LEMMA RangeOfAppend ==
    ASSUME NEW S, NEW s \in Seq(S), NEW x \in S
    PROVE  /\ Append(s, x) \in Seq(S)
           /\ Range(Append(s, x)) = Range(s) \cup {x}
  <1>1. /\ Append(s, x) \in Seq(S)
        /\ DOMAIN Append(s, x) = DOMAIN s \cup {Len(s) + 1}
        /\ Append(s, x)[Len(s) + 1] = x
        /\ \A i \in DOMAIN s : Append(s, x)[i] = s[i]
    OBVIOUS
  <1> QED BY <1>1 DEF Range

LEMMA InitInv == Init => IInv
  <1> SUFFICES ASSUME Init PROVE IInv
    OBVIOUS
  <1>1. TypeOK
    <2>1. done \in BOOLEAN /\ runEnded \in BOOLEAN
      BY Zenon DEF Init
    <2>2. actor = "running" <=> cmd # NoCall
      BY DEF Init
    <2> QED BY <2>1, <2>2 DEF Init, TypeOK, CallStates, Outcomes
  <1>2. Range(applied) = {}
    BY DEF Init, Range
  <1> QED BY <1>1, <1>2 DEF Init, IInv, OutcomeOnReturn, OnlyTakenRun, ResponsesAreEarned

\* What every step of a caller leaves alone.
LEMMA ReturnInv ==
    ASSUME IInv, NEW c \in Calls, NEW o \in Outcomes \ {"none"}, Return(c, o),
           call[c] \in {"dispatching", "waiting"},
           o = "errShuttingDown" => call[c] = "dispatching",
           o = "result" => c \in Range(applied),
           o = "ctxErr" \/ o = "result" \/ ~Taken(c)
    PROVE  IInv'
  <1>1. /\ call' = [call EXCEPT ![c] = "returned"]
        /\ outcome' = [outcome EXCEPT ![c] = o]
        /\ UNCHANGED <<cancelled, actor, cmd, response, applied, done, runEnded>>
    BY DEF Return, actorVars
  <1>2. TypeOK'
    BY <1>1 DEF IInv, TypeOK, CallStates
  <1>3. OutcomeOnReturn'
    BY <1>1 DEF IInv, TypeOK, OutcomeOnReturn
  <1>4. OnlyTakenRun'
    <2>1. \A x \in Calls : Taken(x) => Taken(x)'
      BY <1>1 DEF IInv, TypeOK, Taken, Outcomes
    <2>2. Range(applied) \subseteq Calls
      BY DEF IInv, TypeOK, Range
    <2> QED BY <1>1, <2>1, <2>2 DEF IInv, TypeOK, OnlyTakenRun
  <1>5. ResponsesAreEarned'
    BY <1>1 DEF IInv, TypeOK, ResponsesAreEarned
  <1> QED BY <1>2, <1>3, <1>4, <1>5 DEF IInv

LEMMA CallerInv ==
    ASSUME IInv, NEW c \in Calls,
           \/ Refused(c) \/ GiveUpDispatching(c) \/ Receive(c) \/ GiveUpWaiting(c)
    PROVE  IInv'
  <1>1. CASE Refused(c)
    <2>1. ~Taken(c)
      BY <1>1 DEF Refused, Taken, IInv, OutcomeOnReturn
    <2> QED BY <1>1, <2>1, ReturnInv DEF Refused, Outcomes
  <1>2. CASE GiveUpDispatching(c)
    BY <1>2, ReturnInv DEF GiveUpDispatching, Outcomes
  <1>3. CASE Receive(c)
    BY <1>3, ReturnInv DEF Receive, ResponseReady, Outcomes, IInv, ResponsesAreEarned
  <1>4. CASE GiveUpWaiting(c)
    BY <1>4, ReturnInv DEF GiveUpWaiting, Outcomes
  <1> QED BY <1>1, <1>2, <1>3, <1>4

LEMMA BeginInv ==
    ASSUME IInv, NEW c \in Calls, Begin(c)
    PROVE  IInv'
  <1>1. /\ call[c] = "idle" /\ call' = [call EXCEPT ![c] = "dispatching"]
        /\ UNCHANGED <<outcome, cancelled, actor, cmd, response, applied, done, runEnded>>
    BY DEF Begin, actorVars
  <1>2. \A x \in Calls : Taken(x) => Taken(x)'
    BY <1>1 DEF IInv, TypeOK, Taken
  <1>3. Range(applied) \subseteq Calls
    BY DEF IInv, TypeOK, Range
  <1> QED BY <1>1, <1>2, <1>3 DEF IInv, TypeOK, OutcomeOnReturn, OnlyTakenRun,
            ResponsesAreEarned, CallStates

LEMMA DeliverInv ==
    ASSUME IInv, NEW c \in Calls, Deliver(c)
    PROVE  IInv'
  <1>1. /\ call[c] = "dispatching" /\ call' = [call EXCEPT ![c] = "waiting"]
        /\ actor = "selecting" /\ actor' = "running" /\ cmd' = c
        /\ UNCHANGED <<outcome, cancelled, response, applied, done, runEnded>>
    BY DEF Deliver, AtSelect
  <1>2. ~Taken(c)
    BY <1>1 DEF Taken, IInv, OutcomeOnReturn
  <1>3. \A x \in Calls : Taken(x) => Taken(x)'
    BY <1>1 DEF IInv, TypeOK, Taken
  <1>4. Range(applied) \subseteq Calls
    BY DEF IInv, TypeOK, Range
  <1>5. TypeOK'
    BY <1>1, CallsAssumption DEF IInv, TypeOK, CallStates
  <1>6. OnlyTakenRun'
    <2>1. Taken(c)' /\ c \notin Range(applied)
      BY <1>1, <1>2 DEF Taken, IInv, TypeOK, OnlyTakenRun
    <2> QED BY <1>1, <1>3, <1>4, <2>1 DEF IInv, OnlyTakenRun
  <1> QED BY <1>1, <1>5, <1>6 DEF IInv, TypeOK, OutcomeOnReturn, ResponsesAreEarned

LEMMA FinishInv ==
    ASSUME IInv, Finish
    PROVE  IInv'
  <1>1. /\ cmd \in Calls /\ actor = "running"
        /\ applied' = Append(applied, cmd) /\ response' = response \cup {cmd}
        /\ actor' = "selecting" /\ cmd' = NoCall
        /\ UNCHANGED <<call, outcome, cancelled, done, runEnded>>
    BY DEF Finish, Respond, callVars, IInv, TypeOK
  <1>2. applied' \in Seq(Calls) /\ Range(applied') = Range(applied) \cup {cmd}
    BY <1>1, RangeOfAppend DEF IInv, TypeOK
  <1>3. \A x : Taken(x)' <=> Taken(x)
    BY <1>1 DEF Taken
  <1> QED BY <1>1, <1>2, <1>3, CallsAssumption DEF IInv, TypeOK, OutcomeOnReturn,
            OnlyTakenRun, ResponsesAreEarned

\* What happens to the actor and around it without touching a call.
LEMMA SurroundingsInv ==
    ASSUME IInv, \/ RunReturns \/ Shutdown \/ EndRunContext \/ UNCHANGED vars
                 \/ \E c \in Calls : Cancel(c)
    PROVE  IInv'
  <1>1. /\ UNCHANGED <<call, outcome, cmd, response, applied>>
        /\ cancelled' \subseteq Calls /\ done' \in BOOLEAN /\ runEnded' \in BOOLEAN
        /\ actor' = actor \/ (actor = "selecting" /\ actor' = "stopped")
    BY DEF RunReturns, AtSelect, Shutdown, EndRunContext, Cancel, vars, callVars,
           actorVars, IInv, TypeOK
  <1>2. TypeOK'
    BY <1>1 DEF IInv, TypeOK
  <1>3. \A x : Taken(x)' <=> Taken(x)
    BY <1>1 DEF Taken
  <1> QED BY <1>1, <1>2, <1>3 DEF IInv, OutcomeOnReturn, OnlyTakenRun, ResponsesAreEarned

LEMMA NextInv == IInv /\ [Next]_vars => IInv'
  <1> SUFFICES ASSUME IInv, [Next]_vars PROVE IInv'
    OBVIOUS
  <1>1. ASSUME NEW c \in Calls, Dispatch(c) \/ Await(c) PROVE IInv'
    BY <1>1, CallerInv, DeliverInv DEF Dispatch, Await
  <1>2. ASSUME NEW c \in Calls, Begin(c) \/ Cancel(c) PROVE IInv'
    BY <1>2, BeginInv, SurroundingsInv
  <1>3. CASE FinishAlone \/ FinishMailing
    BY <1>3, FinishInv DEF FinishAlone, FinishMailing
  <1>4. CASE RunReturns \/ Shutdown \/ EndRunContext \/ UNCHANGED vars
    BY <1>4, SurroundingsInv
  <1> QED BY <1>1, <1>2, <1>3, <1>4 DEF Next

LEMMA Invariance == Spec => []IInv
  BY InitInv, NextInv, PTL DEF Spec

\* The state has its types in every behaviour, fair or not.
THEOREM TypeCorrect == Spec => []TypeOK
  <1>1. IInv => TypeOK
    BY DEF IInv
  <1> QED BY <1>1, Invariance, PTL
-------------------------------------------------------------------------------
(***************************************************************************)
(* Refinement: Begin is Invoke, Finish is Apply, each return is Answer, and *)
(* every other step is a stutter.                                          *)
(***************************************************************************)
LEMMA RefinesInit == Init => Once!Init
  BY DEF Init, Once!Init, Seen

\* A step in which no call is seen to change, and no command runs.
LEMMA Stutters ==
    ASSUME applied' = applied, \A c \in Calls : Seen(c)' = Seen(c)
    PROVE  UNCHANGED Once!vars
  BY DEF Once!vars

\* A caller's return is an answer the abstract service may give.
LEMMA ReturnAnswers ==
    ASSUME IInv, NEW c \in Calls, NEW o \in Outcomes \ {"none"}, Return(c, o),
           call[c] \in {"dispatching", "waiting"},
           o = "result" => c \in Range(applied),
           o = "errShuttingDown" => c \notin Range(applied)
    PROVE  Once!Next
  <1> DEFINE a == IF o = "result" THEN "result"
                  ELSE IF o = "errShuttingDown" THEN "refused" ELSE "unknown"
             seen == [x \in Calls |-> Seen(x)]
  <1>1. /\ call' = [call EXCEPT ![c] = "returned"]
        /\ outcome' = [outcome EXCEPT ![c] = o]
        /\ applied' = applied
    BY DEF Return, actorVars
  <1>2. Seen(c) = "pending" /\ seen[c] = Seen(c)
    <2>1. Seen(c) = "pending"
      BY DEF Seen, IInv, OutcomeOnReturn
    <2> QED BY <2>1
  <1>3. Seen(c)' = a
    BY <1>1 DEF Seen, IInv, TypeOK, Outcomes
  <1>4. \A x \in Calls \ {c} : Seen(x)' = Seen(x)
    BY <1>1 DEF Seen, IInv, TypeOK
  <1>5. seen' = [seen EXCEPT ![c] = a]
    BY <1>3, <1>4
  <1>6. Once!Answer(c, a)
    <2>1. seen[c] = "pending" /\ (a = "result" => c \in Once!Range(applied))
                              /\ (a = "refused" => c \notin Once!Range(applied))
      BY <1>2 DEF Range, Once!Range
    <2> QED BY <1>1, <1>5, <2>1 DEF Once!Answer
  <1> QED BY <1>6 DEF Once!Next, Once!Answers

LEMMA CallerRefines ==
    ASSUME IInv, NEW c \in Calls,
           \/ Refused(c) \/ GiveUpDispatching(c) \/ Receive(c) \/ GiveUpWaiting(c)
    PROVE  Once!Next
  <1>1. CASE Refused(c)
    <2>1. ~Taken(c) /\ c \notin Range(applied)
      BY <1>1 DEF Refused, Taken, IInv, OutcomeOnReturn, OnlyTakenRun
    <2> QED BY <1>1, <2>1, ReturnAnswers DEF Refused, Outcomes
  <1>2. CASE GiveUpDispatching(c)
    BY <1>2, ReturnAnswers DEF GiveUpDispatching, Outcomes
  <1>3. CASE Receive(c)
    BY <1>3, ReturnAnswers DEF Receive, ResponseReady, Outcomes, IInv, ResponsesAreEarned
  <1>4. CASE GiveUpWaiting(c)
    BY <1>4, ReturnAnswers DEF GiveUpWaiting, Outcomes
  <1> QED BY <1>1, <1>2, <1>3, <1>4

LEMMA BeginRefines ==
    ASSUME IInv, NEW c \in Calls, Begin(c)
    PROVE  Once!Next
  <1> DEFINE seen == [x \in Calls |-> Seen(x)]
  <1>1. /\ call[c] = "idle" /\ call' = [call EXCEPT ![c] = "dispatching"]
        /\ outcome' = outcome /\ applied' = applied
    BY DEF Begin, actorVars
  <1>2. Seen(c) = "none" /\ seen[c] = Seen(c) /\ Seen(c)' = "pending"
    <2>1. Seen(c) = "none" /\ Seen(c)' = "pending"
      BY <1>1 DEF Seen, IInv, TypeOK, OutcomeOnReturn
    <2> QED BY <2>1
  <1>3. \A x \in Calls \ {c} : Seen(x)' = Seen(x)
    BY <1>1 DEF Seen, IInv, TypeOK
  <1>4. seen' = [seen EXCEPT ![c] = "pending"]
    BY <1>2, <1>3
  <1>5. Once!Invoke(c)
    <2>1. seen[c] = "none"
      BY <1>2
    <2> QED BY <1>1, <1>4, <2>1 DEF Once!Invoke
  <1> QED BY <1>5 DEF Once!Next

LEMMA FinishRefines ==
    ASSUME IInv, Finish
    PROVE  Once!Next
  <1>1. /\ cmd \in Calls /\ applied' = Append(applied, cmd)
        /\ call' = call /\ outcome' = outcome
        /\ Taken(cmd) /\ cmd \notin Range(applied)
    BY CallsAssumption DEF Finish, callVars, IInv, TypeOK, OnlyTakenRun
  <1>2. Seen(cmd) \in {"pending", "unknown"}
    BY <1>1 DEF Taken, Seen, IInv, TypeOK, CallStates, OutcomeOnReturn, ResponsesAreEarned
  <1>3. Once!Apply(cmd)
    <2>1. [x \in Calls |-> Seen(x)][cmd] \in {"pending", "unknown"}
      BY <1>1, <1>2
    <2>2. UNCHANGED [x \in Calls |-> Seen(x)]
      BY <1>1 DEF Seen
    <2>3. cmd \notin Once!Range(applied)
      BY <1>1 DEF Range, Once!Range
    <2> QED BY <1>1, <2>1, <2>2, <2>3 DEF Once!Apply
  <1> QED BY <1>1, <1>3 DEF Once!Next

LEMMA RefinesNext == IInv /\ [Next]_vars => [Once!Next]_(Once!vars)
  <1> SUFFICES ASSUME IInv, [Next]_vars PROVE Once!Next \/ UNCHANGED Once!vars
    OBVIOUS
  <1>1. ASSUME NEW c \in Calls, Deliver(c) PROVE UNCHANGED Once!vars
    <2>1. \A x \in Calls : Seen(x)' = Seen(x)
      BY <1>1 DEF Deliver, Seen, IInv, TypeOK, OutcomeOnReturn
    <2> QED BY <1>1, <2>1, Stutters DEF Deliver
  <1>2. ASSUME NEW c \in Calls, Dispatch(c) \/ Await(c)
        PROVE  Once!Next \/ UNCHANGED Once!vars
    BY <1>1, <1>2, CallerRefines DEF Dispatch, Await
  <1>3. CASE FinishAlone \/ FinishMailing
    BY <1>3, FinishRefines DEF FinishAlone, FinishMailing
  <1>4. CASE \/ RunReturns \/ Shutdown \/ EndRunContext \/ UNCHANGED vars
             \/ \E c \in Calls : Cancel(c)
    <2>1. UNCHANGED <<call, outcome, applied>>
      BY <1>4 DEF RunReturns, Shutdown, EndRunContext, Cancel, vars, callVars, actorVars
    <2> QED BY <2>1, Stutters DEF Seen
  <1> QED BY <1>2, <1>3, <1>4, BeginRefines DEF Next

\* Every behaviour of the actor is one of the at-most-once service: a command runs
\* at most once, and only if it was accepted; a result means that it ran, a refusal
\* that it never will.
THEOREM Refinement == Spec => ImplementsOnceService
  BY Invariance, RefinesInit, RefinesNext, PTL DEF Spec, Once!Spec, ImplementsOnceService
===============================================================================
