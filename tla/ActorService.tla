------------------------------ MODULE ActorService ------------------------------
(***************************************************************************)
(* How a method call reaches an actor of the server and comes back:        *)
(* dispatch, Run and Shutdown of OnMemoryExamServer (and, line for line    *)
(* the same, of FsBasedAssociationManager), and the select with which      *)
(* every method waits for its response.                                    *)
(*                                                                         *)
(* A call is one goroutine with its own context; the actor is the          *)
(* goroutine of Run.  serviceChan is unbuffered: a send and the receive it *)
(* meets are one step.  A response channel has room for the one response   *)
(* it is ever sent, so the actor never blocks on it.  When several cases   *)
(* of a select are ready, Go picks any of them.                            *)
(***************************************************************************)
EXTENDS Naturals, Sequences, Functions

CONSTANTS
    Calls,     \* method calls, each made once
    Mailing,   \* the calls whose command hands a message to the mail server
    NoCall

ASSUME CallsAssumption == Mailing \subseteq Calls /\ NoCall \notin Calls

VARIABLES
    call,       \* call -> where its goroutine is
    outcome,    \* call -> what it returned
    cancelled,  \* the calls whose context has ended
    response,   \* the calls whose response channel holds the response
    actor,      \* where the goroutine of Run is
    cmd,        \* the call whose closure Run is executing
    done,       \* the channel done is closed
    runEnded,   \* the context given to Run has ended
    applied     \* history: the calls whose closure has run, in order

callVars  == <<call, outcome, cancelled>>
actorVars == <<actor, cmd, response, applied>>
vars == <<callVars, actorVars, done, runEnded>>

CallStates == {"idle", "dispatching", "waiting", "returned"}
Outcomes   == {"none", "result", "ctxErr", "errShuttingDown"}

TypeOK ==
    /\ call \in [Calls -> CallStates]
    /\ outcome \in [Calls -> Outcomes]
    /\ cancelled \subseteq Calls
    /\ response \subseteq Calls
    /\ actor \in {"selecting", "running", "stopped"}
    /\ cmd \in Calls \cup {NoCall}
    /\ actor = "running" <=> cmd # NoCall
    /\ done \in BOOLEAN
    /\ runEnded \in BOOLEAN
    /\ applied \in Seq(Calls)

Init ==
    /\ call = [c \in Calls |-> "idle"]
    /\ outcome = [c \in Calls |-> "none"]
    /\ cancelled = {}
    /\ response = {}
    /\ actor = "selecting"
    /\ cmd = NoCall
    /\ done = FALSE
    /\ runEnded = FALSE
    /\ applied = <<>>
-------------------------------------------------------------------------------
(***************************************************************************)
(* The caller.                                                             *)
(***************************************************************************)
Begin(c) ==
    /\ call[c] = "idle"
    /\ call' = [call EXCEPT ![c] = "dispatching"]
    /\ UNCHANGED <<outcome, cancelled, actorVars, done, runEnded>>

\* The client hangs up, or its deadline passes.
Cancel(c) ==
    /\ call[c] \in {"dispatching", "waiting"}
    /\ cancelled' = cancelled \cup {c}
    /\ UNCHANGED <<call, outcome, actorVars, done, runEnded>>

Return(c, o) ==
    /\ call' = [call EXCEPT ![c] = "returned"]
    /\ outcome' = [outcome EXCEPT ![c] = o]
    /\ UNCHANGED <<cancelled, actorVars, done, runEnded>>

NoSuchCase(c) == FALSE

\* dispatch: case <-srv.done
Refused(c) == call[c] = "dispatching" /\ done /\ Return(c, "errShuttingDown")

\* dispatch: case <-ctx.Done()
GiveUpDispatching(c) ==
    call[c] = "dispatching" /\ c \in cancelled /\ Return(c, "ctxErr")

\* case r := <-resp
AnythingReady(c) == TRUE
ResponseReady(c) == c \in response
Receive(c) == call[c] = "waiting" /\ ResponseReady(c) /\ Return(c, "result")

\* case <-ctx.Done(), with the closure not yet run, running, or done
GiveUpWaiting(c) == call[c] = "waiting" /\ c \in cancelled /\ Return(c, "ctxErr")
-------------------------------------------------------------------------------
(***************************************************************************)
(* The actor.                                                              *)
(***************************************************************************)
NotStopped == actor # "stopped"

\* Run is at its select, and not inside cmd().
AtSelect == actor = "selecting"

\* srv.serviceChan <- cmd meets cmd := <-srv.serviceChan.  Nothing keeps the two
\* selects from choosing this case when done is closed or the context has ended.
Deliver(c) ==
    /\ call[c] = "dispatching"
    /\ AtSelect
    /\ call' = [call EXCEPT ![c] = "waiting"]
    /\ actor' = "running"
    /\ cmd' = c
    /\ UNCHANGED <<outcome, cancelled, response, applied, done, runEnded>>

RespondNotAtAll == UNCHANGED response

\* cmd() runs to its end and leaves its response in the buffer.
Respond == response' = response \cup {cmd}

Finish ==
    /\ actor = "running"
    /\ applied' = Append(applied, cmd)
    /\ Respond
    /\ actor' = "selecting"
    /\ cmd' = NoCall
    /\ UNCHANGED <<callVars, done, runEnded>>

\* The command of a mailing call ends when the mail server lets it end.
FinishAlone   == cmd \notin Mailing /\ Finish
FinishMailing == cmd \in Mailing /\ Finish

\* Run returns; nothing else sees that it did.
StopNever == FALSE
StopWhen == done \/ runEnded

RunReturns ==
    /\ AtSelect
    /\ StopWhen
    /\ actor' = "stopped"
    /\ UNCHANGED <<cmd, response, applied, callVars, done, runEnded>>

\* close(done), once
Shutdown ==
    /\ ~done
    /\ done' = TRUE
    /\ UNCHANGED <<callVars, actorVars, runEnded>>

\* The context given to Run ends.
EndRunContext ==
    /\ ~runEnded
    /\ runEnded' = TRUE
    /\ UNCHANGED <<callVars, actorVars, done>>
-------------------------------------------------------------------------------
Dispatch(c) == Deliver(c) \/ Refused(c) \/ GiveUpDispatching(c)
Await(c) == Receive(c) \/ GiveUpWaiting(c)

Next ==
    \/ \E c \in Calls : Begin(c) \/ Cancel(c) \/ Dispatch(c) \/ Await(c)
    \/ FinishAlone \/ FinishMailing \/ RunReturns \/ Shutdown \/ EndRunContext

(***************************************************************************)
(* Fairness.  The Go scheduler runs every runnable goroutine; a channel    *)
(* serves its blocked senders in the order they came, so a sender is       *)
(* served if the actor keeps coming back to its select; a select chooses   *)
(* among the ready cases at random, so the actor notices done if it keeps  *)
(* coming back.  Nothing makes the mail server answer (net/smtp is given   *)
(* no deadline), nor a client begin or hang up, nor anyone shut down.      *)
(***************************************************************************)
Fairness ==
    /\ \A c \in Calls : SF_vars(Dispatch(c)) /\ WF_vars(Await(c))
    /\ WF_vars(FinishAlone)
    /\ SF_vars(RunReturns)

Spec == Init /\ [][Next]_vars
FairSpec == Spec /\ Fairness
-------------------------------------------------------------------------------
(***************************************************************************)
(* Properties.                                                             *)
(***************************************************************************)

\* The mail server lets every command end.
CommandsEnd == []<>(actor # "running")

\* "A nil return guarantees the actor received cmd and will run it to completion,
\* so the caller may safely wait on its response channel": a delivered call is
\* applied and returns, also when Shutdown or a cancellation comes in between.
DeliveredIsAnswered ==
    CommandsEnd => \A c \in Calls :
      call[c] = "waiting" ~> call[c] = "returned" /\ c \in Range(applied)

\* Every call returns, before and after Shutdown, as long as Run's own context
\* lasts (main gives it context.Background()).
EveryCallReturns ==
    CommandsEnd /\ []~runEnded =>
      \A c \in Calls : call[c] = "dispatching" ~> call[c] = "returned"

\* Shutdown stops the actor, however many callers keep it busy.
ShutdownStopsTheActor == CommandsEnd => (done ~> actor = "stopped")

\* "It returns when ctx is canceled or Shutdown is called, after which method calls
\* report errShuttingDown": once Run has returned, a call that is made returns.
CallsReturnAfterRun ==
    \A c \in Calls :
      actor = "stopped" /\ call[c] = "dispatching" ~> call[c] = "returned"

\* "Outside the actor goroutine, so delivery never blocks session dispatch": a call
\* that sends no message is answered whatever the mail server does.
DeliveryNeverBlocksDispatch ==
    []~runEnded => \A c \in Calls \ Mailing :
      call[c] = "dispatching" ~> call[c] = "returned"

\* What the caller of c knows.
Seen(c) == CASE call[c] = "idle"                       -> "none"
             [] call[c] \in {"dispatching", "waiting"} -> "pending"
             [] outcome[c] = "result"                  -> "result"
             [] outcome[c] = "errShuttingDown"         -> "refused"
             [] outcome[c] = "ctxErr"                  -> "unknown"

\* The actor is the at-most-once service its callers take it for.
Once == INSTANCE OnceService WITH answer <- [c \in Calls |-> Seen(c)]

ImplementsOnceService == Once!Spec
===============================================================================
