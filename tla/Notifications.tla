----------------------------- MODULE Notifications -----------------------------
(***************************************************************************)
(* The message services of pkg/models/msgnotify as cmd/server/main.go      *)
(* wires them: the session server and the tracking server emit to one hub, *)
(* whose router knows a console sink and, if SMTP is configured, an e-mail *)
(* sink.                                                                   *)
(*                                                                         *)
(* An address is [family, address, tags]; the tags are a set of            *)
(* <<key, value>> labels, each key at most once in what the servers emit.  *)
(* A message is [session, event, attachment].  What a sink did with it is  *)
(* one of the results an operator below lists: [log, err], the deliveries  *)
(* made and whether Send returned an error.                                *)
(***************************************************************************)
EXTENDS Sequences, FiniteSetsExt

CONSTANTS
    SysadminEmail,   \* --sysadmin-email
    NoEmail          \* "": no address in a profile

\* The parts of the server configuration the wiring looks at.
Configurations == [smtp : BOOLEAN, sysadmin : BOOLEAN, signer : BOOLEAN]

Labels(addr, key) == {t[2] : t \in {l \in addr.tags : l[1] = key}}
HasLabelValue(addr, key, value) == value \in Labels(addr, key)

Stdout  == [family |-> "console", address |-> "/dev/stdout", tags |-> {}]
Mail(a) == [family |-> "email", address |-> a, tags |-> {}]
ServiceAddress(a, tags) == [family |-> "service", address |-> a, tags |-> tags]
NotificationRecipient == ServiceAddress("", {})

AcceptsSender(svc, family) ==
    \/ svc = "hub"   /\ family = "service"
    \/ svc = "console"
    \/ svc = "email" /\ family = "email"

AcceptsRecipient(svc, family) ==
    \/ svc = "hub"
    \/ svc = "console" /\ family = "console"
    \/ svc = "email"   /\ family = "email"

AreYou(svc, addr) ==
    \/ svc \in {"hub", "email"}
    \/ svc = "console" /\ addr.family = "console"
                       /\ addr.address \in {"/dev/stdout", "/dev/stderr"}
--------------------------------------------------------------------------------
(***************************************************************************)
(* The sinks.                                                              *)
(***************************************************************************)
Refused == [log |-> <<>>, err |-> TRUE]
Dropped == [log |-> <<>>, err |-> FALSE]
Delivery(sink, from, to, msg) ==
    [sink |-> sink, from |-> from.address, to |-> to.address, session |-> msg.session,
     event |-> msg.event, attachment |-> msg.attachment]
Delivered(sink, from, to, msg, err) ==
    [log |-> <<Delivery(sink, from, to, msg)>>, err |-> err]

ConsoleSend(from, to, msg) ==
    IF AreYou("console", to) THEN {Delivered("console", from, to, msg, FALSE)}
    ELSE {Refused}

\* The mail server may refuse the connection, the login, an address or the data;
\* or accept the message; or accept it and break the connection before QUIT.
EmailSend(from, to, msg) ==
    IF from.family = "email" /\ to.family = "email"
    THEN {Refused, Delivered("email", from, to, msg, FALSE),
          Delivered("email", from, to, msg, TRUE)}
    ELSE {Refused}

SinkSend(svc, from, to, msg) ==
    IF svc = "console" THEN ConsoleSend(from, to, msg) ELSE EmailSend(from, to, msg)
--------------------------------------------------------------------------------
(***************************************************************************)
(* The hub and its router.                                                 *)
(***************************************************************************)
NoHop == "none"

\* The route for e-mail needs both an SMTP server and the administrator's address.
Routes(config) ==
    <<[family |-> "console", hop |-> "console"]>>
    \o IF config.smtp /\ config.sysadmin
       THEN <<[family |-> "email", hop |-> "email"]>> ELSE <<>>

\* GetNextHop: the first route for the family of the destination.
GetNextHop(routes, to) ==
    LET matching == {i \in DOMAIN routes : routes[i].family = to.family}
    IN  IF matching = {} THEN NoHop ELSE routes[Min(matching)].hop

IsExamCompletion(from) ==
    /\ HasLabelValue(from, "msg_source", "exam_report_server")
    /\ HasLabelValue(from, "exam_event", "exam_completed")

ConsentAssumed(from) == TRUE
MailingConsentGiven(from) == HasLabelValue(from, "examreport_mail_consent", "true")

DeriveDestination(from) ==
    LET emails == Labels(from, "examtaker_email") \ {NoEmail}
    IN  IF MailingConsentGiven(from) /\ emails # {}
        THEN Mail(CHOOSE a \in emails : TRUE)
        ELSE Stdout

DeriveSender(config, from) == IF config.sysadmin THEN Mail(SysadminEmail) ELSE from

HubSend(config, from, to, msg) ==
    IF from.family # "service" THEN {Refused}
    ELSE IF ~IsExamCompletion(from) THEN {Dropped}
    ELSE LET dst == DeriveDestination(from)
             hop == GetNextHop(Routes(config), dst)
         IN  IF hop = NoHop THEN {Dropped}
             ELSE SinkSend(hop, DeriveSender(config, from), dst, msg)

\* The loop over the notifiers, of which there is one, the hub: it is asked only if
\* it takes both families and claims the recipient.  An error is logged, no more.
Emit(config, from, msg) ==
    IF /\ AcceptsSender("hub", from.family)
       /\ AcceptsRecipient("hub", NotificationRecipient.family)
       /\ AreYou("hub", NotificationRecipient)
    THEN HubSend(config, from, NotificationRecipient, msg)
    ELSE {Dropped}
--------------------------------------------------------------------------------
(***************************************************************************)
(* What the servers emit.                                                  *)
(***************************************************************************)
SessionStarted(config, user, id) ==
    Emit(config,
         ServiceAddress("exam_session_server",
           {<<"msg_source", "exam_session_server">>, <<"examtaker_subject_id", user>>}),
         [session |-> id, event |-> "started", attachment |-> "none"])

\* reportAttachment: signed if there is a signer; left out if that, or the
\* serialization, fails.
Attachments(config) == {"none", IF config.signer THEN "signed" ELSE "unsigned"}

FormatBool(b) == IF b THEN "true" ELSE "false"

\* notify of the tracking server, for a report of a user with this address.
Notify(config, user, email, id, consent, event) ==
    UNION {Emit(config,
                ServiceAddress("exam_tracking_server",
                  {<<"msg_source", "exam_report_server">>, <<"exam_event", event>>,
                   <<"examtaker_subject_id", user>>,
                   <<"examreport_mail_consent", FormatBool(consent)>>,
                   <<"examtaker_email", email>>}),
                [session |-> id, event |-> event, attachment |-> a]) :
           a \in Attachments(config)}
================================================================================
