---------------------------- MODULE MCActorService ----------------------------
(***************************************************************************)
(* ActorService for TLC: calls that end a session and so send a report by  *)
(* mail, and calls that touch no mail server.                              *)
(***************************************************************************)
EXTENDS ActorService

CONSTANTS endSession, getQuestion, submit
===============================================================================
