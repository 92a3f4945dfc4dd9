------------------------------- MODULE MCBotApp -------------------------------
(***************************************************************************)
(* An instance of BotApp for TLC: two updates, so that one is dispatched   *)
(* while the other is fetched, and a first and a later handler.            *)
(***************************************************************************)
EXTENDS BotApp

NoUpdate   == {}
NoWait     == {}
AllUpdates == 1 .. MaxUpdates
=============================================================================
