----------------------------- MODULE MCDispatcher -----------------------------
(***************************************************************************)
(* Instances of Dispatcher for TLC: two updates, each of them accepted by  *)
(* every combination of the handlers, under both error strategies.         *)
(***************************************************************************)
EXTENDS Dispatcher

CONSTANTS u1, u2  \* updates

TwoUpdates == {u1, u2}
OneStuck   == {u2}
=============================================================================
