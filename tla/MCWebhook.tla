------------------------------ MODULE MCWebhook ------------------------------
(***************************************************************************)
(* The instance of Webhook for TLC: two updates over two connections and a *)
(* queue of two, which is full when an update was posted again after its   *)
(* connection broke; the processor is dead after a panic of the handler.   *)
(***************************************************************************)
EXTENDS Webhook

CONSTANTS c1, c2, u1, u2  \* connections, updates

TwoConnections == {c1, c2}
TwoUpdates     == {u1, u2}
=============================================================================
