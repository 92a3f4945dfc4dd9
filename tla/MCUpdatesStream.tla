--------------------------- MODULE MCUpdatesStream ---------------------------
(***************************************************************************)
(* Instances of UpdatesStream for TLC. Three updates are enough for a      *)
(* batch to be cut by the limit, for a second batch to follow it, and for  *)
(* an update to arrive while a batch is handled.                           *)
(***************************************************************************)
EXTENDS UpdatesStream

NoUpdate     == {}
NoWait       == {}
SecondUpdate == {2}
ThirdUpdate  == {3}
FloodWaits   == {0, 2}
=============================================================================
