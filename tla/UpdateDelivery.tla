--------------------------- MODULE UpdateDelivery ---------------------------
(***************************************************************************)
(* What long polling promises a bot: every update Telegram creates can be  *)
(* handed to the update handler, in the order of the identifiers, and      *)
(* Telegram forgets ("confirms") only updates the handler took without a   *)
(* panic. An update may be handed over more than once; none is skipped.    *)
(***************************************************************************)
EXTENDS Naturals

VARIABLES
  created,    \* identifier of the newest update Telegram has created
  handled,    \* identifiers the update handler has been given at least once
  confirmed   \* Telegram has forgotten the updates 1 .. confirmed

vars == <<created, handled, confirmed>>

Init ==
  /\ created = 0
  /\ handled = {}
  /\ confirmed = 0

Create ==
  /\ created' = created + 1
  /\ UNCHANGED <<handled, confirmed>>

Handle ==
  \E id \in 1 .. created :
    /\ 1 .. (id - 1) \subseteq handled
    /\ handled' = handled \cup {id}
    /\ UNCHANGED <<created, confirmed>>

Confirm ==
  \E id \in 1 .. created :
    /\ id > confirmed
    /\ 1 .. id \subseteq handled
    /\ confirmed' = id
    /\ UNCHANGED <<created, handled>>

Next == Create \/ Handle \/ Confirm

Spec == Init /\ [][Next]_vars
=============================================================================
