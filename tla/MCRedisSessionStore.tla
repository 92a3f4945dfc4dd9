-------------------------- MODULE MCRedisSessionStore --------------------------
(***************************************************************************)
(* The instance of RedisSessionStore for TLC. Two clients on one session   *)
(* of two keys are enough for a first set() of one to meet every operation *)
(* of the other; one second passes, enough for a session to end while a    *)
(* call is under way and to be made again.                                 *)
(***************************************************************************)
EXTENDS RedisSessionStore, TLC

CONSTANTS c1, c2, n1, v1, v2  \* clients, a namespace, values

TwoClients   == {c1, c2}
OneNamespace == {n1}
TwoNames     == {"a", "b"}
TwoValues    == {v1, v2}
OneTimeout   == {0}

Symmetric == Permutations(TwoClients) \cup Permutations(TwoValues)
=============================================================================
