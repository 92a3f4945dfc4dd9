----------------------------- MODULE SessionStore -----------------------------
(***************************************************************************)
(* What a session store is to its clients (trait SessionStore of           *)
(* carapax-session, src/store/mod.rs): a map from keys to values, each     *)
(* with an optional time after which get() does not see it any more, that  *)
(* they use as if every call took effect at one moment. The trait says     *)
(* that a value whose time is over is deleted; the stores only hide it,    *)
(* and a later expire() shows it again. A store with a lifetime also ends  *)
(* whole sessions.                                                         *)
(***************************************************************************)
EXTENDS Integers

CONSTANTS
  Clients,
  Keys,     \* pairs of a namespace and a name
  Values,
  Seconds,
  Never,
  Delay,    \* bound: seconds between the clock read of expire() and its effect
  Ends,     \* sessions have a lifetime
  Fails     \* calls may fail

VARIABLES
  store,  \* the entry of each key
  clock,  \* seconds
  reply   \* what the last call of each client returned

vars == <<store, clock, reply>>

NoEntry == [value |-> "none", expires_at |-> Never]

Visible(entry) ==
  entry # NoEntry /\ (entry.expires_at = Never \/ entry.expires_at >= clock)

Init ==
  /\ store = [k \in Keys |-> NoEntry]
  /\ clock = 0
  /\ reply = [c \in Clients |-> "none"]

Return(c, r) == reply' = [reply EXCEPT ![c] = r]

\* A call that took effect may still fail: its answer can get lost.
Done == IF Fails THEN {"ok", "error"} ELSE {"ok"}

SessionEnds(ns) ==
  store' = [k \in Keys |-> IF k[1] = ns THEN NoEntry ELSE store[k]]

Get(c) ==
  \E k \in Keys :
    /\ Return(c, IF Visible(store[k]) THEN store[k].value ELSE "none")
    /\ UNCHANGED <<store, clock>>

Set(c) ==
  \E k \in Keys, v \in Values, r \in Done :
    /\ store' = [store EXCEPT ![k] = [value |-> v, expires_at |-> Never]]
    /\ Return(c, r)
    /\ UNCHANGED clock

\* What expire() returns for a key without a value is up to the store.
Expire(c) ==
  \E k \in Keys, s \in Seconds :
    /\ \/ /\ store[k] # NoEntry
          /\ \E d \in 0 .. Delay :
               store' = [store EXCEPT ![k].expires_at = clock - d + s]
          /\ \E r \in Done : Return(c, r)
       \/ /\ store[k] = NoEntry
          /\ \E r \in {"ok", "error"} : Return(c, r)
          /\ UNCHANGED store
    /\ UNCHANGED clock

Del(c) ==
  \E k \in Keys, r \in Done :
    /\ store' = [store EXCEPT ![k] = NoEntry]
    /\ Return(c, r)
    /\ UNCHANGED clock

\* The store, or the way to it, fails before the call had an effect, or when
\* its effect was shown before; the last of it may be the end of the session.
Fail(c) ==
  /\ Fails
  /\ Return(c, "error")
  /\ UNCHANGED store \/ (Ends /\ \E k \in Keys : SessionEnds(k[1]))
  /\ UNCHANGED clock

EndSession ==
  /\ Ends
  /\ \E k \in Keys : SessionEnds(k[1])
  /\ UNCHANGED <<clock, reply>>

Tick == clock' = clock + 1 /\ UNCHANGED <<store, reply>>

Next ==
  \/ \E c \in Clients : Get(c) \/ Set(c) \/ Expire(c) \/ Del(c) \/ Fail(c)
  \/ EndSession
  \/ Tick

Spec == Init /\ [][Next]_vars
=============================================================================
