--------------------------- MODULE RedisSessionStore ---------------------------
(***************************************************************************)
(* The Redis session store (carapax-session/src/store/redis.rs, with       *)
(* store/data.rs). A session is a Redis hash with a field per key name;    *)
(* one action is one Redis command. get() and del() are one command, set() *)
(* is HLEN, HSET and, for the first key of a session, EXPIRE, and expire() *)
(* is HGET and HSET: other clients run between them, and the hash may end. *)
(***************************************************************************)
EXTENDS Integers

CONSTANTS
  Clients,     \* concurrent users of the store
  Namespaces,
  Names,       \* key names
  Values,
  Seconds,     \* timeouts given to expire()
  Lifetime,    \* SessionLifetime::Duration in seconds, or Forever
  Forever,     \* SessionLifetime::Forever
  MaxTime      \* bound: last second of the clock

Keys == Namespaces \X Names

Never == -1

ASSUME RedisAssumption ==
  /\ Seconds \subseteq Nat
  /\ Forever \notin Nat
  /\ Lifetime \in Nat \cup {Forever}
  /\ Values \cap {"none", "ok", "error"} = {}
  /\ MaxTime \in Nat

VARIABLES
  now,       \* seconds, of the clients and of Redis
  hash,      \* the data each field of each hash holds
  deadline,  \* when Redis removes each hash, or Never
  call,      \* the operation each client is running
  reply,     \* what its last operation returned
  born,      \* history: when each hash was made
  untimed    \* history: hashes made without a lifetime

vars == <<now, hash, deadline, call, reply, born, untimed>>

NoEntry    == [value |-> "none", expires_at |-> Never]
Data(v, e) == [value |-> v, expires_at |-> e]
Datas      == [value : Values, expires_at : Nat \cup {Never}]

Idle == [step |-> "idle"]

EmptyHash == [name \in Names |-> NoEntry]

Stored(key) == hash[key[1]][key[2]]

\* Is the hash still given a lifetime by a set() that is under way?
Timing(ns) == \E c \in Clients : call[c].step = "expire" /\ call[c].key[1] = ns

-----------------------------------------------------------------------------

is_expired(data) == data.expires_at # Never /\ data.expires_at < now

set_lifetime(data, seconds) == Data(data.value, now + seconds)

Return(c, r) == reply' = [reply EXCEPT ![c] = r]

Finish(c, r) == call' = [call EXCEPT ![c] = Idle] /\ Return(c, r)

\* When Redis has run the last command of a call its answer may get lost.
Answers == {"ok", "error"}

\* HGET
Get(c) ==
  /\ call[c] = Idle
  /\ \E key \in Keys :
       Return(c, IF is_expired(Stored(key)) THEN "none" ELSE Stored(key).value)
  /\ UNCHANGED <<now, hash, deadline, call, born, untimed>>

\* HLEN
SetHlen(c) ==
  /\ call[c] = Idle
  /\ \E key \in Keys, v \in Values :
       call' = [call EXCEPT ![c] =
         [step |-> "hset", key |-> key, data |-> Data(v, Never),
          first |-> hash[key[1]] = EmptyHash]]
  /\ UNCHANGED <<now, hash, deadline, reply, born, untimed>>

\* HSET makes a hash, without a deadline, where there is none.
Hset(c, timed) ==
  LET key == call[c].key
      ns  == key[1]
      new == hash[ns] = EmptyHash
  IN  /\ hash' = [hash EXCEPT ![ns][key[2]] = call[c].data]
      /\ born' = IF new THEN [born EXCEPT ![ns] = now] ELSE born
      /\ untimed' = IF ~new THEN untimed
                    ELSE IF timed THEN untimed \ {ns}
                    ELSE untimed \cup {ns}
      /\ UNCHANGED <<now, deadline>>

SetHset_no_lifetime(c) ==
  /\ call[c].step = "hset"
  /\ Hset(c, Lifetime # Forever /\ call[c].first)
  /\ Finish(c, "ok")

SetHset(c) ==
  /\ call[c].step = "hset"
  /\ Hset(c, Lifetime # Forever /\ call[c].first)
  /\ \/ /\ call[c].first /\ Lifetime # Forever
        /\ call' = [call EXCEPT ![c].step = "expire"]
        /\ UNCHANGED reply
     \/ /\ ~(call[c].first /\ Lifetime # Forever)
        /\ \E r \in Answers : Finish(c, r)

SetExpire_from_birth(c) ==
  /\ call[c].step = "expire"
  /\ LET ns == call[c].key[1] IN
     IF hash[ns] = EmptyHash
     THEN UNCHANGED <<hash, deadline, untimed>>
     ELSE /\ deadline' = [deadline EXCEPT ![ns] = born[ns] + Lifetime - 1]
          /\ UNCHANGED <<hash, untimed>>
  /\ Finish(c, "ok")
  /\ UNCHANGED <<now, born>>

\* EXPIRE removes the hash at once when the lifetime is less than a second,
\* and does nothing when the hash is gone.
SetExpire(c) ==
  /\ call[c].step = "expire"
  /\ LET ns == call[c].key[1] IN
     \/ /\ hash[ns] = EmptyHash
        /\ UNCHANGED <<hash, deadline, untimed>>
     \/ /\ hash[ns] # EmptyHash
        /\ Lifetime = 0
        /\ hash' = [hash EXCEPT ![ns] = EmptyHash]
        /\ deadline' = [deadline EXCEPT ![ns] = Never]
        /\ untimed' = untimed \ {ns}
     \/ /\ hash[ns] # EmptyHash
        /\ Lifetime # 0
        /\ deadline' = [deadline EXCEPT ![ns] = now + Lifetime]
        /\ untimed' = untimed \ {ns}
        /\ UNCHANGED hash
  /\ \E r \in Answers : Finish(c, r)
  /\ UNCHANGED <<now, born>>

ExpireHget_missing(c) ==
  /\ call[c] = Idle
  /\ \E key \in Keys, s \in Seconds :
       call' = [call EXCEPT ![c] =
         [step |-> "write_back", key |-> key,
          data |-> set_lifetime(Stored(key), s), first |-> FALSE]]
  /\ UNCHANGED <<now, hash, deadline, reply, born, untimed>>

\* HGET, also of a value whose time is over; a missing key is no error.
ExpireHget(c) ==
  /\ call[c] = Idle
  /\ \E key \in Keys, s \in Seconds :
       \/ /\ Stored(key) = NoEntry
          /\ Return(c, "ok")
          /\ UNCHANGED call
       \/ /\ Stored(key) # NoEntry
          /\ call' = [call EXCEPT ![c] =
               [step |-> "write_back", key |-> key,
                data |-> set_lifetime(Stored(key), s), first |-> FALSE]]
          /\ UNCHANGED reply
  /\ UNCHANGED <<now, hash, deadline, born, untimed>>

\* HSET of what was read
ExpireHset(c) ==
  /\ call[c].step = "write_back"
  /\ Hset(c, FALSE)
  /\ \E r \in Answers : Finish(c, r)

Del_whole_session(c) ==
  /\ call[c] = Idle
  /\ \E key \in Keys :
       /\ hash' = [hash EXCEPT ![key[1]] = EmptyHash]
       /\ deadline' = [deadline EXCEPT ![key[1]] = Never]
       /\ untimed' = untimed \ {key[1]}
  /\ Return(c, "ok")
  /\ UNCHANGED <<now, call, born>>

\* HDEL; a hash without fields is gone, and its deadline with it.
Del(c) ==
  /\ call[c] = Idle
  /\ \E key \in Keys :
       LET ns == key[1] IN
       /\ hash' = [hash EXCEPT ![ns][key[2]] = NoEntry]
       /\ IF hash'[ns] = EmptyHash
          THEN /\ deadline' = [deadline EXCEPT ![ns] = Never]
               /\ untimed' = untimed \ {ns}
          ELSE UNCHANGED <<deadline, untimed>>
  /\ \E r \in Answers : Return(c, r)
  /\ UNCHANGED <<now, call, born>>

\* The connection fails or the dispatch of the client dies, at the first
\* command of a call or between two: what is left of the operation never
\* happens. A set() may have made the hash already.
Fail(c) ==
  /\ Finish(c, "error")
  /\ untimed' =
       IF call[c].step = "expire" /\ hash[call[c].key[1]] # EmptyHash
            /\ deadline[call[c].key[1]] = Never
       THEN untimed \cup {call[c].key[1]}
       ELSE untimed
  /\ UNCHANGED <<now, hash, deadline, born>>

\* Redis removes a hash in the second of its deadline.
Ended(ns) ==
  /\ deadline[ns] # Never
  /\ deadline[ns] <= now
  /\ hash' = [hash EXCEPT ![ns] = EmptyHash]
  /\ deadline' = [deadline EXCEPT ![ns] = Never]
  /\ UNCHANGED <<now, call, reply, born, untimed>>

Tick ==
  /\ now < MaxTime
  /\ \A ns \in Namespaces : deadline[ns] = Never \/ deadline[ns] > now
  /\ now' = now + 1
  /\ UNCHANGED <<hash, deadline, call, reply, born, untimed>>

Init ==
  /\ now = 0
  /\ hash = [ns \in Namespaces |-> EmptyHash]
  /\ deadline = [ns \in Namespaces |-> Never]
  /\ call = [c \in Clients |-> Idle]
  /\ reply = [c \in Clients |-> "none"]
  /\ born = [ns \in Namespaces |-> 0]
  /\ untimed = {}

Step(c) ==
  \/ Get(c)
  \/ SetHlen(c)
  \/ SetHset(c)
  \/ SetExpire(c)
  \/ ExpireHget(c)
  \/ ExpireHset(c)
  \/ Del(c)
  \/ Fail(c)

Next ==
  \/ \E c \in Clients : Step(c)
  \/ \E ns \in Namespaces : Ended(ns)
  \/ Tick

Spec == Init /\ [][Next]_vars

-----------------------------------------------------------------------------
(* Properties                                                              *)

Calls ==
  {Idle} \cup
  [step : {"hset", "expire", "write_back"}, key : Keys, data : Datas,
   first : BOOLEAN]

TypeOK ==
  /\ now \in 0 .. MaxTime
  /\ hash \in [Namespaces -> [Names -> Datas \cup {NoEntry}]]
  /\ deadline \in [Namespaces -> Nat \cup {Never}]
  /\ call \in [Clients -> Calls]
  /\ reply \in [Clients -> Values \cup {"none", "ok", "error"}]
  /\ born \in [Namespaces -> Nat]
  /\ untimed \subseteq Namespaces

\* Redis ends no session before its lifetime is over, whichever of several
\* set() calls gives it its deadline and however late (redis.rs, set).
NotCutShort ==
  [][\A ns \in Namespaces : Ended(ns) => now - born[ns] >= Lifetime]_vars

\* A session lasts longer than its lifetime only for one of three reasons: a
\* set() still has to send EXPIRE; a set() failed before it did; or the hash
\* was made by a set() that had seen, or an expire() that had read, an
\* earlier one. Nothing else loses the deadline (redis.rs, set and expire).
LifetimeKept ==
  Lifetime # Forever =>
    \A ns \in Namespaces :
      hash[ns] # EmptyHash /\ deadline[ns] = Never => Timing(ns) \/ ns \in untimed

Abstract == INSTANCE SessionStore WITH
  store <- [key \in Keys |-> Stored(key)],
  clock <- now,
  reply <- [c \in Clients |-> IF call[c].step = "expire" THEN "ok" ELSE reply[c]],
  Delay <- MaxTime,
  Ends  <- Lifetime # Forever,
  Fails <- TRUE

\* expire() writes over a value that changed after it was read.
LostUpdate ==
  \E c \in Clients :
    /\ ExpireHset(c)
    /\ Stored(call[c].key).value # call[c].data.value

\* The store behaves like a map with timeouts on which every call of several
\* clients takes effect at one moment, also when HLEN, HSET, EXPIRE and HGET
\* of different calls mix and calls fail at any command, before or after
\* Redis has run it, with one exception: the write-back of expire() may undo a
\* set() or del() (redis.rs).
ImplementsStore == Abstract!Init /\ [][Abstract!Next \/ LostUpdate]_Abstract!vars
=============================================================================
