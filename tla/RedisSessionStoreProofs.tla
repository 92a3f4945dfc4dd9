------------------------ MODULE RedisSessionStoreProofs ------------------------
(***************************************************************************)
(* Proofs about RedisSessionStore, for any number of clients, sessions and *)
(* keys, any lifetime and any timeouts: its types, what it does with the   *)
(* lifetime of a session, and that it implements SessionStore but for the  *)
(* write-back of expire().                                                 *)
(***************************************************************************)
EXTENDS RedisSessionStore, TLAPS

\* The data of a set() has no timeout yet, and that of an expire() has one
\* that was counted from some second up to now; only sessions with a lifetime
\* are given a deadline.
CallInv ==
  \A c \in Clients :
    /\ call[c].step = "hset" => call[c].data.expires_at = Never
    /\ call[c].step = "expire" => Lifetime # Forever
    /\ call[c].step = "write_back" =>
         \E t \in 0 .. now, s \in Seconds : call[c].data.expires_at = t + s

\* A hash that is not there has no deadline, and a deadline is a lifetime
\* after the hash was made, or later.
DeadlineInv ==
  \A ns \in Namespaces :
    /\ born[ns] <= now
    /\ deadline[ns] # Never =>
         /\ Lifetime # Forever
         /\ hash[ns] # EmptyHash
         /\ deadline[ns] >= born[ns] + Lifetime

RedisInv == TypeOK /\ CallInv /\ DeadlineInv

-----------------------------------------------------------------------------
(* Entries and calls                                                       *)

\* What a call under way carries.
LEMMA ActiveCall ==
  ASSUME TypeOK, NEW c \in Clients,
         call[c].step \in {"hset", "expire", "write_back"}
  PROVE  /\ call[c] \in [step : {"hset", "expire", "write_back"}, key : Keys,
                         data : Datas, first : BOOLEAN]
         /\ call[c].key[1] \in Namespaces
         /\ call[c].key[2] \in Names
         /\ call[c] # Idle
<1>1. call[c] \in Calls
  BY DEF TypeOK
<1>2. call[c] # Idle
  BY DEF Idle
<1>3. call[c].key \in Keys
  BY <1>1, <1>2 DEF Calls
<1> QED
  BY <1>1, <1>2, <1>3 DEF Calls, Keys

\* No data is the entry of a key that is not there.
LEMMA DataIsThere == NoEntry \notin Datas
BY RedisAssumption DEF NoEntry, Datas

LEMMA StoredType ==
  ASSUME TypeOK, NEW key \in Keys
  PROVE  /\ Stored(key) \in Datas \cup {NoEntry}
         /\ key[1] \in Namespaces
         /\ key[2] \in Names
BY DEF TypeOK, Stored, Keys

LEMMA SetLifetimeType ==
  ASSUME TypeOK, NEW data \in Datas, NEW s \in Seconds
  PROVE  /\ set_lifetime(data, s) \in Datas
         /\ set_lifetime(data, s).expires_at = now + s
BY RedisAssumption DEF TypeOK, set_lifetime, Data, Datas

\* HSET leaves a hash that is there.
LEMMA HsetEffect ==
  ASSUME TypeOK, NEW c \in Clients,
         call[c].step \in {"hset", "write_back"},
         NEW timed \in BOOLEAN, Hset(c, timed)
  PROVE  /\ hash' \in [Namespaces -> [Names -> Datas \cup {NoEntry}]]
         /\ born' \in [Namespaces -> Nat]
         /\ untimed' \subseteq Namespaces
         /\ hash'[call[c].key[1]] # EmptyHash
         /\ \A ns \in Namespaces \ {call[c].key[1]} :
              hash'[ns] = hash[ns] /\ born'[ns] = born[ns]
         /\ \A ns \in Namespaces :
              \/ born'[ns] = born[ns]
              \/ born'[ns] = now /\ hash[ns] = EmptyHash
         /\ UNCHANGED <<now, deadline>>
<1> DEFINE key == call[c].key
           ns0 == key[1]
<1>1. ns0 \in Namespaces /\ key[2] \in Names /\ call[c].data \in Datas
  BY ActiveCall
<1>2. /\ hash' = [hash EXCEPT ![ns0][key[2]] = call[c].data]
      /\ born' = IF hash[ns0] = EmptyHash THEN [born EXCEPT ![ns0] = now] ELSE born
      /\ untimed' \subseteq untimed \cup {ns0}
      /\ UNCHANGED <<now, deadline>>
  BY DEF Hset
<1>3. now \in Nat /\ born \in [Namespaces -> Nat] /\ untimed \subseteq Namespaces
      /\ hash \in [Namespaces -> [Names -> Datas \cup {NoEntry}]]
  BY DEF TypeOK
<1>4. hash' \in [Namespaces -> [Names -> Datas \cup {NoEntry}]]
  BY <1>1, <1>2, <1>3
<1>5. hash'[ns0][key[2]] = call[c].data
  BY <1>1, <1>2, <1>3
<1>6. hash'[ns0] # EmptyHash
  BY <1>1, <1>5, DataIsThere DEF EmptyHash
<1> QED
  BY <1>1, <1>2, <1>3, <1>4, <1>6

-----------------------------------------------------------------------------
(* The inductive invariant                                                 *)

LEMMA InitInv == Init => RedisInv
<1> SUFFICES ASSUME Init PROVE RedisInv
  OBVIOUS
<1>1. TypeOK
  BY RedisAssumption DEF Init, TypeOK, EmptyHash, Calls
<1>2. CallInv
  BY DEF Init, CallInv, Idle
<1>3. DeadlineInv
  BY DEF Init, DeadlineInv
<1> QED
  BY <1>1, <1>2, <1>3 DEF RedisInv

\* A client that starts no other step leaves the rest of CallInv alone.
LEMMA CallInvStep ==
  ASSUME TypeOK, CallInv, now' = now, NEW c \in Clients, NEW new \in Calls,
         call' = [call EXCEPT ![c] = new],
         new.step = "hset" => new.data.expires_at = Never,
         new.step = "expire" => Lifetime # Forever,
         new.step = "write_back" =>
           \E t \in 0 .. now, s \in Seconds : new.data.expires_at = t + s
  PROVE  CallInv' /\ call' \in [Clients -> Calls]
<1>1. call \in [Clients -> Calls]
  BY DEF TypeOK
<1>2. call' \in [Clients -> Calls]
  BY <1>1
<1>3. ASSUME NEW d \in Clients
      PROVE  /\ call'[d].step = "hset" => call'[d].data.expires_at = Never
             /\ call'[d].step = "expire" => Lifetime # Forever
             /\ call'[d].step = "write_back" =>
                  \E t \in 0 .. now, s \in Seconds :
                    call'[d].data.expires_at = t + s
  <2>1. CASE d = c
    BY <1>1, <2>1
  <2>2. CASE d # c
    BY <1>1, <2>2 DEF CallInv
  <2> QED
    BY <2>1, <2>2
<1> QED
  BY <1>2, <1>3 DEF CallInv

LEMMA IdleIsCall == Idle \in Calls /\ Idle.step = "idle"
BY DEF Calls, Idle

\* A call that ends.
LEMMA FinishEffect ==
  ASSUME TypeOK, CallInv, now' = now, NEW c \in Clients,
         \E r \in Answers : Finish(c, r)
  PROVE  /\ CallInv'
         /\ call' \in [Clients -> Calls]
         /\ reply' \in [Clients -> Values \cup {"none", "ok", "error"}]
<1>1. reply' \in [Clients -> Values \cup {"none", "ok", "error"}]
  BY DEF Finish, Return, Answers, TypeOK
<1>2. call' = [call EXCEPT ![c] = Idle]
  BY DEF Finish
<1> QED
  BY <1>1, <1>2, IdleIsCall, CallInvStep

\* Every command keeps the types and the place of calls and deadlines.
LEMMA StepInv ==
  ASSUME RedisInv, NEW c \in Clients, Step(c)
  PROVE  RedisInv'
<1> USE DEF RedisInv
<1>0. /\ now \in Nat /\ now \in 0 .. MaxTime
      /\ hash \in [Namespaces -> [Names -> Datas \cup {NoEntry}]]
      /\ deadline \in [Namespaces -> Nat \cup {Never}]
      /\ call \in [Clients -> Calls]
      /\ reply \in [Clients -> Values \cup {"none", "ok", "error"}]
      /\ born \in [Namespaces -> Nat]
      /\ untimed \subseteq Namespaces
  BY RedisAssumption DEF TypeOK
<1>1. CASE Get(c)
  <2>1. PICK key \in Keys :
          Return(c, IF is_expired(Stored(key)) THEN "none" ELSE Stored(key).value)
    BY <1>1 DEF Get
  <2>2. Stored(key).value \in Values \cup {"none"}
    BY StoredType DEF Datas, NoEntry
  <2>3. reply' \in [Clients -> Values \cup {"none", "ok", "error"}]
    BY <1>0, <2>1, <2>2 DEF Return
  <2>4. UNCHANGED <<now, hash, deadline, call, born, untimed>>
    BY <1>1 DEF Get
  <2> QED
    BY <1>0, <2>3, <2>4 DEF TypeOK, CallInv, DeadlineInv
<1>2. CASE SetHlen(c)
  <2>1. PICK key \in Keys, v \in Values :
          call' = [call EXCEPT ![c] =
            [step |-> "hset", key |-> key, data |-> Data(v, Never),
             first |-> hash[key[1]] = EmptyHash]]
    BY <1>2 DEF SetHlen
  <2> DEFINE new == [step |-> "hset", key |-> key, data |-> Data(v, Never),
                     first |-> hash[key[1]] = EmptyHash]
  <2>2. new \in Calls /\ new.step = "hset" /\ new.data.expires_at = Never
    BY DEF Calls, Data, Datas
  <2>3. UNCHANGED <<now, hash, deadline, reply, born, untimed>>
    BY <1>2 DEF SetHlen
  <2>4. CallInv' /\ call' \in [Clients -> Calls]
    BY <2>1, <2>2, <2>3, CallInvStep
  <2> QED
    BY <1>0, <2>3, <2>4 DEF TypeOK, DeadlineInv
<1>3. CASE SetHset(c)
  <2>1. /\ call[c].step = "hset"
        /\ Hset(c, Lifetime # Forever /\ call[c].first)
    BY <1>3 DEF SetHset
  <2>2. call[c].first \in BOOLEAN
    BY <2>1, ActiveCall
  <2>3. /\ hash' \in [Namespaces -> [Names -> Datas \cup {NoEntry}]]
        /\ born' \in [Namespaces -> Nat]
        /\ untimed' \subseteq Namespaces
        /\ hash'[call[c].key[1]] # EmptyHash
        /\ \A ns \in Namespaces \ {call[c].key[1]} :
              hash'[ns] = hash[ns] /\ born'[ns] = born[ns]
        /\ \A ns \in Namespaces :
              born'[ns] = born[ns] \/ (born'[ns] = now /\ hash[ns] = EmptyHash)
        /\ UNCHANGED <<now, deadline>>
    BY <2>1, <2>2, HsetEffect
  <2>4. DeadlineInv'
    BY <1>0, <2>3 DEF DeadlineInv
  <2>5. CASE call[c].first /\ Lifetime # Forever
    <3>1. call' = [call EXCEPT ![c].step = "expire"] /\ UNCHANGED reply
      BY <1>3, <2>5 DEF SetHset
    <3> DEFINE new == [call[c] EXCEPT !.step = "expire"]
    <3>2. new \in Calls /\ new.step = "expire"
      BY <2>1, ActiveCall DEF Calls
    <3>3. call' = [call EXCEPT ![c] = new]
      BY <1>0, <3>1
    <3>4. CallInv' /\ call' \in [Clients -> Calls]
      BY <2>3, <2>5, <3>2, <3>3, CallInvStep
    <3> QED
      BY <1>0, <2>3, <2>4, <3>1, <3>4 DEF TypeOK
  <2>6. CASE ~(call[c].first /\ Lifetime # Forever)
    <3>1. \E r \in Answers : Finish(c, r)
      BY <1>3, <2>6 DEF SetHset
    <3> QED
      BY <1>0, <2>3, <2>4, <3>1, FinishEffect DEF TypeOK
  <2> QED
    BY <2>5, <2>6
<1>4. CASE SetExpire(c)
  <2> DEFINE ns == call[c].key[1]
  <2>1. /\ call[c].step = "expire" /\ UNCHANGED <<now, born>>
        /\ \E r \in Answers : Finish(c, r)
    BY <1>4 DEF SetExpire
  <2>2. ns \in Namespaces /\ Lifetime \in Nat
    BY <2>1, ActiveCall, RedisAssumption DEF CallInv
  <2>3. \/ UNCHANGED <<hash, deadline, untimed>>
        \/ /\ hash' = [hash EXCEPT ![ns] = EmptyHash]
           /\ deadline' = [deadline EXCEPT ![ns] = Never]
           /\ untimed' = untimed \ {ns}
        \/ /\ hash[ns] # EmptyHash
           /\ deadline' = [deadline EXCEPT ![ns] = now + Lifetime]
           /\ untimed' = untimed \ {ns}
           /\ UNCHANGED hash
    BY <1>4 DEF SetExpire
  <2>4. EmptyHash \in [Names -> Datas \cup {NoEntry}]
    BY DEF EmptyHash
  <2>5. /\ hash' \in [Namespaces -> [Names -> Datas \cup {NoEntry}]]
        /\ deadline' \in [Namespaces -> Nat \cup {Never}]
        /\ untimed' \subseteq Namespaces
    <3>1. hash' \in [Namespaces -> [Names -> Datas \cup {NoEntry}]]
      BY <1>0, <2>2, <2>3, <2>4
    <3>2. now + Lifetime \in Nat
      BY <1>0, <2>2
    <3>3. deadline' \in [Namespaces -> Nat \cup {Never}]
      BY <1>0, <2>2, <2>3, <3>2
    <3>4. untimed' \subseteq Namespaces
      BY <1>0, <2>3
    <3> QED
      BY <3>1, <3>3, <3>4
  <2>6. Lifetime # Forever
    BY <2>1 DEF CallInv
  <2>7. DeadlineInv'
    BY <1>0, <2>1, <2>2, <2>3, <2>6 DEF DeadlineInv
  <2> QED
    BY <1>0, <2>1, <2>5, <2>7, FinishEffect DEF TypeOK
<1>5. CASE ExpireHget(c)
  <2>1. UNCHANGED <<now, hash, deadline, born, untimed>>
    BY <1>5 DEF ExpireHget
  <2>2. PICK key \in Keys, s \in Seconds :
          \/ /\ Stored(key) = NoEntry
             /\ Return(c, "ok")
             /\ UNCHANGED call
          \/ /\ Stored(key) # NoEntry
             /\ call' = [call EXCEPT ![c] =
                  [step |-> "write_back", key |-> key,
                   data |-> set_lifetime(Stored(key), s), first |-> FALSE]]
             /\ UNCHANGED reply
    BY <1>5 DEF ExpireHget
  <2>3. CASE Return(c, "ok") /\ UNCHANGED call
    <3>1. reply' \in [Clients -> Values \cup {"none", "ok", "error"}]
      BY <1>0, <2>3 DEF Return
    <3> QED
      BY <1>0, <2>1, <2>3, <3>1 DEF TypeOK, CallInv, DeadlineInv
  <2> DEFINE new == [step |-> "write_back", key |-> key,
                     data |-> set_lifetime(Stored(key), s), first |-> FALSE]
  <2>4. CASE /\ Stored(key) # NoEntry
             /\ call' = [call EXCEPT ![c] = new]
             /\ UNCHANGED reply
    <3>1. Stored(key) \in Datas
      BY <2>4, StoredType
    <3>2. /\ set_lifetime(Stored(key), s) \in Datas
          /\ set_lifetime(Stored(key), s).expires_at = now + s
      BY <3>1, SetLifetimeType
    <3>3. /\ new \in Calls
          /\ new.step = "write_back"
          /\ new.data.expires_at = now + s
      BY <3>2 DEF Calls
    <3>4. \E t \in 0 .. now, r \in Seconds : new.data.expires_at = t + r
      BY <1>0, <3>3
    <3>5. CallInv' /\ call' \in [Clients -> Calls]
      BY <2>1, <2>4, <3>3, <3>4, CallInvStep
    <3> QED
      BY <1>0, <2>1, <2>4, <3>5 DEF TypeOK, DeadlineInv
  <2> QED
    BY <2>2, <2>3, <2>4
<1>6. CASE ExpireHset(c)
  <2>1. /\ call[c].step = "write_back" /\ Hset(c, FALSE)
        /\ \E r \in Answers : Finish(c, r)
    BY <1>6 DEF ExpireHset
  <2>2. /\ hash' \in [Namespaces -> [Names -> Datas \cup {NoEntry}]]
        /\ born' \in [Namespaces -> Nat]
        /\ untimed' \subseteq Namespaces
        /\ hash'[call[c].key[1]] # EmptyHash
        /\ \A ns \in Namespaces \ {call[c].key[1]} :
              hash'[ns] = hash[ns] /\ born'[ns] = born[ns]
        /\ \A ns \in Namespaces :
              born'[ns] = born[ns] \/ (born'[ns] = now /\ hash[ns] = EmptyHash)
        /\ UNCHANGED <<now, deadline>>
    BY <2>1, HsetEffect
  <2>3. DeadlineInv'
    BY <1>0, <2>2 DEF DeadlineInv
  <2> QED
    BY <1>0, <2>1, <2>2, <2>3, FinishEffect DEF TypeOK
<1>7. CASE Del(c)
  <2>1. PICK key \in Keys :
          /\ hash' = [hash EXCEPT ![key[1]][key[2]] = NoEntry]
          /\ IF hash'[key[1]] = EmptyHash
             THEN /\ deadline' = [deadline EXCEPT ![key[1]] = Never]
                  /\ untimed' = untimed \ {key[1]}
             ELSE UNCHANGED <<deadline, untimed>>
    BY <1>7 DEF Del
  <2>2. /\ reply' \in [Clients -> Values \cup {"none", "ok", "error"}]
        /\ UNCHANGED <<now, call, born>>
    BY <1>0, <1>7 DEF Del, Return, Answers
  <2>3. key[1] \in Namespaces /\ key[2] \in Names
    BY DEF Keys
  <2>4. /\ hash' \in [Namespaces -> [Names -> Datas \cup {NoEntry}]]
        /\ deadline' \in [Namespaces -> Nat \cup {Never}]
        /\ untimed' \subseteq Namespaces
        /\ reply' \in [Clients -> Values \cup {"none", "ok", "error"}]
    BY <1>0, <2>1, <2>2, <2>3
  <2>5. DeadlineInv'
    BY <1>0, <2>1, <2>2, <2>3 DEF DeadlineInv
  <2> QED
    BY <1>0, <2>2, <2>4, <2>5 DEF TypeOK, CallInv
<1>8. CASE Fail(c)
  <2>1. /\ Finish(c, "error")
        /\ untimed' = IF call[c].step = "expire" /\ hash[call[c].key[1]] # EmptyHash
                           /\ deadline[call[c].key[1]] = Never
                      THEN untimed \cup {call[c].key[1]}
                      ELSE untimed
        /\ UNCHANGED <<now, hash, deadline, born>>
    BY <1>8 DEF Fail
  <2>3. \E r \in Answers : Finish(c, r)
    BY <2>1 DEF Answers
  <2>2. untimed' \subseteq Namespaces
    BY <1>0, <2>1, ActiveCall
  <2> QED
    BY <1>0, <2>1, <2>2, <2>3, FinishEffect DEF TypeOK, DeadlineInv
<1> QED
  BY <1>1, <1>2, <1>3, <1>4, <1>5, <1>6, <1>7, <1>8 DEF Step

LEMMA NextInv == RedisInv /\ [Next]_vars => RedisInv'
<1> SUFFICES ASSUME RedisInv, [Next]_vars PROVE RedisInv'
  OBVIOUS
<1> USE DEF RedisInv
<1>0. /\ now \in Nat
      /\ hash \in [Namespaces -> [Names -> Datas \cup {NoEntry}]]
      /\ deadline \in [Namespaces -> Nat \cup {Never}]
      /\ born \in [Namespaces -> Nat]
  BY RedisAssumption DEF TypeOK
<1>1. ASSUME NEW c \in Clients, Step(c)
      PROVE  RedisInv'
  BY <1>1, StepInv
<1>2. ASSUME NEW ns \in Namespaces, Ended(ns)
      PROVE  RedisInv'
  <2>1. /\ hash' = [hash EXCEPT ![ns] = EmptyHash]
        /\ deadline' = [deadline EXCEPT ![ns] = Never]
        /\ UNCHANGED <<now, call, reply, born, untimed>>
    BY <1>2 DEF Ended
  <2>2. EmptyHash \in [Names -> Datas \cup {NoEntry}]
    BY DEF EmptyHash
  <2>3. TypeOK'
    BY <1>0, <2>1, <2>2 DEF TypeOK
  <2>4. DeadlineInv'
    BY <1>0, <2>1 DEF DeadlineInv
  <2> QED
    BY <2>1, <2>3, <2>4 DEF CallInv
<1>3. CASE Tick
  <2>1. /\ now' = now + 1 /\ now < MaxTime
        /\ UNCHANGED <<hash, deadline, call, reply, born, untimed>>
    BY <1>3 DEF Tick
  <2>2. TypeOK'
    BY <1>0, <2>1, RedisAssumption DEF TypeOK
  <2>3. CallInv'
    BY <1>0, <2>1 DEF CallInv
  <2>4. DeadlineInv'
    BY <1>0, <2>1 DEF DeadlineInv
  <2> QED
    BY <2>2, <2>3, <2>4
<1>4. CASE UNCHANGED vars
  BY <1>4 DEF vars, TypeOK, CallInv, DeadlineInv
<1> QED
  BY <1>1, <1>2, <1>3, <1>4 DEF Next

\* The invariant holds of every state that is reached.
THEOREM Invariance == Spec => []RedisInv
BY InitInv, NextInv, PTL DEF Spec

\* The store keeps its types (RedisSessionStore, its calls and the hashes).
THEOREM TypeCorrect == Spec => []TypeOK
<1>1. RedisInv => TypeOK
  BY DEF RedisInv
<1> QED
  BY <1>1, Invariance, PTL

-----------------------------------------------------------------------------
(* The lifetime of sessions                                                *)

\* Redis ends no session before its lifetime is over: a deadline is set only
\* after the hash was made (redis.rs, set).
THEOREM NeverCutShort == Spec => NotCutShort
<1>1. RedisInv => \A ns \in Namespaces : Ended(ns) => now - born[ns] >= Lifetime
  <2> SUFFICES ASSUME RedisInv, NEW ns \in Namespaces, Ended(ns)
               PROVE  now - born[ns] >= Lifetime
    OBVIOUS
  <2>1. now \in Nat /\ born[ns] \in Nat /\ deadline[ns] \in Nat \cup {Never}
    BY RedisAssumption DEF RedisInv, TypeOK
  <2>2. deadline[ns] # Never /\ deadline[ns] <= now
    BY DEF Ended
  <2>3. Lifetime \in Nat /\ deadline[ns] >= born[ns] + Lifetime
    BY <2>2, RedisAssumption DEF RedisInv, DeadlineInv
  <2> QED
    BY <2>1, <2>2, <2>3
<1> QED
  BY <1>1, Invariance, PTL DEF NotCutShort

\* HSET on a hash that is there takes no lifetime from any session, and on one
\* that is not there records whether EXPIRE will follow.
LEMMA HsetLifetime ==
  ASSUME RedisInv, LifetimeKept, Lifetime # Forever, NEW c \in Clients,
         call[c].step \in {"hset", "write_back"}, NEW timed \in BOOLEAN,
         Hset(c, timed), NEW new,
         call' = [call EXCEPT ![c] = new],
         timed => new.step = "expire" /\ new.key = call[c].key
  PROVE  LifetimeKept'
<1> DEFINE ns0 == call[c].key[1]
<1>1. /\ call \in [Clients -> Calls]
      /\ ns0 \in Namespaces
  BY ActiveCall DEF RedisInv, TypeOK
<1>2. /\ UNCHANGED deadline
      /\ \A ns \in Namespaces \ {ns0} : hash'[ns] = hash[ns]
  BY HsetEffect DEF RedisInv
<1>4. /\ hash[ns0] # EmptyHash => untimed' = untimed
      /\ untimed \ {ns0} \subseteq untimed'
      /\ hash[ns0] = EmptyHash /\ ~timed => ns0 \in untimed'
  <2>1. CASE hash[ns0] # EmptyHash
    BY <2>1 DEF Hset
  <2>2. CASE hash[ns0] = EmptyHash /\ timed
    <3>1. untimed' = untimed \ {ns0}
      BY <2>2 DEF Hset
    <3> QED
      BY <2>2, <3>1
  <2>3. CASE hash[ns0] = EmptyHash /\ ~timed
    <3>1. untimed' = untimed \cup {ns0}
      BY <2>3 DEF Hset
    <3> QED
      BY <2>3, <3>1
  <2> QED
    BY <2>1, <2>2, <2>3
<1>3. ASSUME NEW ns \in Namespaces, hash'[ns] # EmptyHash, deadline'[ns] = Never
      PROVE  Timing(ns)' \/ ns \in untimed'
  <2>1. CASE ns = ns0 /\ hash[ns0] = EmptyHash
    <3>1. CASE timed
      <4>1. call'[c].step = "expire" /\ call'[c].key[1] = ns
        BY <1>1, <2>1, <3>1
      <4> QED
        BY <4>1 DEF Timing
    <3>2. CASE ~timed
      BY <1>4, <2>1, <3>2
    <3> QED
      BY <3>1, <3>2
  <2>2. CASE ~(ns = ns0 /\ hash[ns0] = EmptyHash)
    <3>1. hash[ns] # EmptyHash /\ deadline[ns] = Never
      BY <1>2, <1>3, <2>2
    <3>2. Timing(ns) \/ ns \in untimed
      BY <3>1 DEF LifetimeKept
    <3>3. CASE Timing(ns)
      <4>1. PICK d \in Clients : call[d].step = "expire" /\ call[d].key[1] = ns
        BY <3>3 DEF Timing
      <4>2. call'[d] = call[d]
        BY <1>1, <4>1
      <4> QED
        BY <4>1, <4>2 DEF Timing
    <3>4. CASE ns \in untimed
      BY <1>4, <2>2, <3>4
    <3> QED
      BY <3>2, <3>3, <3>4
  <2> QED
    BY <2>1, <2>2
<1> QED
  BY <1>3 DEF LifetimeKept, EmptyHash

\* A step that only drops entries, of a client that sends no EXPIRE.
LEMMA DropLifetime ==
  ASSUME RedisInv, LifetimeKept, Lifetime # Forever,
         UNCHANGED call,
         \A ns \in Namespaces :
           hash'[ns] # EmptyHash =>
             /\ hash[ns] # EmptyHash
             /\ deadline'[ns] = deadline[ns]
             /\ ns \in untimed => ns \in untimed'
  PROVE  LifetimeKept'
<1>1. \A ns \in Namespaces : Timing(ns)' <=> Timing(ns)
  BY DEF Timing
<1> QED
  BY <1>1 DEF LifetimeKept, EmptyHash

\* A step that changes nothing of any session, nor a call that sends EXPIRE.
LEMMA OtherCallLifetime ==
  ASSUME RedisInv, LifetimeKept, Lifetime # Forever,
         UNCHANGED <<hash, deadline, untimed>>,
         NEW c \in Clients, call[c].step # "expire", NEW new,
         call' = [call EXCEPT ![c] = new]
  PROVE  LifetimeKept'
<1>1. ASSUME NEW ns \in Namespaces, Timing(ns)
      PROVE  Timing(ns)'
  <2>1. PICK d \in Clients : call[d].step = "expire" /\ call[d].key[1] = ns
    BY <1>1 DEF Timing
  <2>2. call'[d] = call[d]
    BY <2>1 DEF RedisInv, TypeOK
  <2> QED
    BY <2>1, <2>2 DEF Timing
<1> QED
  BY <1>1 DEF LifetimeKept, EmptyHash

\* The EXPIRE of a call is sent, or never will be.
LEMMA EndOfTiming ==
  ASSUME RedisInv, LifetimeKept, Lifetime # Forever, NEW c \in Clients,
         call[c].step = "expire", call' = [call EXCEPT ![c] = Idle],
         \A ns \in Namespaces :
           hash'[ns] # EmptyHash /\ deadline'[ns] = Never =>
             /\ hash[ns] # EmptyHash
             /\ deadline[ns] = Never
             /\ ns = call[c].key[1] => ns \in untimed'
             /\ ns \in untimed => ns \in untimed'
  PROVE  LifetimeKept'
<1>1. ASSUME NEW ns \in Namespaces, hash'[ns] # EmptyHash, deadline'[ns] = Never
      PROVE  Timing(ns)' \/ ns \in untimed'
  <2>1. Timing(ns) \/ ns \in untimed
    BY <1>1 DEF LifetimeKept
  <2>2. CASE Timing(ns)
    <3>1. PICK d \in Clients : call[d].step = "expire" /\ call[d].key[1] = ns
      BY <2>2 DEF Timing
    <3>2. CASE d = c
      BY <1>1, <3>1, <3>2
    <3>3. CASE d # c
      <4>1. call'[d] = call[d]
        BY <3>3 DEF RedisInv, TypeOK
      <4> QED
        BY <3>1, <4>1 DEF Timing
    <3> QED
      BY <3>2, <3>3
  <2>3. CASE ns \in untimed
    BY <1>1, <2>3
  <2> QED
    BY <2>1, <2>2, <2>3
<1> QED
  BY <1>1 DEF LifetimeKept, EmptyHash

LEMMA LifetimeStep ==
  ASSUME RedisInv, LifetimeKept, Lifetime # Forever, NEW c \in Clients, Step(c)
  PROVE  LifetimeKept'
<1>0. /\ hash \in [Namespaces -> [Names -> Datas \cup {NoEntry}]]
      /\ deadline \in [Namespaces -> Nat \cup {Never}]
      /\ call \in [Clients -> Calls]
      /\ now \in Nat
  BY RedisAssumption DEF RedisInv, TypeOK
<1>a. call[c] = Idle => call[c].step # "expire"
  BY DEF Idle
<1>1. CASE Get(c)
  BY <1>1, DropLifetime DEF Get
<1>2. CASE SetHlen(c)
  <2>1. PICK new : call' = [call EXCEPT ![c] = new]
    BY <1>2 DEF SetHlen
  <2> QED
    BY <1>2, <1>a, <2>1, OtherCallLifetime DEF SetHlen
<1>3. CASE SetHset(c)
  <2>1. /\ call[c].step = "hset"
        /\ Hset(c, Lifetime # Forever /\ call[c].first)
        /\ call[c].first \in BOOLEAN
    BY <1>3, ActiveCall DEF SetHset, RedisInv
  <2>2. CASE call[c].first
    <3>1. call' = [call EXCEPT ![c] = [call[c] EXCEPT !.step = "expire"]]
      BY <1>0, <1>3, <2>2 DEF SetHset
    <3>2. /\ [call[c] EXCEPT !.step = "expire"].step = "expire"
          /\ [call[c] EXCEPT !.step = "expire"].key = call[c].key
      BY <2>1, ActiveCall DEF RedisInv
    <3>3. Hset(c, TRUE)
      BY <2>1, <2>2 DEF Hset
    <3> HIDE DEF LifetimeKept
    <3> QED
      BY <2>1, <3>1, <3>2, <3>3, HsetLifetime
  <2>3. CASE ~call[c].first
    <3>1. call' = [call EXCEPT ![c] = Idle]
      BY <1>3, <2>3 DEF SetHset, Finish
    <3>2. Hset(c, FALSE)
      BY <2>1, <2>3 DEF Hset
    <3> QED
      BY <2>1, <3>1, <3>2, HsetLifetime
  <2> QED
    BY <2>2, <2>3
<1>4. CASE SetExpire(c)
  <2> DEFINE ns0 == call[c].key[1]
  <2>1. call[c].step = "expire" /\ call' = [call EXCEPT ![c] = Idle]
    BY <1>4 DEF SetExpire, Finish
  <2>2. ns0 \in Namespaces /\ Lifetime \in Nat
    BY <2>1, ActiveCall, RedisAssumption DEF RedisInv
  <2>3. \/ hash[ns0] = EmptyHash /\ UNCHANGED <<hash, deadline, untimed>>
        \/ /\ hash' = [hash EXCEPT ![ns0] = EmptyHash]
           /\ deadline' = [deadline EXCEPT ![ns0] = Never]
           /\ untimed' = untimed \ {ns0}
        \/ /\ hash[ns0] # EmptyHash
           /\ deadline' = [deadline EXCEPT ![ns0] = now + Lifetime]
           /\ untimed' = untimed \ {ns0}
           /\ UNCHANGED hash
    BY <1>4 DEF SetExpire
  <2>4. now + Lifetime # Never
    BY <1>0, <2>2 DEF Never
  <2>5. ASSUME NEW ns \in Namespaces, hash'[ns] # EmptyHash, deadline'[ns] = Never
        PROVE  /\ hash[ns] # EmptyHash
               /\ deadline[ns] = Never
               /\ ns = ns0 => ns \in untimed'
               /\ ns \in untimed => ns \in untimed'
    BY <1>0, <2>2, <2>3, <2>4, <2>5
  <2> QED
    BY <2>1, <2>5, EndOfTiming
<1>5. CASE ExpireHget(c)
  <2>1. UNCHANGED <<hash, deadline, untimed>> /\ call[c].step # "expire"
    BY <1>5, <1>a DEF ExpireHget
  <2>2. UNCHANGED call \/ \E new : call' = [call EXCEPT ![c] = new]
    BY <1>5 DEF ExpireHget
  <2>3. CASE UNCHANGED call
    BY <2>1, <2>3, DropLifetime
  <2>4. CASE \E new : call' = [call EXCEPT ![c] = new]
    BY <2>1, <2>4, OtherCallLifetime
  <2> QED
    BY <2>2, <2>3, <2>4
<1>6. CASE ExpireHset(c)
  <2>1. /\ call[c].step = "write_back"
        /\ Hset(c, FALSE)
        /\ call' = [call EXCEPT ![c] = Idle]
    BY <1>6 DEF ExpireHset, Finish
  <2> QED
    BY <2>1, HsetLifetime
<1>7. CASE Del(c)
  <2>1. PICK key \in Keys :
          /\ hash' = [hash EXCEPT ![key[1]][key[2]] = NoEntry]
          /\ IF hash'[key[1]] = EmptyHash
             THEN /\ deadline' = [deadline EXCEPT ![key[1]] = Never]
                  /\ untimed' = untimed \ {key[1]}
             ELSE UNCHANGED <<deadline, untimed>>
    BY <1>7 DEF Del
  <2>2. key[1] \in Namespaces /\ key[2] \in Names /\ UNCHANGED call
    BY <1>7 DEF Del, Keys
  <2>3. hash[key[1]] = EmptyHash => hash'[key[1]] = EmptyHash
    BY <1>0, <2>1, <2>2 DEF EmptyHash
  <2>4. ASSUME NEW ns \in Namespaces, hash'[ns] # EmptyHash
        PROVE  /\ hash[ns] # EmptyHash
               /\ deadline'[ns] = deadline[ns]
               /\ ns \in untimed => ns \in untimed'
    BY <1>0, <2>1, <2>2, <2>3, <2>4
  <2> QED
    BY <2>2, <2>4, DropLifetime
<1>8. CASE Fail(c)
  <2>1. /\ call' = [call EXCEPT ![c] = Idle]
        /\ untimed' = IF call[c].step = "expire" /\ hash[call[c].key[1]] # EmptyHash
                           /\ deadline[call[c].key[1]] = Never
                      THEN untimed \cup {call[c].key[1]}
                      ELSE untimed
        /\ UNCHANGED <<hash, deadline>>
    BY <1>8 DEF Fail, Finish
  <2>2. CASE call[c].step = "expire"
    <3>1. \A ns \in Namespaces :
            hash'[ns] # EmptyHash /\ deadline'[ns] = Never =>
              /\ hash[ns] # EmptyHash
              /\ deadline[ns] = Never
              /\ ns = call[c].key[1] => ns \in untimed'
              /\ ns \in untimed => ns \in untimed'
      BY <2>1, <2>2
    <3> QED
      BY <2>1, <2>2, <3>1, EndOfTiming
  <2>3. CASE call[c].step # "expire"
    BY <2>1, <2>3, OtherCallLifetime
  <2> QED
    BY <2>2, <2>3
<1> QED
  BY <1>1, <1>2, <1>3, <1>4, <1>5, <1>6, <1>7, <1>8 DEF Step

\* A session stays without a deadline only for the reasons that LifetimeKept
\* names, whatever the clients do (redis.rs, set and expire).
THEOREM LifetimesAreKept == Spec => []LifetimeKept
<1>1. Init => LifetimeKept
  BY DEF Init, LifetimeKept
<1>2. RedisInv /\ LifetimeKept /\ [Next]_vars => LifetimeKept'
  <2> SUFFICES ASSUME RedisInv, LifetimeKept, [Next]_vars, Lifetime # Forever
               PROVE  LifetimeKept'
    BY DEF LifetimeKept
  <2>1. ASSUME NEW c \in Clients, Step(c)
        PROVE  LifetimeKept'
    BY <2>1, LifetimeStep
  <2>2. ASSUME NEW ns \in Namespaces, Ended(ns)
        PROVE  LifetimeKept'
    <3>1. /\ hash' = [hash EXCEPT ![ns] = EmptyHash]
          /\ deadline' = [deadline EXCEPT ![ns] = Never]
          /\ UNCHANGED <<call, untimed>>
      BY <2>2 DEF Ended
    <3>2. \A n \in Namespaces :
            hash'[n] # EmptyHash =>
              /\ hash[n] # EmptyHash
              /\ deadline'[n] = deadline[n]
              /\ n \in untimed => n \in untimed'
      BY <3>1 DEF RedisInv, TypeOK
    <3> QED
      BY <3>1, <3>2, DropLifetime
  <2>3. CASE Tick
    BY <2>3, DropLifetime DEF Tick
  <2>4. CASE UNCHANGED vars
    BY <2>4, DropLifetime DEF vars
  <2> QED
    BY <2>1, <2>2, <2>3, <2>4 DEF Next
<1> QED
  BY <1>1, <1>2, Invariance, PTL DEF Spec

-----------------------------------------------------------------------------
(* The store implements the map with timeouts                              *)

\* What the abstract store sees.
StoreOf == [key \in Keys |-> Stored(key)]
ReplyOf == [c \in Clients |-> IF call[c].step = "expire" THEN "ok" ELSE reply[c]]

\* Hashes that did not change, nor what the clients see of their calls.
LEMMA NothingShows ==
  ASSUME UNCHANGED <<now, hash>>, ReplyOf' = ReplyOf
  PROVE  UNCHANGED Abstract!vars
BY DEF Abstract!vars, ReplyOf, Stored

\* A client gets a reply, and sends nothing more for its call.
LEMMA ReplyShows ==
  ASSUME RedisInv, NEW c \in Clients, NEW r, Return(c, r),
         \/ UNCHANGED call /\ call[c] = Idle
         \/ call' = [call EXCEPT ![c] = Idle]
  PROVE  ReplyOf' = [ReplyOf EXCEPT ![c] = r]
<1>1. /\ call \in [Clients -> Calls] /\ DOMAIN reply = Clients
      /\ reply' = [reply EXCEPT ![c] = r]
  BY DEF RedisInv, TypeOK, Return
<1>2. call'[c] = Idle /\ \A d \in Clients \ {c} : call'[d] = call[d]
  BY <1>1
<1>3. call'[c].step # "expire"
  BY <1>2 DEF Idle
<1>4. ASSUME NEW d \in Clients
      PROVE  (IF call'[d].step = "expire" THEN "ok" ELSE reply'[d])
               = IF d = c THEN r
                 ELSE IF call[d].step = "expire" THEN "ok" ELSE reply[d]
  <2>1. CASE d = c
    BY <1>1, <1>3, <2>1
  <2>2. CASE d # c
    BY <1>1, <1>2, <2>2
  <2> QED
    BY <2>1, <2>2
<1> QED
  BY <1>4 DEF ReplyOf

\* HSET and HDEL change one entry of the map.
LEMMA EntryShows ==
  ASSUME RedisInv, NEW key \in Keys, NEW entry,
         hash' = [hash EXCEPT ![key[1]][key[2]] = entry]
  PROVE  StoreOf' = [StoreOf EXCEPT ![key] = entry]
<1>1. /\ hash \in [Namespaces -> [Names -> Datas \cup {NoEntry}]]
      /\ key[1] \in Namespaces /\ key[2] \in Names
  BY DEF RedisInv, TypeOK, Keys
<1>2. ASSUME NEW k \in Keys
      PROVE  hash'[k[1]][k[2]] = IF k = key THEN entry ELSE hash[k[1]][k[2]]
  <2>1. /\ k[1] \in Namespaces /\ k[2] \in Names
        /\ k = key <=> k[1] = key[1] /\ k[2] = key[2]
    BY DEF Keys
  <2> QED
    BY <1>1, <2>1
<1> QED
  BY <1>2 DEF StoreOf, Stored

\* The end of a hash is the end of a session.
LEMMA EndOfHash ==
  ASSUME RedisInv, NEW ns \in Namespaces,
         hash[ns] # EmptyHash, hash' = [hash EXCEPT ![ns] = EmptyHash]
  PROVE  \E k \in Keys : Abstract!SessionEnds(k[1])
<1>1. hash \in [Namespaces -> [Names -> Datas \cup {NoEntry}]]
  BY DEF RedisInv, TypeOK
<1>2. PICK name \in Names : hash[ns][name] # NoEntry
  BY <1>1 DEF EmptyHash
<1>3. <<ns, name>> \in Keys
  BY DEF Keys
<1>4. ASSUME NEW k \in Keys
      PROVE  hash'[k[1]][k[2]] = IF k[1] = ns THEN NoEntry ELSE hash[k[1]][k[2]]
  <2>1. k[1] \in Namespaces /\ k[2] \in Names
    BY DEF Keys
  <2> QED
    BY <1>1, <2>1 DEF EmptyHash
<1>5. StoreOf' = [k \in Keys |-> IF k[1] = <<ns, name>>[1] THEN NoEntry ELSE StoreOf[k]]
  BY <1>4 DEF StoreOf, Stored
<1>6. NoEntry = Abstract!NoEntry
  BY DEF NoEntry, Abstract!NoEntry
<1>7. Abstract!SessionEnds(<<ns, name>>[1])
  BY <1>5, <1>6 DEF Abstract!SessionEnds, StoreOf
<1> QED
  BY <1>3, <1>7

\* A call that fails changes nothing, or ends the session.
LEMMA FailShows ==
  ASSUME NEW c \in Clients, now' = now, ReplyOf' = [ReplyOf EXCEPT ![c] = "error"],
         \/ UNCHANGED StoreOf
         \/ Lifetime # Forever /\ \E k \in Keys : Abstract!SessionEnds(k[1])
  PROVE  Abstract!Next
<1>1. Abstract!Fail(c)
  BY DEF Abstract!Fail, Abstract!Return, StoreOf, ReplyOf
<1> QED
  BY <1>1 DEF Abstract!Next

LEMMA InitShows == Init => Abstract!Init
<1> SUFFICES ASSUME Init PROVE Abstract!Init
  OBVIOUS
<1>1. \A key \in Keys : Stored(key) = NoEntry
  BY DEF Init, EmptyHash, Stored, Keys
<1>2. \A c \in Clients : (IF call[c].step = "expire" THEN "ok" ELSE reply[c]) = "none"
  BY DEF Init, Idle
<1> QED
  BY <1>1, <1>2 DEF Init, Abstract!Init, NoEntry, Abstract!NoEntry

\* Every command is an operation of the abstract store, or does not show.
LEMMA StepShows ==
  ASSUME RedisInv, NEW c \in Clients, Step(c)
  PROVE  Abstract!Next \/ LostUpdate \/ UNCHANGED Abstract!vars
<1>0. /\ now \in Nat /\ now <= MaxTime
      /\ hash \in [Namespaces -> [Names -> Datas \cup {NoEntry}]]
      /\ call \in [Clients -> Calls]
      /\ reply \in [Clients -> Values \cup {"none", "ok", "error"}]
  BY RedisAssumption DEF RedisInv, TypeOK
<1>1. CASE Get(c)
  <2>1. PICK key \in Keys :
          Return(c, IF is_expired(Stored(key)) THEN "none" ELSE Stored(key).value)
    BY <1>1 DEF Get
  <2>2. call[c] = Idle /\ UNCHANGED <<now, hash, call>>
    BY <1>1 DEF Get
  <2> DEFINE r == IF is_expired(Stored(key)) THEN "none" ELSE Stored(key).value
  <2>3. r = IF Abstract!Visible(Stored(key)) THEN Stored(key).value ELSE "none"
    <3>1. Stored(key) \in Datas \cup {NoEntry}
      BY StoredType DEF RedisInv
    <3>2. CASE Stored(key) = NoEntry
      BY <3>2 DEF NoEntry, is_expired, Abstract!Visible, Abstract!NoEntry
    <3>3. CASE Stored(key) # NoEntry
      BY <1>0, <3>1, <3>3, RedisAssumption
         DEF NoEntry, Datas, Never, is_expired, Abstract!Visible, Abstract!NoEntry
    <3> QED
      BY <3>2, <3>3
  <2>4. ReplyOf' = [ReplyOf EXCEPT ![c] = r]
    BY <2>1, <2>2, ReplyShows
  <2>5. UNCHANGED StoreOf
    BY <2>2 DEF StoreOf, Stored
  <2>6. StoreOf[key] = Stored(key)
    BY DEF StoreOf
  <2>7. Abstract!Get(c)
    BY <2>2, <2>3, <2>4, <2>5, <2>6
       DEF Abstract!Get, Abstract!Return, Abstract!Visible, StoreOf, ReplyOf
  <2> QED
    BY <2>7 DEF Abstract!Next
<1>2. CASE SetHlen(c)
  <2>1. PICK key \in Keys, v \in Values :
          call' = [call EXCEPT ![c] =
            [step |-> "hset", key |-> key, data |-> Data(v, Never),
             first |-> hash[key[1]] = EmptyHash]]
    BY <1>2 DEF SetHlen
  <2>2. call[c] = Idle /\ UNCHANGED <<now, hash, reply>>
    BY <1>2 DEF SetHlen
  <2>3. ReplyOf' = ReplyOf
    BY <1>0, <2>1, <2>2 DEF ReplyOf, Idle
  <2> QED
    BY <2>2, <2>3, NothingShows
<1>3. CASE SetHset(c)
  <2> DEFINE key == call[c].key
  <2>1. /\ call[c].step = "hset"
        /\ hash' = [hash EXCEPT ![key[1]][key[2]] = call[c].data]
        /\ now' = now
    BY <1>3 DEF SetHset, Hset
  <2>2. key \in Keys /\ call[c].data \in Datas /\ call[c].data.expires_at = Never
    BY <2>1, ActiveCall DEF RedisInv, CallInv
  <2>3. PICK v \in Values : call[c].data = [value |-> v, expires_at |-> Never]
    BY <2>2 DEF Datas
  <2>4. StoreOf' = [StoreOf EXCEPT ![key] = call[c].data]
    BY <2>1, <2>2, EntryShows
  <2>5. \E r \in Answers : ReplyOf' = [ReplyOf EXCEPT ![c] = r]
    <3>1. CASE call[c].first /\ Lifetime # Forever
      <4>1. call' = [call EXCEPT ![c].step = "expire"] /\ UNCHANGED reply
        BY <1>3, <3>1 DEF SetHset
      <4>2. call'[c].step = "expire"
        BY <1>0, <2>1, <4>1, ActiveCall DEF RedisInv
      <4>3. \A d \in Clients \ {c} : call'[d] = call[d]
        BY <1>0, <4>1
      <4> QED
        BY <4>1, <4>2, <4>3 DEF ReplyOf, Answers
    <3>2. CASE ~(call[c].first /\ Lifetime # Forever)
      BY <1>3, <3>2, ReplyShows DEF SetHset, Finish
    <3> QED
      BY <3>1, <3>2
  <2>6. StoreOf' = [StoreOf EXCEPT ![key] = [value |-> v, expires_at |-> Never]]
    BY <2>3, <2>4
  <2>7. \E k \in Keys, w \in Values :
          StoreOf' = [StoreOf EXCEPT ![k] = [value |-> w, expires_at |-> Never]]
    <3> HIDE DEF key
    <3> QED
      BY <2>2, <2>3, <2>6
  <2>8. Abstract!Set(c)
    BY <2>1, <2>5, <2>7
       DEF Abstract!Set, Abstract!Return, Abstract!Done, Answers, StoreOf, ReplyOf
  <2> QED
    BY <2>8 DEF Abstract!Next
<1>4. CASE SetExpire(c)
  <2> DEFINE ns == call[c].key[1]
  <2>1. PICK r \in Answers : call' = [call EXCEPT ![c] = Idle] /\ Return(c, r)
    BY <1>4 DEF SetExpire, Finish
  <2>2. call[c].step = "expire" /\ now' = now
    BY <1>4 DEF SetExpire
  <2>3. ReplyOf' = [ReplyOf EXCEPT ![c] = r]
    BY <2>1, ReplyShows
  <2>4. r = "ok" => ReplyOf' = ReplyOf
    BY <2>2, <2>3 DEF ReplyOf
  <2>5. r = "error" \/ r = "ok"
    BY DEF Answers
  <2>6. \/ UNCHANGED hash
        \/ hash[ns] # EmptyHash /\ hash' = [hash EXCEPT ![ns] = EmptyHash]
    BY <1>4 DEF SetExpire
  <2>7. CASE UNCHANGED hash
    <3>1. CASE r = "ok"
      BY <2>2, <2>4, <2>7, <3>1, NothingShows
    <3>2. CASE r = "error"
      BY <2>2, <2>3, <2>7, <3>2, FailShows DEF StoreOf, Stored
    <3> QED
      BY <2>5, <3>1, <3>2
  <2>8. CASE hash[ns] # EmptyHash /\ hash' = [hash EXCEPT ![ns] = EmptyHash]
    <3>1. ns \in Namespaces /\ Lifetime # Forever
      BY <2>2, ActiveCall DEF RedisInv, CallInv
    <3>2. \E k \in Keys : Abstract!SessionEnds(k[1])
      BY <2>8, <3>1, EndOfHash
    <3>3. CASE r = "ok"
      BY <2>2, <2>4, <3>1, <3>2, <3>3
         DEF Abstract!Next, Abstract!EndSession, ReplyOf
    <3>4. CASE r = "error"
      BY <2>2, <2>3, <3>1, <3>2, <3>4, FailShows
    <3> QED
      BY <2>5, <3>3, <3>4
  <2> QED
    BY <2>6, <2>7, <2>8
<1>5. CASE ExpireHget(c)
  <2>1. call[c] = Idle /\ UNCHANGED <<now, hash>>
    BY <1>5 DEF ExpireHget
  <2>2. PICK key \in Keys, s \in Seconds :
          \/ /\ Stored(key) = NoEntry
             /\ Return(c, "ok")
             /\ UNCHANGED call
          \/ /\ call' = [call EXCEPT ![c] =
                  [step |-> "write_back", key |-> key,
                   data |-> set_lifetime(Stored(key), s), first |-> FALSE]]
             /\ UNCHANGED reply
    BY <1>5 DEF ExpireHget
  <2>3. CASE Stored(key) = NoEntry /\ Return(c, "ok") /\ UNCHANGED call
    <3>1. ReplyOf' = [ReplyOf EXCEPT ![c] = "ok"]
      BY <2>1, <2>3, ReplyShows
    <3>2. StoreOf[key] = Abstract!NoEntry /\ UNCHANGED StoreOf
      BY <2>1, <2>3 DEF StoreOf, Stored, NoEntry, Abstract!NoEntry
    <3>3. Abstract!Expire(c)
      BY <2>1, <3>1, <3>2
         DEF Abstract!Expire, Abstract!Return, Abstract!NoEntry, StoreOf, ReplyOf
    <3> QED
      BY <3>3 DEF Abstract!Next
  <2>4. CASE /\ call' = [call EXCEPT ![c] =
                  [step |-> "write_back", key |-> key,
                   data |-> set_lifetime(Stored(key), s), first |-> FALSE]]
             /\ UNCHANGED reply
    <3>1. ReplyOf' = ReplyOf
      BY <1>0, <2>1, <2>4 DEF ReplyOf, Idle
    <3> QED
      BY <2>1, <3>1, NothingShows
  <2> QED
    BY <2>2, <2>3, <2>4
<1>6. CASE ExpireHset(c)
  <2> DEFINE key == call[c].key
             data == call[c].data
  <2>1. /\ call[c].step = "write_back" /\ now' = now
        /\ hash' = [hash EXCEPT ![key[1]][key[2]] = data]
        /\ call' = [call EXCEPT ![c] = Idle]
        /\ \E a \in Answers : Return(c, a)
    BY <1>6 DEF ExpireHset, Hset, Finish
  <2>2. CASE Stored(key).value # data.value
    BY <1>6, <2>2 DEF LostUpdate
  <2>3. CASE Stored(key).value = data.value
    <3>1. key \in Keys /\ data \in Datas
      BY <2>1, ActiveCall DEF RedisInv
    <3>2. PICK t \in 0 .. now, s \in Seconds : data.expires_at = t + s
      BY <2>1 DEF RedisInv, CallInv
    <3>3. Stored(key) \in Datas \cup {NoEntry}
      BY <3>1, StoredType DEF RedisInv
    <3>4. Stored(key) \in Datas /\ Stored(key) # NoEntry
      BY <2>3, <3>1, <3>3, RedisAssumption DEF NoEntry, Datas
    <3>5. data = [Stored(key) EXCEPT !.expires_at = data.expires_at]
      BY <2>3, <3>1, <3>4 DEF Datas
    <3>6. /\ now - t \in 0 .. MaxTime
          /\ data.expires_at = now - (now - t) + s
      BY <1>0, <3>2, RedisAssumption
    <3>7. StoreOf' = [StoreOf EXCEPT ![key] = data] /\ StoreOf[key] = Stored(key)
      BY <2>1, <3>1, EntryShows DEF StoreOf
    <3>8. StoreOf' = [StoreOf EXCEPT ![key].expires_at = now - (now - t) + s]
      BY <3>5, <3>6, <3>7
    <3>9. \E a \in Answers : ReplyOf' = [ReplyOf EXCEPT ![c] = a]
      BY <2>1, ReplyShows
    <3>10. StoreOf[key] # Abstract!NoEntry
      BY <3>4, <3>7 DEF NoEntry, Abstract!NoEntry
    <3>11. \E k \in Keys, r \in Seconds :
             /\ StoreOf[k] # Abstract!NoEntry
             /\ \E d \in 0 .. MaxTime :
                  StoreOf' = [StoreOf EXCEPT ![k].expires_at = now - d + r]
      <4> DEFINE waited == now - t
      <4>1. /\ waited \in 0 .. MaxTime
            /\ StoreOf' = [StoreOf EXCEPT ![key].expires_at = now - waited + s]
        BY <3>6, <3>8
      <4> HIDE DEF key, waited
      <4>2. \E d \in 0 .. MaxTime :
              StoreOf' = [StoreOf EXCEPT ![key].expires_at = now - d + s]
        BY <4>1
      <4> QED
        BY <3>1, <3>2, <3>10, <4>2
    <3>12. Abstract!Expire(c)
      BY <2>1, <3>9, <3>11
         DEF Abstract!Expire, Abstract!Return, Abstract!Done, Abstract!NoEntry,
             Answers, StoreOf, ReplyOf
    <3> QED
      BY <3>12 DEF Abstract!Next
  <2> QED
    BY <2>2, <2>3
<1>7. CASE Del(c)
  <2>1. PICK key \in Keys : hash' = [hash EXCEPT ![key[1]][key[2]] = NoEntry]
    BY <1>7 DEF Del
  <2>2. /\ call[c] = Idle /\ UNCHANGED <<now, call>>
        /\ \E r \in Answers : Return(c, r)
    BY <1>7 DEF Del
  <2>3. StoreOf' = [StoreOf EXCEPT ![key] = Abstract!NoEntry]
    BY <2>1, EntryShows DEF NoEntry, Abstract!NoEntry
  <2>4. \E r \in Answers : ReplyOf' = [ReplyOf EXCEPT ![c] = r]
    BY <2>2, ReplyShows
  <2>5. Abstract!Del(c)
    BY <2>2, <2>3, <2>4
       DEF Abstract!Del, Abstract!Return, Abstract!Done, Abstract!NoEntry, Answers,
           StoreOf, ReplyOf
  <2> QED
    BY <2>5 DEF Abstract!Next
<1>8. CASE Fail(c)
  <2>1. /\ call' = [call EXCEPT ![c] = Idle] /\ Return(c, "error")
        /\ UNCHANGED <<now, hash>>
    BY <1>8 DEF Fail, Finish
  <2>2. ReplyOf' = [ReplyOf EXCEPT ![c] = "error"]
    BY <2>1, ReplyShows
  <2> QED
    BY <2>1, <2>2, FailShows DEF StoreOf, Stored
<1> QED
  BY <1>1, <1>2, <1>3, <1>4, <1>5, <1>6, <1>7, <1>8 DEF Step

\* The Redis store implements the map with timeouts of SessionStore, but for
\* the write-back of expire(), for any clients, keys and lifetime (redis.rs).
THEOREM Refinement == Spec => ImplementsStore
<1>1. RedisInv /\ [Next]_vars =>
        [Abstract!Next \/ LostUpdate]_Abstract!vars
  <2> SUFFICES ASSUME RedisInv, [Next]_vars
               PROVE  Abstract!Next \/ LostUpdate \/ UNCHANGED Abstract!vars
    OBVIOUS
  <2>1. ASSUME NEW c \in Clients, Step(c)
        PROVE  Abstract!Next \/ LostUpdate \/ UNCHANGED Abstract!vars
    BY <2>1, StepShows
  <2>2. ASSUME NEW ns \in Namespaces, Ended(ns)
        PROVE  Abstract!Next
    <3>1. /\ deadline[ns] # Never
          /\ hash' = [hash EXCEPT ![ns] = EmptyHash]
          /\ UNCHANGED <<now, call, reply>>
      BY <2>2 DEF Ended
    <3>2. Lifetime # Forever /\ hash[ns] # EmptyHash
      BY <3>1 DEF RedisInv, DeadlineInv
    <3>3. Abstract!EndSession
      BY <3>1, <3>2, EndOfHash DEF Abstract!EndSession
    <3> QED
      BY <3>3 DEF Abstract!Next
  <2>3. CASE Tick
    <3>1. now' = now + 1 /\ UNCHANGED <<hash, call, reply>>
      BY <2>3 DEF Tick
    <3>2. Abstract!Tick
      BY <3>1 DEF Abstract!Tick, Stored
    <3> QED
      BY <3>2 DEF Abstract!Next
  <2>4. CASE UNCHANGED vars
    BY <2>4, NothingShows DEF vars, ReplyOf
  <2> QED
    BY <2>1, <2>2, <2>3, <2>4 DEF Next
<1> QED
  BY <1>1, InitShows, Invariance, PTL DEF Spec, ImplementsStore
=============================================================================
