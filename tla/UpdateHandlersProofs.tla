------------------------- MODULE UpdateHandlersProofs -------------------------
(***************************************************************************)
(* Proofs about UpdateHandlers, for any updates, rules, limits and         *)
(* handlers: sessions and budgets of different people are apart, only      *)
(* polls and negative lengths make a handler panic, and what is left of a  *)
(* text after its command can be read again.                               *)
(***************************************************************************)
EXTENDS UpdateHandlers, SequenceTheorems, FiniteSetTheorems, WellFoundedInduction,
        TLAPS

USE DEF Unparsed

Parsed(b) == {r \in b.updates : UpdateParses(r)}

\* A session in the Context is that of the update under way.
ContextInv ==
  /\ context = [session |-> context.session, translator |-> context.translator]
  /\ stage \in Unparsed => context = NoContext
  /\ stage = "i18n" => context.session # {}
  /\ stage \in {"commands", "text"} =>
       context.session # {} /\ context.translator # {}
  /\ \A namespace \in context.session :
       \E ids \in SessionIds(update) : namespace = Namespace(ids)

\* Whoever used a budget had an update with its key.
BudgetInv ==
  /\ \A key \in DOMAIN used : used[key] \in 1 .. Capacity
  /\ \A s \in spenders :
       /\ s[1] \in DOMAIN used
       /\ \E r \in Parsed(bot) : s[1] \in get_key(Update(r)) /\ s[2] = Who(Update(r))

HandlersInv ==
  /\ bot \in Bots
  /\ raw \in bot.updates \cup {NoUpdate}
  /\ stage \in Ends \cup {"access", "limit", "session", "i18n", "commands", "text"}
  /\ stage # "idle" => raw \in bot.updates
  /\ stage \notin Unparsed => UpdateParses(raw)
  /\ ContextInv
  /\ BudgetInv

\* The keys of an update depend on the configuration only.
LEMMA KeysStay ==
  ASSUME bot' = bot, NEW u PROVE get_key(u)' = get_key(u)
<1>1. ListKey(u)' = ListKey(u)
  BY DEF ListKey
<1> QED
  BY <1>1 DEF get_key

LEMMA BudgetStays ==
  ASSUME BudgetInv, UNCHANGED <<bot, used, spenders>> PROVE BudgetInv'
<1>1. ASSUME NEW s \in spenders'
      PROVE  \E r \in Parsed(bot)' : s[1] \in get_key(Update(r))' /\ s[2] = Who(Update(r))
  BY KeysStay DEF BudgetInv, Parsed
<1> QED
  BY <1>1 DEF BudgetInv

LEMMA InitInv == Init => HandlersInv
BY DEF Init, HandlersInv, ContextInv, BudgetInv, NoContext, Ends

\* A handler that leaves Context and budgets as they are.
LEMMA StageMoves ==
  ASSUME HandlersInv, stage \notin Unparsed,
         UNCHANGED <<bot, raw, context, used, spenders>>,
         \/ stage' \in Ends \ Unparsed
         \/ stage' \in {"limit", "session"}
         \/ stage' = "text" /\ stage = "commands"
  PROVE  HandlersInv'
BY BudgetStays DEF HandlersInv, ContextInv, Ends, update

LEMMA LimitInv ==
  ASSUME HandlersInv, Limit PROVE HandlersInv'
<1>1. /\ stage = "limit" /\ UNCHANGED <<bot, raw, context, called>>
      /\ raw \in Parsed(bot)
  BY DEF Limit, HandlersInv, Parsed
<1>2. ASSUME UNCHANGED <<used, spenders>>, stage' \in {"session", "stopped"}
      PROVE  HandlersInv'
  BY <1>1, <1>2, StageMoves DEF Ends
<1>3. ASSUME NEW key \in get_key(update), Check(key), stage' = "session",
             Uses(key) < Capacity, used' = Used(key),
             spenders' = spenders \cup {<<key, Who(update)>>}
      PROVE  HandlersInv'
  <2>1. /\ DOMAIN used' = DOMAIN used \cup {key}
        /\ used'[key] = Uses(key) + 1
        /\ \A k \in DOMAIN used \ {key} : used'[k] = used[k]
    BY <1>3 DEF Used
  <2>2. Uses(key) \in 0 .. Capacity - 1
    BY <1>3, HandlersAssumption DEF Uses, HandlersInv, BudgetInv
  <2>3. \A k \in DOMAIN used' : used'[k] \in 1 .. Capacity
    BY <2>1, <2>2, HandlersAssumption DEF HandlersInv, BudgetInv
  <2>4. ASSUME NEW s \in spenders'
        PROVE  /\ s[1] \in DOMAIN used'
               /\ \E r \in Parsed(bot) :
                    s[1] \in get_key(Update(r)) /\ s[2] = Who(Update(r))
    <3>1. CASE s = <<key, Who(update)>>
      BY <1>1, <1>3, <2>1, <3>1 DEF update
    <3>2. CASE s \in spenders
      BY <2>1, <3>2 DEF HandlersInv, BudgetInv
    <3> QED
      BY <1>3, <3>1, <3>2
  <2>5. BudgetInv'
    BY <1>1, <2>3, <2>4, KeysStay DEF BudgetInv, Parsed
  <2> QED
    BY <1>1, <1>3, <2>5 DEF HandlersInv, ContextInv, update
<1> QED
  BY <1>2, <1>3 DEF Limit, Check

LEMMA NextInv == HandlersInv /\ [Next]_vars => HandlersInv'
<1> SUFFICES ASSUME HandlersInv, [Next]_vars PROVE HandlersInv'
  OBVIOUS
<1>1. CASE Receive
  <2>1. /\ stage = "idle" /\ raw' \in bot.updates /\ context = NoContext
        /\ UNCHANGED <<bot, context, used, spenders>>
    BY <1>1 DEF Receive, HandlersInv, ContextInv
  <2>2. /\ stage' \in {"access", "rejected"}
        /\ stage' = "access" => UpdateParses(raw')
    BY <1>1 DEF Receive
  <2>3. ContextInv'
    BY <2>1, <2>2 DEF ContextInv, NoContext
  <2>4. BudgetInv'
    BY <2>1, BudgetStays DEF HandlersInv
  <2> QED
    BY <2>1, <2>2, <2>3, <2>4 DEF HandlersInv, Ends
<1>10. CASE ReceivePanics
  <2>1. /\ stage = "idle" /\ raw' \in bot.updates /\ context = NoContext
        /\ stage' = "parse_panicked"
        /\ UNCHANGED <<bot, context, used, spenders>>
    BY <1>10 DEF ReceivePanics, HandlersInv, ContextInv, Unparsed
  <2>2. ContextInv'
    BY <2>1 DEF ContextInv, NoContext
  <2>3. BudgetInv'
    BY <2>1, BudgetStays DEF HandlersInv
  <2> QED
    BY <2>1, <2>2, <2>3 DEF HandlersInv, Ends, Unparsed
<1>2. CASE Access \/ SessionPanics \/ CommandNotSent \/ CommandPanics \/ Commands
  <2>1. /\ stage \in {"access", "session", "commands"}
        /\ UNCHANGED <<bot, raw, context, used, spenders>>
        /\ \/ stage' \in {"limit", "stopped", "panicked", "failed_utf16",
                          "failed_quotes", "handled"}
           \/ stage' = "text" /\ stage = "commands"
    BY <1>2 DEF Access, SessionPanics, CommandNotSent, CommandPanics, Commands
  <2> QED
    BY <2>1, StageMoves DEF Ends
<1>3. CASE TextHandler
  <2>1. /\ stage = "text" /\ stage' \in {"handled", "ignored"}
        /\ UNCHANGED <<bot, raw, context, used, spenders>>
    BY <1>3 DEF TextHandler
  <2> QED
    BY <2>1, StageMoves DEF Ends
<1>4. CASE Limit
  BY <1>4, LimitInv
<1>5. CASE Quiet
  BY <1>5 DEF Quiet, HandlersInv, ContextInv, BudgetInv, update
<1>6. CASE Session
  <2>1. PICK ids \in SessionIds(update) :
          context' = [context EXCEPT !.session = {Namespace(ids)}]
    BY <1>6 DEF Session
  <2>2. /\ stage = "session" /\ stage' = "i18n"
        /\ UNCHANGED <<bot, raw, used, spenders>>
    BY <1>6 DEF Session
  <2>3. /\ context'.session = {Namespace(ids)}
        /\ context' = [session |-> context'.session, translator |-> context'.translator]
    BY <2>1 DEF HandlersInv, ContextInv
  <2>4. ContextInv'
    BY <2>2, <2>3 DEF ContextInv, update
  <2>5. BudgetInv'
    BY <2>2, BudgetStays DEF HandlersInv
  <2> QED
    BY <2>2, <2>4, <2>5 DEF HandlersInv
<1>7. CASE I18n
  <2> DEFINE found == resolve(update) \cap bot.translators
             translator == IF found # {} THEN found ELSE {bot.default_translator}
  <2>1. /\ stage = "i18n" /\ stage' = "commands"
        /\ context' = [context EXCEPT !.translator = translator]
        /\ UNCHANGED <<bot, raw, used, spenders>>
    BY <1>7 DEF I18n
  <2>2. translator # {}
    OBVIOUS
  <2> HIDE DEF translator
  <2>3. /\ context'.session = context.session /\ context'.translator = translator
        /\ context' = [session |-> context'.session, translator |-> context'.translator]
    BY <2>1 DEF HandlersInv, ContextInv
  <2>4. ContextInv'
    BY <2>1, <2>2, <2>3 DEF HandlersInv, ContextInv, update
  <2>5. BudgetInv'
    BY <2>1, BudgetStays DEF HandlersInv
  <2> QED
    BY <2>1, <2>4, <2>5 DEF HandlersInv
<1>8. CASE Finish
  <2>1. BudgetInv'
    BY <1>8, BudgetStays DEF Finish, HandlersInv
  <2>2. ContextInv'
    BY <1>8 DEF Finish, ContextInv, NoContext
  <2> QED
    BY <1>8, <2>1, <2>2 DEF Finish, HandlersInv, Ends
<1>9. CASE UNCHANGED vars
  BY <1>9, BudgetStays DEF vars, HandlersInv, ContextInv, update
<1> QED
  BY <1>1, <1>2, <1>3, <1>4, <1>5, <1>6, <1>7, <1>8, <1>9, <1>10
  DEF Next

-----------------------------------------------------------------------------
(* Names of sessions                                                       *)

Tokens == {Dash} \cup {Digits(n) : n \in Int}

\* Where the parts of a name are.
LEMMA Joined ==
  ASSUME NEW S, NEW s \in Seq(S), NEW t \in Seq(S), NEW d \in S
  PROVE  /\ Len(s \o <<d>> \o t) = Len(s) + Len(t) + 1
         /\ \A i \in 1 .. Len(s) : (s \o <<d>> \o t)[i] = s[i]
         /\ \A i \in 1 .. Len(t) : (s \o <<d>> \o t)[Len(s) + 1 + i] = t[i]
<1>1. Len(s \o <<d>> \o t) = Len(s) + Len(t) + 1
  OBVIOUS
<1>2. ASSUME NEW i \in 1 .. Len(s) PROVE (s \o <<d>> \o t)[i] = s[i]
  OBVIOUS
<1>3. ASSUME NEW i \in 1 .. Len(t) PROVE (s \o <<d>> \o t)[Len(s) + 1 + i] = t[i]
  OBVIOUS
<1> QED
  BY <1>1, <1>2, <1>3

\* The same for numbers with and without a sign.
Shape(name, s, t) ==
  /\ Len(s) = 1 /\ Len(t) = 1 =>
       Len(name) = 3 /\ name[1] = s[1] /\ name[3] = t[1]
  /\ Len(s) = 1 /\ Len(t) = 2 =>
       Len(name) = 4 /\ name[1] = s[1] /\ name[3] = t[1] /\ name[4] = t[2]
  /\ Len(s) = 2 /\ Len(t) = 1 =>
       Len(name) = 4 /\ name[1] = s[1] /\ name[2] = s[2] /\ name[4] = t[1]
  /\ Len(s) = 2 /\ Len(t) = 2 =>
       /\ Len(name) = 5 /\ name[1] = s[1] /\ name[2] = s[2]
       /\ name[4] = t[1] /\ name[5] = t[2]

LEMMA JoinedShape ==
  ASSUME NEW s \in Seq(Tokens), NEW t \in Seq(Tokens), NEW name,
         name = s \o <<Dash>> \o t
  PROVE  Shape(name, s, t)
<1>1. Dash \in Tokens
  BY DEF Tokens
<1> HIDE DEF Tokens
<1>2. /\ Len(s \o <<Dash>> \o t) = Len(s) + Len(t) + 1
      /\ \A i \in 1 .. Len(s) : (s \o <<Dash>> \o t)[i] = s[i]
      /\ \A i \in 1 .. Len(t) : (s \o <<Dash>> \o t)[Len(s) + 1 + i] = t[i]
  BY <1>1, Joined
<1>3. /\ Len(name) = Len(s) + Len(t) + 1
      /\ \A i \in 1 .. Len(s) : name[i] = s[i]
      /\ \A i \in 1 .. Len(t) : name[Len(s) + 1 + i] = t[i]
  BY <1>2, Zenon
<1>4. PICK l, k : l = Len(s) /\ k = Len(t)
  OBVIOUS
<1>5. /\ Len(name) = l + k + 1
      /\ \A i \in 1 .. l : name[i] = s[i]
      /\ \A i \in 1 .. k : name[l + 1 + i] = t[i]
  BY <1>3, <1>4, Zenon
<1>6. ASSUME l = 1, k = 1
      PROVE  /\ Len(name) = 3
             /\ name[1] = s[1]
             /\ name[3] = t[1]
  <2>1. Len(name) = 3
    BY <1>5, <1>6
  <2>2. name[1] = s[1]
    <3>1. 1 \in 1 .. 1
      OBVIOUS
    <3> QED
      BY <1>5, <1>6, <3>1, Zenon
  <2>3. name[3] = t[1]
    <3>1. 1 \in 1 .. 1 /\ 1 + 1 + 1 = 3
      OBVIOUS
    <3> QED
      BY <1>5, <1>6, <3>1, Zenon
  <2> QED
    BY <2>1, <2>2, <2>3
<1>7. ASSUME l = 1, k = 2
      PROVE  /\ Len(name) = 4
             /\ name[1] = s[1]
             /\ name[3] = t[1]
             /\ name[4] = t[2]
  <2>1. Len(name) = 4
    BY <1>5, <1>7
  <2>2. name[1] = s[1]
    <3>1. 1 \in 1 .. 1
      OBVIOUS
    <3> QED
      BY <1>5, <1>7, <3>1, Zenon
  <2>3. name[3] = t[1]
    <3>1. 1 \in 1 .. 2 /\ 1 + 1 + 1 = 3
      OBVIOUS
    <3> QED
      BY <1>5, <1>7, <3>1, Zenon
  <2>4. name[4] = t[2]
    <3>1. 2 \in 1 .. 2 /\ 1 + 1 + 2 = 4
      OBVIOUS
    <3> QED
      BY <1>5, <1>7, <3>1, Zenon
  <2> QED
    BY <2>1, <2>2, <2>3, <2>4
<1>8. ASSUME l = 2, k = 1
      PROVE  /\ Len(name) = 4
             /\ name[1] = s[1]
             /\ name[2] = s[2]
             /\ name[4] = t[1]
  <2>1. Len(name) = 4
    BY <1>5, <1>8
  <2>2. name[1] = s[1]
    <3>1. 1 \in 1 .. 2
      OBVIOUS
    <3> QED
      BY <1>5, <1>8, <3>1, Zenon
  <2>3. name[2] = s[2]
    <3>1. 2 \in 1 .. 2
      OBVIOUS
    <3> QED
      BY <1>5, <1>8, <3>1, Zenon
  <2>4. name[4] = t[1]
    <3>1. 1 \in 1 .. 1 /\ 2 + 1 + 1 = 4
      OBVIOUS
    <3> QED
      BY <1>5, <1>8, <3>1, Zenon
  <2> QED
    BY <2>1, <2>2, <2>3, <2>4
<1>9. ASSUME l = 2, k = 2
      PROVE  /\ Len(name) = 5
             /\ name[1] = s[1]
             /\ name[2] = s[2]
             /\ name[4] = t[1]
             /\ name[5] = t[2]
  <2>1. Len(name) = 5
    BY <1>5, <1>9
  <2>2. name[1] = s[1]
    <3>1. 1 \in 1 .. 2
      OBVIOUS
    <3> QED
      BY <1>5, <1>9, <3>1, Zenon
  <2>3. name[2] = s[2]
    <3>1. 2 \in 1 .. 2
      OBVIOUS
    <3> QED
      BY <1>5, <1>9, <3>1, Zenon
  <2>4. name[4] = t[1]
    <3>1. 1 \in 1 .. 2 /\ 2 + 1 + 1 = 4
      OBVIOUS
    <3> QED
      BY <1>5, <1>9, <3>1, Zenon
  <2>5. name[5] = t[2]
    <3>1. 2 \in 1 .. 2 /\ 2 + 1 + 2 = 5
      OBVIOUS
    <3> QED
      BY <1>5, <1>9, <3>1, Zenon
  <2> QED
    BY <2>1, <2>2, <2>3, <2>4, <2>5
<1> QED
  BY <1>4, <1>6, <1>7, <1>8, <1>9, Zenon DEF Shape

LEMMA DecimalShape ==
  ASSUME NEW n \in Int
  PROVE  /\ Decimal(n) \in Seq(Tokens)
         /\ n < 0 => Len(Decimal(n)) = 2 /\ Decimal(n)[1] = Dash /\ Decimal(n)[2] = Digits(-n)
         /\ ~(n < 0) => Len(Decimal(n)) = 1 /\ Decimal(n)[1] = Digits(n)
<1>1. Dash \in Tokens /\ Digits(n) \in Tokens /\ Digits(-n) \in Tokens
  BY DEF Tokens
<1> QED
  BY <1>1 DEF Decimal

\* The four shapes of a name, by the signs of its ids.
LEMMA NamespaceShape ==
  ASSUME NEW n \in Int, NEW m \in Int, NEW name, name = Namespace(<<n, m>>)
  PROVE  /\ n < 0 /\ m < 0 =>
              /\ Len(name) = 5 /\ name[1] = Dash /\ name[2] = Digits(-n)
              /\ name[4] = Dash /\ name[5] = Digits(-m)
         /\ n < 0 /\ ~(m < 0) =>
              /\ Len(name) = 4 /\ name[1] = Dash /\ name[2] = Digits(-n)
              /\ name[4] = Digits(m)
         /\ ~(n < 0) /\ m < 0 =>
              /\ Len(name) = 4 /\ name[1] = Digits(n)
              /\ name[3] = Dash /\ name[4] = Digits(-m)
         /\ ~(n < 0) /\ ~(m < 0) =>
              /\ Len(name) = 3 /\ name[1] = Digits(n) /\ name[3] = Digits(m)
<1>1. PICK front, back : front = Decimal(n) /\ back = Decimal(m)
  OBVIOUS
<1>2. /\ Dash \in Tokens
      /\ front \in Seq(Tokens) /\ back \in Seq(Tokens)
      /\ name = front \o <<Dash>> \o back
  BY <1>1, DecimalShape DEF Tokens, Namespace
<1>3. /\ n < 0 => Len(front) = 2 /\ front[1] = Dash /\ front[2] = Digits(-n)
      /\ ~(n < 0) => Len(front) = 1 /\ front[1] = Digits(n)
      /\ m < 0 => Len(back) = 2 /\ back[1] = Dash /\ back[2] = Digits(-m)
      /\ ~(m < 0) => Len(back) = 1 /\ back[1] = Digits(m)
  BY <1>1, DecimalShape
<1>4. Shape(name, front, back)
  BY <1>2, JoinedShape, Zenon
<1>5. CASE n < 0 /\ m < 0
  <2>1. Len(front) = 2 /\ Len(back) = 2
    BY <1>3, <1>5
  <2>2. /\ Len(name) = 5 /\ name[1] = front[1] /\ name[2] = front[2]
        /\ name[4] = back[1] /\ name[5] = back[2]
    BY <1>4, <2>1 DEF Shape
  <2> QED
    BY <1>3, <1>5, <2>2
<1>6. CASE n < 0 /\ ~(m < 0)
  <2>1. Len(front) = 2 /\ Len(back) = 1
    BY <1>3, <1>6
  <2>2. /\ Len(name) = 4 /\ name[1] = front[1] /\ name[2] = front[2]
        /\ name[4] = back[1]
    BY <1>4, <2>1 DEF Shape
  <2> QED
    BY <1>3, <1>6, <2>2
<1>7. CASE ~(n < 0) /\ m < 0
  <2>1. Len(front) = 1 /\ Len(back) = 2
    BY <1>3, <1>7
  <2>2. /\ Len(name) = 4 /\ name[1] = front[1]
        /\ name[3] = back[1] /\ name[4] = back[2]
    BY <1>4, <2>1 DEF Shape
  <2> QED
    BY <1>3, <1>7, <2>2
<1>8. CASE ~(n < 0) /\ ~(m < 0)
  <2>1. Len(front) = 1 /\ Len(back) = 1
    BY <1>3, <1>8
  <2>2. Len(name) = 3 /\ name[1] = front[1] /\ name[3] = back[1]
    BY <1>4, <2>1 DEF Shape
  <2> QED
    BY <1>3, <1>8, <2>2
<1> QED
  BY <1>5, <1>6, <1>7, <1>8

LEMMA TokensDiffer ==
  ASSUME NEW n \in Int, NEW m \in Int
  PROVE  Dash # Digits(n) /\ (Digits(n) = Digits(m) => n = m)
BY DEF Dash, Digits

\* A name belongs to one pair of ids only.
LEMMA NamesDiffer ==
  ASSUME NEW n \in Int, NEW m \in Int, NEW p \in Int, NEW q \in Int,
         Namespace(<<n, m>>) = Namespace(<<p, q>>)
  PROVE  n = p /\ m = q
<1>1. Dash # Digits(n) /\ Dash # Digits(-n) /\ Dash # Digits(p) /\ Dash # Digits(-p)
  BY TokensDiffer
<1>2. /\ Digits(n) = Digits(p) => n = p
      /\ Digits(-n) = Digits(-p) => -n = -p
      /\ Digits(m) = Digits(q) => m = q
      /\ Digits(-m) = Digits(-q) => -m = -q
  BY TokensDiffer
<1>3. Dash # Digits(m) /\ Dash # Digits(-m) /\ Dash # Digits(q) /\ Dash # Digits(-q)
  BY TokensDiffer
<1>4. CASE n < 0 /\ m < 0
  BY <1>1, <1>2, <1>3, <1>4, NamespaceShape
<1>5. CASE n < 0 /\ ~(m < 0)
  BY <1>1, <1>2, <1>3, <1>5, NamespaceShape
<1>6. CASE ~(n < 0) /\ m < 0
  BY <1>1, <1>2, <1>3, <1>6, NamespaceShape
<1>7. CASE ~(n < 0) /\ ~(m < 0)
  BY <1>1, <1>2, <1>3, <1>7, NamespaceShape
<1> QED
  BY <1>4, <1>5, <1>6, <1>7

-----------------------------------------------------------------------------
(* Parsing                                                                 *)

LEMMA LeastOne ==
  ASSUME NEW I \in SUBSET Nat, I # {}
  PROVE  Min(I) \in I /\ \A j \in I : Min(I) <= j
<1>1. PICK R : R = {ss \in Nat \X Nat : ss[1] < ss[2]}
  OBVIOUS
<1>2. R = OpToRel(<, Nat)
  BY <1>1 DEF OpToRel
<1>3. IsWellFoundedOn(R, Nat)
  BY <1>2, NatLessThanWellFounded
<1>4. PICK x \in I : \A y \in I : ~ (<<y, x>> \in R)
  BY <1>3, WFMin
<1>5. ASSUME NEW y \in I PROVE x <= y
  <2>1. x \in Nat /\ y \in Nat
    OBVIOUS
  <2>2. y < x => <<y, x>> \in R
    BY <1>1, <2>1
  <2> QED
    BY <1>4, <2>1, <2>2
<1> QED
  BY <1>5 DEF Min

\* The fields that are chosen are there.
LEMMA KindIsThere ==
  ASSUME NEW r, UpdateParses(r)
  PROVE  UpdateKind(r) \in ToSet(UpdateFields) /\ Has(r, UpdateKind(r))
<1> DEFINE I == {i \in 1 .. Len(UpdateFields) : Has(r, UpdateFields[i])}
<1>1. DOMAIN UpdateFields = 1 .. Len(UpdateFields)
  BY DEF UpdateFields
<1>2. I # {} /\ I \in SUBSET Nat
  BY <1>1 DEF ToSet, UpdateParses
<1>3. Min(I) \in I
  BY <1>2, LeastOne
<1>4. UpdateKind(r) = UpdateFields[Min(I)]
  BY <1>2 DEF UpdateKind, SelectInSeq
<1> QED
  BY <1>1, <1>3, <1>4 DEF ToSet

LEMMA DataIsThere ==
  ASSUME NEW m, HasData(m)
  PROVE  Has(m, Data(m))
<1> DEFINE I == {i \in 1 .. Len(DataFields) : Present(m, DataFields[i])}
<1>1. DOMAIN DataFields = 1 .. Len(DataFields)
  BY DEF DataFields
<1>2. I # {} /\ I \in SUBSET Nat
  BY <1>1 DEF HasData
<1>3. Min(I) \in I
  BY <1>2, LeastOne
<1>4. Data(m) = DataFields[Min(I)]
  BY <1>2 DEF Data, SelectInSeq
<1> QED
  BY <1>3, <1>4 DEF Present

\* Only a poll comes without a chat and without a user.
LEMMA OnlyPollsNameNobody ==
  ASSUME NEW r, UpdateParses(r), SessionIds(Update(r)) = {}
  PROVE  Update(r).kind = "poll"
<1> DEFINE kind == UpdateKind(r)
           u == Update(r)
<1>1. kind \in ToSet(UpdateFields) /\ Has(r, kind)
  BY KindIsThere
<1>2. BodyParses(kind, r[kind])
  BY <1>1 DEF UpdateParses, Has
<1>3. /\ u.kind = kind
      /\ u.message = IF kind \in MessageFields THEN {Message(r[kind])} ELSE {}
      /\ u.from = IF kind \in MessageFields THEN {} ELSE Option(r[kind], "from")
  BY DEF Update
<1> HIDE DEF u, kind
<1>4. get_chat_id(u) = {} /\ UserIds(u) = {}
  <2>1. \A n \in get_chat_id(u) : \E m : <<n, m>> \in SessionIds(u)
    BY DEF SessionIds
  <2>2. \A n \in UserIds(u) : \E m : <<m, n>> \in SessionIds(u)
    BY DEF SessionIds
  <2> QED
    BY <2>1, <2>2 DEF u
<1>5. u.message = {} /\ u.from = {}
  BY <1>4 DEF get_chat_id, UserIds, get_user
<1>6. kind \notin MessageFields /\ ~ Has(r[kind], "from")
  BY <1>3, <1>5 DEF Option
<1>7. kind = "poll"
  BY <1>2, <1>6 DEF BodyParses
<1> QED
  BY <1>3, <1>7 DEF u

-----------------------------------------------------------------------------
(* Commands                                                                *)

\* A string in UTF-16, where halves of a pair stand next to each other, and
\* of a length that usize counts and an entity reaches with an i64.
TextFits(text) ==
  /\ text \in Seq(STRING)
  /\ Len(text) < USize \div 2
  /\ \A i \in 1 .. Len(text) :
       /\ text[i] = "hi" => i < Len(text) /\ text[i + 1] = "lo"
       /\ text[i] = "lo" => i > 1 /\ text[i - 1] = "hi"

\* The values of the numbers that JSON gives an entity.
I64 == -(USize \div 2) .. USize \div 2 - 1

EntitiesFit(entities) ==
  /\ Len(entities) \in Nat
  /\ DOMAIN entities = 1 .. Len(entities)
  /\ \A i \in DOMAIN entities : entities[i].offset \in I64 /\ entities[i].length \in I64

MessageFits(m) ==
  /\ Has(m, "text") => TextFits(m.text) /\ EntitiesFit(Entities(m, "entities"))
  /\ Has(m, "caption") =>
       TextFits(m.caption) /\ EntitiesFit(Entities(m, "caption_entities"))

\* What JSON says of texts and entities, and Telegram's limit of their length.
TextsFit ==
  \A b \in Bots : \A r \in Parsed(b) : \A field \in MessageFields :
    Has(r, field) => MessageFits(r[field])

LEMMA FirstPlace ==
  ASSUME NEW I \in SUBSET Nat, I # {}
  PROVE  Nth(I, 1) \in I
<1>1. PICK least \in I : \A j \in I : least <= j
  BY LeastOne
<1>2. {j \in I : j <= least} = {least}
  <2>1. \A j \in I : j \in Nat /\ (j <= least => j = least)
    BY <1>1
  <2> QED
    BY <1>1, <2>1
<1>3. Cardinality({j \in I : j <= least}) = 1
  BY <1>2, FS_Singleton
<1> QED
  BY <1>1, <1>3 DEF Nth

LEMMA FirstCommand ==
  ASSUME NEW text, NEW entities, EntitiesFit(entities),
         get_commands(text, entities) # <<>>
  PROVE  \E i \in DOMAIN entities :
           get_commands(text, entities)[1] = BotCommand(text, entities[i])
<1> DEFINE places == {i \in DOMAIN entities : entities[i].type = "bot_command"}
           n == Cardinality(places)
           command(k) == BotCommand(text, entities[Nth(places, k)])
<1>1. get_commands(text, entities) = [k \in 1 .. n |-> command(k)]
  BY DEF get_commands
<1>2. IsFiniteSet(places) /\ places \in SUBSET Nat
  <2>1. IsFiniteSet(DOMAIN entities) /\ DOMAIN entities \subseteq Nat
    BY FS_Interval DEF EntitiesFit
  <2> QED
    BY <2>1, FS_Subset
<1>3. n \in Nat /\ (n = 0 <=> places = {})
  BY <1>2, FS_CardinalityType, FS_EmptySet
<1> HIDE DEF n, command
<1>4. n # 0
  <2>1. n = 0 => [k \in 1 .. n |-> command(k)] = <<>>
    BY <1>3
  <2> QED
    BY <1>1, <2>1
<1>5. get_commands(text, entities)[1] = command(1)
  BY <1>1, <1>3, <1>4
<1>6. Nth(places, 1) \in places
  BY <1>2, <1>3, <1>4, FirstPlace
<1> QED
  BY <1>5, <1>6 DEF command

\* The command that counts was read from the text that get_text finds.
LEMMA CommandWasRead ==
  ASSUME NEW m, FlatParses(m), MessageFits(m), CommandsOf(m) # <<>>
  PROVE  \E text, entity :
           /\ TextOf(m) = {text} /\ CommandsOf(m)[1] = BotCommand(text, entity)
           /\ EntityParses(text, entity) /\ TextFits(text)
           /\ entity.offset \in I64 /\ entity.length \in I64
<1>1. Has(m, Data(m))
  BY DataIsThere DEF FlatParses
<1>2. ASSUME NEW text, NEW entities, TextOf(m) = {text}, TextFits(text),
             CommandsOf(m) = get_commands(text, entities),
             EntitiesFit(entities), TextParses(text, entities)
      PROVE  \E entity :
               /\ CommandsOf(m)[1] = BotCommand(text, entity)
               /\ EntityParses(text, entity)
               /\ entity.offset \in I64 /\ entity.length \in I64
  <2>1. PICK i \in DOMAIN entities : CommandsOf(m)[1] = BotCommand(text, entities[i])
    BY <1>2, FirstCommand
  <2>2. /\ EntityParses(text, entities[i])
        /\ entities[i].offset \in I64 /\ entities[i].length \in I64
    BY <1>2, <2>1 DEF TextParses, EntitiesFit
  <2> QED
    BY <2>1, <2>2
<1>3. CASE Data(m) = "text"
  <2>1. /\ TextOf(m) = {m.text}
        /\ CommandsOf(m) = get_commands(m.text, Entities(m, "entities"))
    BY <1>3 DEF TextOf, CommandsOf, Captioned
  <2>2. /\ TextFits(m.text) /\ EntitiesFit(Entities(m, "entities"))
        /\ TextParses(m.text, Entities(m, "entities"))
    BY <1>1, <1>3 DEF MessageFits, FlatParses
  <2> QED
    BY <1>2, <2>1, <2>2
<1>4. CASE Data(m) \in Captioned /\ Has(m, "caption")
  <2>1. Data(m) # "text"
    BY <1>4 DEF Captioned
  <2>2. /\ TextOf(m) = {m.caption}
        /\ CommandsOf(m) = get_commands(m.caption, Entities(m, "caption_entities"))
    BY <1>4, <2>1 DEF TextOf, CommandsOf, Option
  <2>3. /\ TextFits(m.caption) /\ EntitiesFit(Entities(m, "caption_entities"))
        /\ TextParses(m.caption, Entities(m, "caption_entities"))
    BY <1>4 DEF MessageFits, FlatParses
  <2> QED
    BY <1>2, <2>2, <2>3
<1> QED
  BY <1>3, <1>4 DEF CommandsOf

LEMMA Half == USize = 256 /\ USize \div 2 = 128
BY DEF USize

LEMMA I64IsInt == I64 = -128 .. 127 /\ I64 \subseteq Int
BY Half DEF I64

\* A part of a text that is not empty starts and ends where the text does.
LEMMA Part ==
  ASSUME NEW text, text \in Seq(STRING), NEW a \in Nat, NEW b \in Nat,
         a < b, b <= Len(text)
  PROVE  LET part == SubSeq(text, a + 1, b)
         IN  part # <<>> /\ part[1] = text[a + 1] /\ part[Len(part)] = text[b]
<1> DEFINE part == SubSeq(text, a + 1, b)
<1>1. \A i \in a + 1 .. b : text[i] \in STRING
  OBVIOUS
<1>2. /\ Len(part) = b - a
      /\ \A i \in 1 .. b - (a + 1) + 1 : part[i] = text[a + 1 + i - 1]
  BY <1>1, SubSeqProperties
<1> HIDE DEF part
<1>3. /\ 1 \in 1 .. b - (a + 1) + 1 /\ a + 1 + 1 - 1 = a + 1
      /\ b - a \in 1 .. b - (a + 1) + 1 /\ a + 1 + (b - a) - 1 = b
  OBVIOUS
<1>4. part[1] = text[a + 1] /\ part[b - a] = text[b]
  BY <1>2, <1>3
<1>5. part # <<>>
  BY <1>2
<1> QED
  BY <1>2, <1>4, <1>5 DEF part

\* Where the command is in its text. A negative length is a huge usize.
LEMMA CommandBounds ==
  ASSUME NEW text, NEW entity, EntityParses(text, entity), TextFits(text),
         entity.offset \in I64, entity.length \in I64
  PROVE  LET data == BotCommand(text, entity).data
         IN  /\ data.offset \in 0 .. Len(text)
             /\ data.length \in Nat
             /\ data.length < USize \div 2 =>
                  /\ data.offset + data.length <= Len(text)
                  /\ FromUtf16(Slice(text, data.offset, data.length))
<1> DEFINE data == BotCommand(text, entity).data
<1>1. data.offset = entity.offset /\ data.length = entity.length % 256
  BY Half DEF BotCommand, TextEntityData
<1>2. FromUtf16(Slice(text, entity.offset, entity.length % 256))
  BY Half DEF EntityParses, TextEntityData
<1>3. PICK n \in Nat, o \in Int, l \in Int :
        n = Len(text) /\ o = entity.offset /\ l = entity.length
  <2>1. Len(text) \in Nat
    BY DEF TextFits
  <2>2. entity.offset \in Int /\ entity.length \in Int
    BY I64IsInt
  <2> QED
    BY <2>1, <2>2
<1>4. n < 128 /\ o >= 0 /\ o <= n /\ o + l >= 0 /\ o + l <= n
  <2>1. /\ n < 128 /\ o >= 0 /\ o <= n /\ l \in -128 .. 127
        /\ ((o + l + 128) % 256) - 128 >= 0 /\ ((o + l + 128) % 256) - 128 <= n
    BY <1>3, Half, I64IsInt
    DEF TextFits, EntityParses, InBounds, EntityEnd, WrappingSum
  <2>2. CASE o + l < 128
    <3>1. (o + l + 128) % 256 = o + l + 128
      BY <2>1, <2>2
    <3> QED
      BY <2>1, <3>1
  <2>3. CASE ~ (o + l < 128)
    <3>1. (o + l + 128) % 256 = o + l - 128
      BY <2>1, <2>3
    <3> QED
      BY <2>1, <3>1
  <2> QED
    BY <2>1, <2>2, <2>3
<1>5. l % 256 \in Nat /\ (l % 256 < 128 => o + (l % 256) <= n)
  <2>1. CASE l < 0
    <3>1. l > -128
      BY <1>4
    <3>2. l % 256 = l + 256
      BY <2>1, <3>1
    <3> QED
      BY <3>1, <3>2
  <2>2. CASE l >= 0
    <3>1. l < 128
      BY <1>4
    <3>2. l % 256 = l
      BY <2>2, <3>1
    <3> QED
      BY <1>4, <2>2, <3>2
  <2> QED
    BY <2>1, <2>2
<1>6. PICK k : k = l % 256
  OBVIOUS
<1> HIDE DEF data
<1>7. data.offset = o /\ data.length = k /\ FromUtf16(Slice(text, o, k))
  BY <1>1, <1>2, <1>3, <1>6
<1>8. k \in Nat /\ (k < 128 => o + k <= n) /\ o \in 0 .. n
  BY <1>4, <1>5, <1>6
<1> QED
  BY <1>3, <1>7, <1>8, Half DEF data

\* The sum of offset and length overflows only for a huge length, and what is
\* left after a command can be read again unless the command is empty.
LEMMA CommandEnds ==
  ASSUME NEW text, NEW command, TextFits(text),
         command.data.offset \in 0 .. Len(text), command.data.length \in Nat,
         command.data.length < USize \div 2,
         command.data.offset + command.data.length <= Len(text),
         FromUtf16(Slice(text, command.data.offset, command.data.length))
  PROVE  /\ ~ Overflows(command)
         /\ command.data.length # 0 => FromUtf16(Arguments(text, command))
<1>1. PICK o \in Nat, l \in Nat, n \in Nat :
        o = command.data.offset /\ l = command.data.length /\ n = Len(text)
  BY DEF TextFits
<1>2. n < 128 /\ o + l <= n /\ FromUtf16(Slice(text, o, l)) /\ text \in Seq(STRING)
  BY <1>1, Half DEF TextFits
<1>3. ~ Overflows(command)
  BY <1>1, <1>2, Half DEF Overflows
<1>4. Arguments(text, command) = SubSeq(text, o + l + 1, n)
  <2>1. (o + l) % 256 = o + l
    BY <1>2
  <2>2. (o + l) % USize = o + l
    BY <2>1, Half
  <2> QED
    BY <1>1, <2>2 DEF Arguments
<1>5. ASSUME l # 0, o + l < n
      PROVE  FromUtf16(SubSeq(text, o + l + 1, n))
  <2>1. Slice(text, o, l) = SubSeq(text, o + 1, o + l)
    <3>1. ~ (o + l > Len(text))
      BY <1>1, <1>2
    <3> QED
      BY <3>1 DEF Slice
  <2>2. text[o + l] # "hi"
    <3> DEFINE part == SubSeq(text, o + 1, o + l)
    <3>1. o < o + l /\ o + l <= Len(text) /\ o + l \in Nat
      BY <1>1, <1>2, <1>5
    <3>2. part # <<>> /\ part[Len(part)] = text[o + l]
      BY <1>2, <3>1, Part
    <3>3. FromUtf16(part)
      BY <1>2, <2>1
    <3> HIDE DEF part
    <3> QED
      BY <3>2, <3>3 DEF FromUtf16
  <2>3. text[o + l + 1] # "lo"
    <3>1. PICK k : k = o + l + 1
      OBVIOUS
    <3>2. k \in 1 .. n /\ k - 1 = o + l
      BY <1>5, <3>1
    <3>3. k \in 1 .. Len(text)
      BY <1>1, <3>2
    <3>4. text[k] = "lo" => text[k - 1] = "hi"
      BY <3>3 DEF TextFits
    <3> QED
      BY <2>2, <3>1, <3>2, <3>4
  <2>4. text[n] # "hi"
    <3>1. n \in 1 .. Len(text) /\ ~ (n < Len(text))
      BY <1>1, <1>2, <1>5
    <3> QED
      BY <3>1 DEF TextFits
  <2> DEFINE part == SubSeq(text, o + l + 1, n)
  <2>5. part # <<>> /\ part[1] = text[o + l + 1] /\ part[Len(part)] = text[n]
    <3>1. o + l \in Nat /\ o + l < n /\ n <= Len(text)
      BY <1>1, <1>5
    <3> QED
      BY <1>2, <3>1, Part
  <2> HIDE DEF part
  <2>6. FromUtf16(part)
    BY <2>3, <2>4, <2>5 DEF FromUtf16
  <2> QED
    BY <2>6 DEF part
<1>6. ASSUME ~ (o + l < n)
      PROVE  FromUtf16(SubSeq(text, o + l + 1, n))
  <2>1. n < o + l + 1
    BY <1>2, <1>6
  <2> QED
    BY <2>1, SubSeqEmpty DEF FromUtf16
<1>7. l # 0 => FromUtf16(SubSeq(text, o + l + 1, n))
  BY <1>5, <1>6
<1> QED
  BY <1>1, <1>3, <1>4, <1>7

-----------------------------------------------------------------------------
(* Theorems                                                                *)

\* In every state the Context belongs to the update under way, no budget is
\* overdrawn, and whoever used one had an update with its key (Dispatcher::
\* handle with the handlers of carapax-ratelimit, -session and -i18n).
THEOREM Invariance == Spec => []HandlersInv
<1>1. HandlersInv /\ [Next]_vars => HandlersInv'
  BY NextInv
<1> QED
  BY InitInv, <1>1, PTL DEF Spec

\* The state has its types: an update that reaches a handler has parsed, a
\* command finds a session and a translator in the Context, and no budget is
\* above the limit (keyed.rs, handler.rs, lib.rs of carapax-i18n).
THEOREM TypeCorrect == Spec => []TypeOK
<1>1. HandlersInv => TypeOK
  BY DEF HandlersInv, ContextInv, BudgetInv, TypeOK
<1> QED
  BY Invariance, <1>1, PTL

\* Chats and users have integer ids.
IntegerIds ==
  \A b \in Bots : \A r \in Parsed(b) : SessionIds(Update(r)) \subseteq Int \X Int

\* For any ids, with any signs: the session in the Context is that of the
\* chat and the user of the update, and its name that of no other pair of
\* ids (session.rs, namespace_from_update).
THEOREM SessionsAreSeparate ==
  ASSUME IntegerIds PROVE Spec => []SessionsSeparate
<1>1. HandlersInv => SessionsSeparate
  <2> SUFFICES ASSUME HandlersInv, NEW namespace \in context.session,
                      NEW n \in SomeIds, NEW m \in SomeIds,
                      Namespace(<<n, m>>) = namespace
               PROVE  <<n, m>> \in SessionIds(update)
    BY DEF SessionsSeparate
  <2>1. PICK ids \in SessionIds(update) : namespace = Namespace(ids)
    BY DEF HandlersInv, ContextInv
  <2>2. stage \notin Unparsed
    BY DEF HandlersInv, ContextInv, NoContext
  <2>3. bot \in Bots /\ raw \in Parsed(bot)
    BY <2>2 DEF HandlersInv, Parsed
  <2>4. ids \in Int \X Int
    BY <2>1, <2>3 DEF IntegerIds, update
  <2>5. PICK p \in Int, q \in Int : ids = <<p, q>>
    BY <2>4
  <2>6. n \in Int /\ m \in Int
    BY HandlersAssumption
  <2>7. n = p /\ m = q
    BY <2>1, <2>5, <2>6, NamesDiffer
  <2> QED
    BY <2>1, <2>5, <2>7
<1> QED
  BY Invariance, <1>1, PTL

\* The limits there are, and names that belong to one chat or user: two
\* updates with a name in common have a chat or a user in common.
NamesAreUnique ==
  \A b \in Bots :
    /\ b.limit \in {"direct", "users", "chats", "list"}
    /\ \A r, q \in Parsed(b) :
         (ChatName(Update(r)) \cup UserName(Update(r)))
             \cap (ChatName(Update(q)) \cup UserName(Update(q))) # {}
           => Who(Update(r)) \cap Who(Update(q)) # {}

\* For any list of chats and users, given as ids or as names: all who use a
\* budget share a chat or a user (keyed.rs, get_key of RateLimitList).
THEOREM BudgetsAreSeparate ==
  ASSUME NamesAreUnique PROVE Spec => []BudgetsSeparate
<1>1. HandlersInv => BudgetsSeparate
  <2> SUFFICES ASSUME HandlersInv, bot.limit # "direct",
                      NEW s \in spenders, NEW t \in spenders, s[1] = t[1]
               PROVE  s[2] \cap t[2] # {}
    BY DEF BudgetsSeparate
  <2>1. PICK r \in Parsed(bot) : s[1] \in get_key(Update(r)) /\ s[2] = Who(Update(r))
    BY DEF HandlersInv, BudgetInv
  <2>2. PICK q \in Parsed(bot) : t[1] \in get_key(Update(q)) /\ t[2] = Who(Update(q))
    BY DEF HandlersInv, BudgetInv
  <2>3. bot \in Bots /\ bot.limit \in {"users", "chats", "list"}
    BY DEF HandlersInv, NamesAreUnique
  <2>4. ASSUME NEW u, NEW key \in get_key(u)
        PROVE  key \in Who(u) \cup ChatName(u) \cup UserName(u)
    <3>1. CASE bot.limit = "list"
      <4>1. key \in ListKey(u)
        BY <2>4, <3>1 DEF get_key
      <4> QED
        BY <4>1 DEF ListKey, Who
    <3>2. CASE bot.limit \in {"users", "chats"}
      BY <2>4, <3>2 DEF get_key, Who
    <3> QED
      BY <2>3, <3>1, <3>2
  <2>5. ASSUME NEW u, NEW v
        PROVE  Who(u) \cap (ChatName(v) \cup UserName(v)) = {}
    BY DEF Who, ChatId, UserId, ChatName, UserName, Id, Username
  <2>6. PICK u, v : u = Update(r) /\ v = Update(q)
    OBVIOUS
  <2>7. CASE s[1] \in Who(u)
    BY <2>1, <2>2, <2>4, <2>5, <2>6, <2>7
  <2>8. CASE s[1] \in ChatName(u) \cup UserName(u)
    <3>1. s[1] \in ChatName(v) \cup UserName(v)
      BY <2>2, <2>4, <2>5, <2>6, <2>8
    <3>2. (ChatName(u) \cup UserName(u)) \cap (ChatName(v) \cup UserName(v)) # {}
      BY <2>8, <3>1
    <3>3. Who(u) \cap Who(v) # {}
      BY <2>3, <2>6, <3>2 DEF NamesAreUnique
    <3> QED
      BY <2>1, <2>2, <2>6, <3>3
  <2> QED
    BY <2>1, <2>4, <2>6, <2>7, <2>8
<1> QED
  BY Invariance, <1>1, PTL

\* What the handler of commands looks at: the first command of the text.
LEMMA CommandOfUpdate ==
  ASSUME TextsFit, HandlersInv, stage = "commands",
         NEW m \in from_update(update), m.commands # <<>>
  PROVE  \E text :
           LET command == m.commands[1]
           IN  /\ m.text = {text} /\ TextFits(text)
               /\ command.data.length \in Nat
               /\ command.data.length < USize \div 2 =>
                    /\ ~ Overflows(command)
                    /\ command.data.length # 0 => FromUtf16(Arguments(text, command))
<1>1. bot \in Bots /\ raw \in Parsed(bot) /\ UpdateParses(raw)
  BY DEF HandlersInv, Parsed
<1> DEFINE kind == UpdateKind(raw)
<1>2. kind \in ToSet(UpdateFields) /\ Has(raw, kind)
  BY <1>1, KindIsThere
<1>3. update.message = IF kind \in MessageFields THEN {Message(raw[kind])} ELSE {}
  BY DEF update, Update
<1> HIDE DEF kind
<1>4. kind \in MessageFields /\ m = Message(raw[kind])
  BY <1>3 DEF from_update
<1>5. BodyParses(kind, raw[kind])
  BY <1>1, <1>2 DEF UpdateParses, Has
<1>6. FlatParses(raw[kind])
  <2>1. kind \notin {"callback_query", "poll"}
    BY <1>4 DEF MessageFields
  <2>2. MessageParses(raw[kind])
    BY <1>4, <1>5, <2>1 DEF BodyParses
  <2> QED
    BY <2>2 DEF MessageParses
<1>7. MessageFits(raw[kind])
  BY <1>1, <1>2, <1>4 DEF TextsFit
<1>8. m.text = TextOf(raw[kind]) /\ m.commands = CommandsOf(raw[kind])
  BY <1>4 DEF Message
<1>9. PICK text, entity :
        /\ m.text = {text} /\ m.commands[1] = BotCommand(text, entity)
        /\ EntityParses(text, entity) /\ TextFits(text)
        /\ entity.offset \in I64 /\ entity.length \in I64
  BY <1>6, <1>7, <1>8, CommandWasRead
<1> DEFINE data == m.commands[1].data
<1>10. /\ data.offset \in 0 .. Len(text) /\ data.length \in Nat
       /\ data.length < USize \div 2 =>
            /\ data.offset + data.length <= Len(text)
            /\ FromUtf16(Slice(text, data.offset, data.length))
  BY <1>9, CommandBounds
<1>11. data.length < USize \div 2 =>
         /\ ~ Overflows(m.commands[1])
         /\ data.length # 0 => FromUtf16(Arguments(text, m.commands[1]))
  BY <1>9, <1>10, CommandEnds
<1> QED
  BY <1>9, <1>10, <1>11

\* A handler panics at a poll, or at a command whose length is negative and
\* overflows when its offset is added (session.rs, namespace_from_update;
\* command.rs, handle): of all other updates there is a chat or a user to
\* name the session by, whatever fields they have.
THEOREM OnlyPollsMayPanic ==
  ASSUME TextsFit PROVE Spec => []OnlyPollsPanic
<1>1. Init => OnlyPollsPanic
  BY DEF Init, OnlyPollsPanic
<1>2. HandlersInv /\ OnlyPollsPanic /\ [Next]_vars => OnlyPollsPanic'
  <2> SUFFICES ASSUME HandlersInv, OnlyPollsPanic, [Next]_vars,
                      stage' = "panicked"
               PROVE  (update.kind = "poll" \/ NegativeLength)'
    BY DEF OnlyPollsPanic
  <2>1. SessionPanics \/ CommandPanics \/ UNCHANGED vars
    <3>1. Receive \/ ReceivePanics \/ Access \/ Limit \/ Session \/ I18n \/ CommandNotSent
            \/ Commands \/ TextHandler \/ Finish => stage' # "panicked"
      BY DEF Receive, ReceivePanics, Access, Limit, Check, Session, I18n, CommandNotSent,
             Commands, TextHandler, Finish
    <3>2. ~ Quiet
      BY DEF Quiet
    <3> QED
      BY <3>1, <3>2 DEF Next
  <2>2. raw' = raw
    BY <2>1 DEF SessionPanics, CommandPanics, vars
  <2>3. update' = update /\ NegativeLength' = NegativeLength
    BY <2>2 DEF update, NegativeLength
  <2>4. CASE SessionPanics
    <3>1. UpdateParses(raw) /\ SessionIds(update) = {}
      BY <2>4 DEF SessionPanics, HandlersInv
    <3> QED
      BY <2>3, <3>1, OnlyPollsNameNobody DEF update
  <2>5. CASE CommandPanics
    <3>1. PICK m \in from_update(update) : m.commands # <<>> /\ Overflows(m.commands[1])
      BY <2>5 DEF CommandPanics
    <3>2. /\ m.commands[1].data.length \in Nat
          /\ ~ (m.commands[1].data.length < USize \div 2)
      BY <2>5, <3>1, CommandOfUpdate DEF CommandPanics
    <3>3. m.commands[1].data.length >= USize \div 2
      BY <3>2, Half
    <3> QED
      BY <2>3, <3>1, <3>3 DEF NegativeLength, from_update
  <2>6. CASE UNCHANGED vars
    BY <2>3, <2>6 DEF vars, OnlyPollsPanic
  <2> QED
    BY <2>1, <2>4, <2>5, <2>6
<1> QED
  BY Invariance, <1>1, <1>2, PTL DEF Spec

\* What is left of a text after its command is a string again, unless the
\* command is empty or its length is negative: the command ends where a
\* character does, since parse has read it, and the text does as well (text.rs,
\* parse; command.rs, handle).
THEOREM ArgumentsAreWhole ==
  ASSUME TextsFit PROVE Spec => []ArgumentsWhole
<1>1. Init => ArgumentsWhole
  BY DEF Init, ArgumentsWhole
<1>2. HandlersInv /\ ArgumentsWhole /\ [Next]_vars => ArgumentsWhole'
  <2> DEFINE Explained == \E m \in update.message :
               m.commands[1].data.length = 0 \/ NegativeLength
  <2> SUFFICES ASSUME HandlersInv, ArgumentsWhole, [Next]_vars,
                      stage' = "failed_utf16"
               PROVE  Explained'
    BY DEF ArgumentsWhole
  <2>1. Commands \/ UNCHANGED vars
    <3>1. Receive \/ ReceivePanics \/ Access \/ Limit \/ SessionPanics \/ Session \/ I18n
            \/ CommandNotSent \/ CommandPanics \/ TextHandler \/ Finish
              => stage' # "failed_utf16"
      BY DEF Receive, ReceivePanics, Access, Limit, Check, SessionPanics, Session, I18n,
             CommandNotSent, CommandPanics, TextHandler, Finish
    <3>2. ~ Quiet
      BY DEF Quiet
    <3> QED
      BY <3>1, <3>2 DEF Next
  <2>2. raw' = raw
    BY <2>1 DEF Commands, vars
  <2>3. Explained' <=> Explained
    BY <2>2 DEF update, NegativeLength
  <2>4. CASE Commands
    <3>1. PICK m \in from_update(update) :
            \E text \in m.text :
              m.commands # <<>> /\ ~ FromUtf16(Arguments(text, m.commands[1]))
      BY <2>4 DEF Commands
    <3> DEFINE l == m.commands[1].data.length
    <3>2. l \in Nat /\ (l < USize \div 2 => l = 0)
      BY <2>4, <3>1, CommandOfUpdate DEF Commands
    <3>3. l = 0 \/ l >= USize \div 2
      BY <3>2, Half
    <3> QED
      BY <2>3, <3>1, <3>3 DEF NegativeLength, from_update
  <2>5. CASE UNCHANGED vars
    BY <2>3, <2>5 DEF vars, ArgumentsWhole
  <2> QED
    BY <2>1, <2>4, <2>5
<1> QED
  BY Invariance, <1>1, <1>2, PTL DEF Spec
=============================================================================
