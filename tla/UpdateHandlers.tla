---------------------------- MODULE UpdateHandlers ----------------------------
(***************************************************************************)
(* The handlers that come with carapax, in the order a bot chains them: an *)
(* access policy (carapax-access), a rate limit (carapax-ratelimit), a     *)
(* session (carapax-session), a translator (carapax-i18n), and the         *)
(* handlers of commands and of texts (carapax/src/handler). Updates arrive *)
(* as JSON and are parsed as in TelegramUpdate. Each action is one call of *)
(* handle(); Dispatcher models how the calls of several updates mix. The   *)
(* rate limiter (ratelimit_meter) and shellwords are external: a budget    *)
(* per key that a quiet period fills again, and quotes that have to match. *)
(***************************************************************************)
EXTENDS TelegramUpdate

CONSTANTS
  Bots,        \* configurations of the handlers, and the updates each bot gets
  Capacity,    \* updates a rate limit lets pass in a period
  Builds,      \* TRUE: integer overflow panics, FALSE: it wraps around
  SomeIds,     \* ids of chats and users to compare sessions with
  NoUpdate

ASSUME HandlersAssumption ==
  /\ Capacity \in Nat \ {0}
  /\ Builds \subseteq BOOLEAN
  /\ \A b \in Bots : NoUpdate \notin b.updates
  /\ SomeIds \subseteq Int

VARIABLES
  bot,       \* the configuration of this bot
  raw,       \* the update under way
  stage,     \* the handler that gets it next, or how it ended
  context,   \* what handlers put in the Context
  called,    \* the handler of a command or text that ran, with its arguments
  used,      \* how much of the budget of each key is used
  spenders   \* history: who used the budget of each key

vars == <<bot, raw, stage, context, called, used, spenders>>

update == Update(raw)

NoContext == [session |-> {}, translator |-> {}]

NotCalled == [name |-> <<>>, args |-> <<>>]

UserIds(u) == {user.id : user \in get_user(u)}

\* An id or a username, as in UserId and ChatId and as rules and limits name
\* chats and users.
Id(n)          == <<"id", n>>
Username(name) == <<"username", name>>

UserId(u)   == {Id(n) : n \in UserIds(u)}
UserName(u) == {Username(x) : x \in UNION {user.username : user \in get_user(u)}}
ChatId(u)   == {Id(n) : n \in get_chat_id(u)}
ChatName(u) == {Username(x) : x \in get_chat_username(u)}

-----------------------------------------------------------------------------
(* carapax-access                                                          *)

\* A principal names an id or a username; both are compared as they are.
PrincipalUser_accepts(p, u) == p \in UserId(u) \cup UserName(u)

PrincipalChat_accepts(p, u) == p \in ChatId(u) \cup ChatName(u)

Principal_accepts(principal, u) ==
  /\ principal.user # {} => \E p \in principal.user : PrincipalUser_accepts(p, u)
  /\ principal.chat # {} => \E p \in principal.chat : PrincipalChat_accepts(p, u)

\* The first rule that accepts the update decides; without one it is denied.
is_granted(u) ==
  \E i \in DOMAIN bot.rules :
    /\ Principal_accepts(bot.rules[i].principal, u)
    /\ bot.rules[i].is_granted
    /\ \A j \in 1 .. i - 1 : ~Principal_accepts(bot.rules[j].principal, u)

Access ==
  /\ stage = "access"
  /\ stage' = IF is_granted(update) THEN "limit" ELSE "stopped"
  /\ UNCHANGED <<bot, raw, context, called, used, spenders>>

-----------------------------------------------------------------------------
(* carapax-ratelimit                                                       *)

ListKey_of_list(u) ==
  LET listed == bot.chats \cup bot.users
      names  == ChatId(u) \cup ChatName(u) \cup UserId(u) \cup UserName(u)
      found  == listed \cap names
  IN  IF found = {} THEN {} ELSE {CHOOSE key \in listed : TRUE}

\* The first of these that is in the list is the key, as an id or a name.
ListKey(u) ==
  LET found == <<ChatId(u) \cap bot.chats, ChatName(u) \cap bot.chats,
                 UserId(u) \cap bot.users, UserName(u) \cap bot.users>>
  IN  UNION {found[i] : i \in {k \in 1 .. 4 : \A j \in 1 .. k - 1 : found[j] = {}}}

get_key(u) ==
  CASE bot.limit = "direct" -> {Username("all")}
    [] bot.limit = "users"  -> UserId(u)
    [] bot.limit = "chats"  -> ChatId(u)
    [] bot.limit = "list"   -> ListKey(u)

\* The identities of who is behind an update.
Who(u) == ChatId(u) \cup UserId(u)

Uses(key) == IF key \in DOMAIN used THEN used[key] ELSE 0

\* The budgets after one more use of this one.
Used(key) ==
  [k \in DOMAIN used \cup {key} |-> IF k = key THEN Uses(key) + 1 ELSE used[k]]

Check_one_more(key) ==
  \/ /\ Uses(key) <= Capacity
     /\ used' = Used(key)
     /\ spenders' = spenders \cup {<<key, Who(update)>>}
     /\ stage' = "session"
  \/ /\ Uses(key) > Capacity
     /\ stage' = "stopped"
     /\ UNCHANGED <<used, spenders>>

\* check() of the limiter: uses the budget, unless it is used up.
Check(key) ==
  \/ /\ Uses(key) < Capacity
     /\ used' = Used(key)
     /\ spenders' = spenders \cup {<<key, Who(update)>>}
     /\ stage' = "session"
  \/ /\ Uses(key) >= Capacity
     /\ stage' = "stopped"
     /\ UNCHANGED <<used, spenders>>

Limit ==
  /\ stage = "limit"
  /\ \/ \E key \in get_key(update) : Check(key)
     \/ /\ get_key(update) = {}
        /\ stage' = IF bot.on_missing THEN "session" ELSE "stopped"
        /\ UNCHANGED <<used, spenders>>
  /\ UNCHANGED <<bot, raw, context, called>>

\* A whole period without an update.
Quiet ==
  /\ stage = "idle"
  /\ used # <<>>
  /\ used' = <<>>
  /\ spenders' = {}
  /\ UNCHANGED <<bot, raw, stage, context, called>>

-----------------------------------------------------------------------------
(* carapax-session and carapax-i18n                                        *)

\* Decimal notation, with one token for the digits.
Dash       == <<"-", 0>>
Digits(n)  == <<"digits", n>>
Decimal(n) == IF n < 0 THEN <<Dash, Digits(-n)>> ELSE <<Digits(n)>>

\* The chat and the user; what is missing is replaced by the other.
SessionIds(u) ==
  LET chat == get_chat_id(u)
      user == UserIds(u)
  IN  (IF chat = {} THEN user ELSE chat) \X (IF user = {} THEN chat ELSE user)

Namespace_of_chat(ids) == Decimal(ids[1])

Namespace(ids) == Decimal(ids[1]) \o <<Dash>> \o Decimal(ids[2])

\* namespace_from_update panics when there is neither chat nor user.
SessionPanics ==
  /\ stage = "session"
  /\ SessionIds(update) = {}
  /\ stage' = "panicked"
  /\ UNCHANGED <<bot, raw, context, called, used, spenders>>

Session ==
  /\ stage = "session"
  /\ \E ids \in SessionIds(update) :
       context' = [context EXCEPT !.session = {Namespace(ids)}]
  /\ stage' = "i18n"
  /\ UNCHANGED <<bot, raw, called, used, spenders>>

resolve(u) == UNION {user.language_code : user \in get_user(u)}

I18n ==
  /\ stage = "i18n"
  /\ context' = [context EXCEPT !.translator =
       IF resolve(update) \cap bot.translators # {}
       THEN resolve(update) \cap bot.translators ELSE {bot.default_translator}]
  /\ stage' = "commands"
  /\ UNCHANGED <<bot, raw, called, used, spenders>>

-----------------------------------------------------------------------------
(* Commands and texts (carapax/src/handler/command.rs and text.rs)         *)

\* shellwords::split takes a string apart when its quotes match.
QuotesMatch(units) == Len(SelectSeq(units, LAMBDA x : x = "'")) % 2 = 0

\* The handler of the command, or the one for commands not found.
HandlerOf(command) ==
  IF command \in bot.commands THEN {command} ELSE bot.not_found

Arguments_after_space(text, command) ==
  SubSeq(text, ((command.data.offset + command.data.length) % USize) + 2, Len(text))

\* All of the text after the command, which skip() counts in units.
Arguments(text, command) ==
  SubSeq(text, ((command.data.offset + command.data.length) % USize) + 1, Len(text))

NoCommand == \A m \in from_update(update) : m.commands = <<>>

CommandNotSent ==
  /\ stage = "commands"
  /\ NoCommand
  /\ stage' = "text"
  /\ UNCHANGED <<bot, raw, context, called, used, spenders>>

\* offset + length of a command with a negative length overflows.
Overflows(command) == command.data.offset + command.data.length >= USize

CommandPanics ==
  /\ stage = "commands"
  /\ TRUE \in Builds
  /\ \E m \in from_update(update) : m.commands # <<>> /\ Overflows(m.commands[1])
  /\ stage' = "panicked"
  /\ UNCHANGED <<bot, raw, context, called, used, spenders>>

\* The first command counts. Its handler stops or continues as it likes; the
\* dispatch ends here for the model, as only a text without command matters
\* to what follows.
Commands ==
  /\ stage = "commands"
  /\ \E m \in from_update(update) : \E text \in m.text :
       /\ m.commands # <<>>
       /\ Overflows(m.commands[1]) => FALSE \in Builds
       /\ LET args == Arguments(text, m.commands[1])
              name == HandlerOf(m.commands[1].command)
          IN  \/ /\ ~FromUtf16(args)
                 /\ stage' = "failed_utf16"
                 /\ UNCHANGED called
              \/ /\ FromUtf16(args)
                 /\ ~QuotesMatch(args)
                 /\ stage' = "failed_quotes"
                 /\ UNCHANGED called
              \/ /\ FromUtf16(args)
                 /\ QuotesMatch(args)
                 /\ \E n \in name : called' = [name |-> n, args |-> args]
                 /\ stage' = "handled"
              \/ /\ FromUtf16(args)
                 /\ QuotesMatch(args)
                 /\ name = {}
                 /\ stage' = "text"
                 /\ UNCHANGED called
  /\ UNCHANGED <<bot, raw, context, used, spenders>>

\* contains, equals, or a pattern, which stands for the texts it matches.
TextRule_accepts(text) ==
  CASE bot.rule.kind = "equals"   -> text = bot.rule.text
    [] bot.rule.kind = "contains" ->
         \E i \in 0 .. Len(text) - Len(bot.rule.text) :
           SubSeq(text, i + 1, i + Len(bot.rule.text)) = bot.rule.text
    [] bot.rule.kind = "matches"  -> text \in bot.rule.texts

TextHandler ==
  /\ stage = "text"
  /\ \/ /\ \E m \in from_update(update) : \E text \in m.text :
             TextRule_accepts(text) /\ called' = [name |-> <<"text">>, args |-> text]
        /\ stage' = "handled"
     \/ /\ \A m \in from_update(update) : \A text \in m.text : ~TextRule_accepts(text)
        /\ stage' = "ignored"
        /\ UNCHANGED called
  /\ UNCHANGED <<bot, raw, context, used, spenders>>

-----------------------------------------------------------------------------

\* Between updates, and when there is none that a handler could get.
Unparsed == {"idle", "rejected", "parse_panicked"}

Ends == Unparsed \cup
        {"stopped", "panicked", "failed_utf16", "failed_quotes", "handled", "ignored"}

\* An update that does not parse never reaches a handler.
Receive ==
  /\ stage = "idle"
  /\ raw' \in bot.updates
  /\ stage' = IF UpdateParses(raw') THEN "access" ELSE "rejected"
  /\ UNCHANGED <<bot, context, called, used, spenders>>

\* The task that parses the update panics.
ReceivePanics ==
  /\ stage = "idle"
  /\ TRUE \in Builds
  /\ raw' \in bot.updates
  /\ UpdateOverflows(raw')
  /\ stage' = "parse_panicked"
  /\ UNCHANGED <<bot, context, called, used, spenders>>

\* The dispatch is over; the next one has a Context of its own.
Finish ==
  /\ stage \in Ends \ {"idle"}
  /\ raw' = NoUpdate
  /\ stage' = "idle"
  /\ context' = NoContext
  /\ called' = NotCalled
  /\ UNCHANGED <<bot, used, spenders>>

Init ==
  /\ bot \in Bots
  /\ raw = NoUpdate
  /\ stage = "idle"
  /\ context = NoContext
  /\ called = NotCalled
  /\ used = <<>>
  /\ spenders = {}

Next ==
  \/ Receive
  \/ ReceivePanics
  \/ Access
  \/ Limit
  \/ Quiet
  \/ SessionPanics
  \/ Session
  \/ I18n
  \/ CommandNotSent
  \/ CommandPanics
  \/ Commands
  \/ TextHandler
  \/ Finish

Spec == Init /\ [][Next]_vars

-----------------------------------------------------------------------------
(* Properties                                                              *)

TypeOK ==
  /\ bot \in Bots
  /\ raw \in bot.updates \cup {NoUpdate}
  /\ stage \in Ends \cup {"access", "limit", "session", "i18n", "commands", "text"}
  /\ stage \notin Unparsed => UpdateParses(raw)
  /\ stage \in {"commands", "text"} =>
       context.session # {} /\ context.translator # {}
  /\ \A key \in DOMAIN used : used[key] \in 1 .. Capacity
  /\ \A s \in spenders : s[1] \in DOMAIN used

\* An entity whose length is negative; Telegram sends none, and parse lets
\* pass those that do not reach back before the start of the text.
NegativeLength ==
  \E m \in update.message :
    m.commands # <<>> /\ m.commands[1].data.length >= USize \div 2

\* The only updates that make a handler panic are polls, which have neither a
\* chat nor a user to name a session by (session.rs, namespace_from_update,
\* which takes that for unreachable; get_user and get_chat_id of update.rs).
OnlyPollsPanic ==
  stage = "panicked" => update.kind = "poll" \/ NegativeLength

\* A session belongs to one chat and one user: the namespace that names it,
\* and that the stores take for the name of a directory or of a hash, is that
\* of no other pair of ids (session.rs, namespace_from_update).
SessionsSeparate ==
  \A namespace \in context.session :
    \A ids \in SomeIds \X SomeIds :
      Namespace(ids) = namespace => ids \in SessionIds(update)

\* Whoever uses up the budget of a key is stopped by nobody else's updates:
\* all who used it share a chat or a user, though ids and names of chats and
\* users make keys of one type (keyed.rs, RateLimitListKey).
BudgetsSeparate ==
  bot.limit # "direct" =>
    \A s, t \in spenders :
      s[1] = t[1] => s[2] \cap t[2] # {}

\* What is left of a text after a command can be read as a string again,
\* since parse has read the command itself: only a command of no units at
\* all may sit in the middle of a character (text.rs, command.rs).
ArgumentsWhole ==
  stage = "failed_utf16" =>
    \E m \in update.message : m.commands[1].data.length = 0 \/ NegativeLength
=============================================================================
