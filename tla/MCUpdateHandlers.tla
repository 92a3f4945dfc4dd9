--------------------------- MODULE MCUpdateHandlers ---------------------------
(***************************************************************************)
(* The instance of UpdateHandlers for TLC: the updates of two users in a   *)
(* private chat, a group, a supergroup and a channel, with every data      *)
(* field, every combination of forward fields, and commands at every       *)
(* offset of a text with a surrogate pair.                                 *)
(***************************************************************************)
EXTENDS UpdateHandlers

BothBuilds == BOOLEAN

\* No JSON object has no field.
NoRaw == [f \in {} |-> f]

Ann == [id |-> 1, username |-> {"ann"}, language_code |-> {"en"}]
Bob == [id |-> 2, username |-> {}, language_code |-> {"ru"}]

AnnsChat   == [id |-> 1, type |-> "private", first_name |-> "ann", username |-> "ann"]
Group      == [id |-> -2, type |-> "group", title |-> "g",
               all_members_are_administrators |-> TRUE]
NoFlag     == [id |-> -2, type |-> "group", title |-> "g"]
Supergroup == [id |-> -3, type |-> "supergroup", title |-> "s", username |-> "super"]
Channel    == [id |-> -4, type |-> "channel", title |-> "c", username |-> "chan"]

Chats == {AnnsChat, Group, NoFlag, Supergroup, Channel}

Base(chat) == [message_id |-> 1, date |-> 0, chat |-> chat]
From(user) == [from |-> user]

Value(field, chat) ==
  CASE field \in Flags          -> TRUE
    [] field = "text"           -> <<"a">>
    [] field = "pinned_message" -> Base(chat) @@ From(Ann) @@ [text |-> <<"a">>]
    [] OTHER                    -> field

WithData ==
  {Base(chat) @@ From(Ann) @@ (field :> Value(field, chat)) :
     chat \in Chats, field \in ToSet(DataFields)}

WithTwo ==
  {Base(Group) @@ From(Ann) @@ ("animation" :> "a") @@ ("document" :> "d"),
   Base(Group) @@ From(Ann) @@ ("group_chat_created" :> FALSE),
   Base(Group) @@ From(Ann), Base(Group) @@ [text |-> <<"a">>]}

Text == <<"/", "a", "@", "b", "hi", "lo", "'">>

Entity(type, offset, length) ==
  [type |-> type, offset |-> offset, length |-> length]

WithCommand ==
  {Base(Group) @@ From(Ann) @@ [text |-> Text, entities |-> <<Entity(type, o, l)>>] :
     type \in {"bot_command", "text_link"}, o \in -1 .. 8, l \in -1 .. 8}

\* The largest length there is, from the start of the text and from its end.
Huge == Entity("bold", 0, USize \div 2 - 1)
WithHugeLength ==
  {Base(Group) @@ From(Ann) @@ [text |-> Text, entities |-> entities] :
     entities \in {<<Huge>>, <<Huge, [Huge EXCEPT !.offset = 7]>>,
                   <<Entity("bold", 0, 1), [Huge EXCEPT !.offset = 7]>>}}

Caption ==
  Base(Group) @@ From(Bob) @@
  [caption |-> <<"/", "a", "hi", "lo">>, caption_entities |-> <<Entity("bot_command", 0, 2)>>]

WithCaption == {Caption @@ (field :> "x") : field \in Captioned \cup {"animation"}}

Forwarded ==
  {Base(AnnsChat) @@ From(Ann) @@ [text |-> <<"a">>] @@
     [f \in fields |-> IF f = "forward_from_chat" THEN chat ELSE f] :
       fields \in SUBSET ForwardFields, chat \in {Channel, Supergroup}}

Replies ==
  {Base(AnnsChat) @@ From(Ann) @@ [text |-> <<"a">>, reply_to_message |-> m] :
     m \in {Base(Group) @@ From(Bob) @@ [text |-> <<"a">>], Base(Group) @@ From(Bob)}}

\* Users talk in other chats, under other kinds.
Others ==
  {Base(Supergroup) @@ From(user) @@ [text |-> <<"b">>] : user \in {Ann, Bob}} \cup
  {Base(Group) @@ From(Bob) @@ [text |-> <<"b">>]}

Numbered == [update_id |-> 1]

Messages == WithData \cup WithTwo \cup WithCommand \cup WithHugeLength \cup WithCaption \cup
            Forwarded \cup Replies \cup Others

Queries == {"inline_query", "chosen_inline_result", "callback_query",
            "shipping_query", "pre_checkout_query"}

AllUpdates ==
  {Numbered @@ [message |-> m] : m \in Messages} \cup
  {Numbered @@ (field :> Base(chat) @@ From(Ann) @@ [text |-> <<"a">>]) :
     field \in MessageFields, chat \in {AnnsChat, Channel}} \cup
  {Numbered @@ (field :> From(user)) : field \in Queries, user \in {Ann, Bob}} \cup
  {Numbered, [message |-> Base(Group)], Numbered @@ [poll |-> [id |-> "p"]],
   Numbered @@ [callback_query |-> [id |-> "q"]],
   Numbered @@ [callback_query |-> From(Ann) @@ [message |-> Base(Group)]],
   Numbered @@ [message |-> Base(Group) @@ From(Ann) @@ [text |-> <<"a">>]] @@ [poll |-> [id |-> "p"]]}

AnyOne == [user |-> {}, chat |-> {}]
Rule(principal, granted) == [principal |-> principal, is_granted |-> granted]

\* Enough for every key of the limits to be used up.
FewUpdates ==
  {Numbered @@ [message |-> m] : m \in Others} \cup
  {Numbered @@ [channel_post |-> Base(Channel) @@ [text |-> <<"a">>]],
   Numbered @@ [message |-> Base(AnnsChat) @@ From(Ann) @@ [text |-> <<"a">>]],
   Numbered @@ [inline_query |-> From(Ann)], Numbered @@ [callback_query |-> From(Bob)]}

Bot(updates, limit, on_missing, rule) ==
  [updates |-> updates,
   rules |-> <<Rule([user |-> {Id(2)}, chat |-> {Id(-2)}], FALSE),
               Rule([user |-> {Username("eve")}, chat |-> {}], FALSE),
               Rule(AnyOne, TRUE)>>,
   limit |-> limit, on_missing |-> on_missing,
   users |-> {Id(2), Username("ann")}, chats |-> {Username("super"), Id(-4)},
   translators |-> {"en"}, default_translator |-> "ru",
   commands |-> {<<"/", "a">>}, not_found |-> IF on_missing THEN {} ELSE {<<"?">>},
   rule |-> rule]

AllBots ==
  {Bot(AllUpdates, "direct", TRUE, [kind |-> "equals", text |-> <<"a">>]),
   Bot(FewUpdates, "users", TRUE, [kind |-> "contains", text |-> <<"b">>]),
   Bot(FewUpdates, "chats", FALSE, [kind |-> "matches", texts |-> {<<"a">>}]),
   Bot(FewUpdates, "list", TRUE, [kind |-> "equals", text |-> <<"b">>])}

Ids == {-4, -3, -2, -1, 1, 2, 12}
=============================================================================
