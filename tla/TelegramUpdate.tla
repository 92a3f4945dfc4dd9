---------------------------- MODULE TelegramUpdate ----------------------------
(***************************************************************************)
(* What tgbot makes of the JSON of an update: tgbot/src/types/update.rs,   *)
(* message/ and chat/. A JSON object is a function from the names of the   *)
(* fields it has to their values; names that serde renames are as in the   *)
(* JSON. An Option is a set with at most one element. A text is a sequence *)
(* of UTF-16 units: "hi" and "lo" are the halves of a surrogate pair, every *)
(* other unit is a character of its own.                                   *)
(*                                                                         *)
(* Of the types that serde derives, only the fields are named that some    *)
(* conversion or handler looks at. A message nested in a message, as the   *)
(* one replied to or pinned, holds no further one: Telegram sends none.    *)
(***************************************************************************)
EXTENDS Integers, Sequences, FiniteSets, SequencesExt

Has(object, field) == field \in DOMAIN object

Option(object, field) == IF Has(object, field) THEN {object[field]} ELSE {}

-----------------------------------------------------------------------------
(* Text and its entities (message/text.rs)                                 *)

\* Stands for 2^64, the values of usize and, from minus one half of it up to
\* the other half, of the i64 that lengths and offsets are.
USize == 2 ^ 8

\* The sum of two i64 that a build without overflow checks makes.
WrappingSum(a, b) == ((a + b + USize \div 2) % USize) - (USize \div 2)

RawMessageEntityKind ==
  {"bold", "bot_command", "cashtag", "code", "email", "hashtag", "italic",
   "mention", "phone_number", "pre", "text_link", "text_mention", "url"}

\* The units that skip(offset).take(length) leaves.
Slice(text, offset, length) ==
  SubSeq(text, offset + 1,
         IF offset + length > Len(text) THEN Len(text) ELSE offset + length)

\* Can the units be read as a string? A text has "hi" only before "lo".
FromUtf16(units) ==
  IF units = <<>> THEN TRUE ELSE units[1] # "lo" /\ units[Len(units)] # "hi"

EntityEnd(entity) == WrappingSum(entity.offset, entity.length)

InBounds(text, entity) ==
  /\ entity.offset >= 0
  /\ entity.offset <= Len(text)
  /\ EntityEnd(entity) >= 0
  /\ EntityEnd(entity) <= Len(text)

TextEntityData(text, entity) ==
  [offset |-> entity.offset, length |-> entity.length % USize,
   data |-> Slice(text, entity.offset, entity.length % USize)]

\* What a kind needs besides its place.
TextEntityNeeds(kind) ==
  CASE kind = "text_link"    -> {"url"}
    [] kind = "text_mention" -> {"user"}
    [] OTHER                 -> {}

EntityParses(text, entity) ==
  /\ InBounds(text, entity)
  /\ FromUtf16(TextEntityData(text, entity).data)
  /\ TextEntityNeeds(entity.type) \subseteq DOMAIN entity

\* splitn(2, '@'): the name of a command, and of the bot it is meant for.
CommandName(units) ==
  IF Contains(units, "@")
  THEN SubSeq(units, 1, SelectInSeq(units, LAMBDA x : x = "@") - 1)
  ELSE units

BotName(units) ==
  IF Contains(units, "@")
  THEN {SubSeq(units, SelectInSeq(units, LAMBDA x : x = "@") + 1, Len(units))}
  ELSE {}

BotCommand(text, entity) ==
  LET data == TextEntityData(text, entity)
  IN  [command |-> CommandName(data.data), bot_name |-> BotName(data.data),
       data |-> data]

TextParses(text, entities) ==
  \A i \in DOMAIN entities : EntityParses(text, entities[i])

\* In a build with overflow checks the sum panics, when parse gets so far.
TextOverflows(text, entities) ==
  \E i \in DOMAIN entities :
    /\ \A j \in 1 .. i - 1 : EntityParses(text, entities[j])
    /\ entities[i].offset \in 0 .. Len(text)
    /\ EntityEnd(entities[i]) # entities[i].offset + entities[i].length

\* The place with k places up to it.
Nth(places, k) == CHOOSE i \in places : Cardinality({j \in places : j <= i}) = k

\* The commands of a text, in their order.
get_commands(text, entities) ==
  LET places == {i \in DOMAIN entities : entities[i].type = "bot_command"}
  IN  [k \in 1 .. Cardinality(places) |->
         BotCommand(text, entities[Nth(places, k)])]

Entities(raw, field) == IF Has(raw, field) THEN raw[field] ELSE <<>>

-----------------------------------------------------------------------------
(* Chats (chat/mod.rs)                                                     *)

ChannelChat    == [required |-> {"title"},
                   optional |-> {"username", "photo", "description", "invite_link",
                                 "pinned_message"}]
GroupChat      == [required |-> {"title", "all_members_are_administrators"},
                   optional |-> {"photo", "invite_link", "pinned_message"}]
PrivateChat    == [required |-> {"first_name"},
                   optional |-> {"last_name", "username", "photo"}]
SupergroupChat == [required |-> {"title"},
                   optional |-> {"username", "photo", "description", "invite_link",
                                 "pinned_message", "sticker_set_name",
                                 "can_set_sticker_set"}]

ChatVariants == [channel |-> ChannelChat, group |-> GroupChat,
                 private |-> PrivateChat, supergroup |-> SupergroupChat]

ChatParses(raw) ==
  {"id", "type"} \cup ChatVariants[raw.type].required \subseteq DOMAIN raw

\* A chat keeps the fields of its variant only.
Chat(raw) ==
  LET variant == ChatVariants[raw.type]
  IN  [field \in DOMAIN raw \cap
         ({"id", "type"} \cup variant.required \cup variant.optional) |-> raw[field]]

-----------------------------------------------------------------------------
(* Messages (message/mod.rs, from_raw)                                     *)

ForwardFields ==
  {"forward_date", "forward_from", "forward_from_chat",
   "forward_from_message_id", "forward_signature", "forward_sender_name"}

\* The combinations that make a Forward from a user, from one that hides the
\* account, from a channel, or none; any other is BadForward.
ForwardParses(raw) ==
  LET fields == DOMAIN raw \cap ForwardFields
  IN  \/ fields = {}
      \/ fields = {"forward_date", "forward_from"}
      \/ fields = {"forward_date", "forward_sender_name"}
      \/ /\ fields \ {"forward_signature"} =
              {"forward_date", "forward_from_chat", "forward_from_message_id"}
         /\ raw.forward_from_chat.type = "channel"

\* In the order from_raw looks for them: the first that is there is the data
\* of the message. A flag has to be true as well.
DataFields ==
  <<"animation", "audio", "channel_chat_created", "connected_website",
    "contact", "delete_chat_photo", "document", "game", "group_chat_created",
    "invoice", "left_chat_member", "location", "migrate_from_chat_id",
    "migrate_to_chat_id", "new_chat_members", "new_chat_photo",
    "new_chat_title", "passport_data", "photo", "poll", "sticker",
    "successful_payment", "supergroup_chat_created", "venue", "video",
    "video_note", "voice", "pinned_message", "text">>

Flags == {"channel_chat_created", "delete_chat_photo", "group_chat_created",
          "supergroup_chat_created"}

Captioned == {"audio", "document", "photo", "video", "voice"}

Present(raw, field) == Has(raw, field) /\ (field \in Flags => raw[field])

HasData(raw) == \E i \in DOMAIN DataFields : Present(raw, DataFields[i])

Data(raw) == DataFields[SelectInSeq(DataFields, LAMBDA f : Present(raw, f))]

\* The author is required of every message but a channel's.
KindParses(raw) == raw.chat.type # "channel" => Has(raw, "from")

\* Everything in a message but the messages nested in it.
FlatParses(raw) ==
  /\ {"message_id", "date", "chat"} \subseteq DOMAIN raw
  /\ ChatParses(raw.chat)
  /\ Has(raw, "forward_from_chat") => ChatParses(raw.forward_from_chat)
  /\ ForwardParses(raw)
  /\ KindParses(raw)
  /\ Has(raw, "caption") =>
       TextParses(raw.caption, Entities(raw, "caption_entities"))
  /\ HasData(raw)
  /\ Data(raw) = "text" => TextParses(raw.text, Entities(raw, "entities"))

MessageParses(raw) ==
  /\ FlatParses(raw)
  /\ Has(raw, "reply_to_message") => FlatParses(raw.reply_to_message)
  /\ Data(raw) = "pinned_message" => FlatParses(raw.pinned_message)

FlatOverflows(raw) ==
  \/ Has(raw, "caption") /\ TextOverflows(raw.caption, Entities(raw, "caption_entities"))
  \/ /\ HasData(raw)
     /\ Data(raw) = "text"
     /\ TextOverflows(raw.text, Entities(raw, "entities"))

MessageOverflows(raw) ==
  \/ FlatOverflows(raw)
  \/ Has(raw, "reply_to_message") /\ FlatOverflows(raw.reply_to_message)
  \/ /\ HasData(raw)
     /\ Data(raw) = "pinned_message"
     /\ FlatOverflows(raw.pinned_message)

\* The text of the message, or the caption of its data, is what get_text
\* finds; its commands are taken from the same text.
TextOf(raw) ==
  CASE Data(raw) = "text"       -> {raw.text}
    [] Data(raw) \in Captioned  -> Option(raw, "caption")
    [] OTHER                    -> {}

CommandsOf(raw) ==
  CASE Data(raw) = "text" -> get_commands(raw.text, Entities(raw, "entities"))
    [] Data(raw) \in Captioned /\ Has(raw, "caption") ->
         get_commands(raw.caption, Entities(raw, "caption_entities"))
    [] OTHER -> <<>>

Message(raw) ==
  [chat |-> Chat(raw.chat),
   from |-> IF raw.chat.type = "channel" THEN {} ELSE {raw.from},
   data |-> Data(raw), text |-> TextOf(raw), commands |-> CommandsOf(raw)]

-----------------------------------------------------------------------------
(* Updates (update.rs)                                                     *)

MessageFields ==
  {"message", "edited_message", "channel_post", "edited_channel_post"}

\* In the order in which they are looked for.
UpdateFields ==
  <<"message", "edited_message", "channel_post", "edited_channel_post",
    "inline_query", "chosen_inline_result", "callback_query",
    "shipping_query", "pre_checkout_query", "poll">>

\* A query has an author; a callback query may hold its message. A poll has
\* neither.
BodyParses(field, raw) ==
  CASE field \in MessageFields  -> MessageParses(raw)
    [] field = "callback_query" ->
         Has(raw, "from") /\ (Has(raw, "message") => MessageParses(raw.message))
    [] field = "poll"           -> TRUE
    [] OTHER                    -> Has(raw, "from")

\* serde reads every field that is there before the kind is chosen.
UpdateParses(raw) ==
  /\ Has(raw, "update_id")
  /\ \A field \in ToSet(UpdateFields) \cap DOMAIN raw :
       BodyParses(field, raw[field])
  /\ \E field \in ToSet(UpdateFields) : Has(raw, field)

\* Some text of the update makes a sum overflow, unless an error elsewhere
\* in the update is found first.
UpdateOverflows(raw) ==
  \/ \E field \in MessageFields \cap DOMAIN raw : MessageOverflows(raw[field])
  \/ /\ Has(raw, "callback_query")
     /\ Has(raw.callback_query, "message")
     /\ MessageOverflows(raw.callback_query.message)

UpdateKind(raw) ==
  UpdateFields[SelectInSeq(UpdateFields, LAMBDA f : Has(raw, f))]

Update(raw) ==
  LET kind == UpdateKind(raw)
  IN  [kind |-> kind,
       message |-> IF kind \in MessageFields THEN {Message(raw[kind])} ELSE {},
       from |-> IF kind \in MessageFields THEN {} ELSE Option(raw[kind], "from")]

get_chat_id(update) == {m.chat.id : m \in update.message}

get_chat_username(update) ==
  UNION {Option(m.chat, "username") : m \in update.message}

get_user_of_author_only(update) == UNION {m.from : m \in update.message}

get_user(update) == update.from \cup UNION {m.from : m \in update.message}

\* FromUpdate for Message (carapax/src/handler/update.rs)
from_update(update) == update.message
=============================================================================
