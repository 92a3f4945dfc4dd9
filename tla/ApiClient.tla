------------------------------- MODULE ApiClient -------------------------------
(***************************************************************************)
(* One call of the Bot API from beginning to end: the caller builds the    *)
(* objects, files and errors that the method takes, then the method with   *)
(* its setters; Api::execute (tgbot/src/api.rs) makes a request of it      *)
(* (request/), sends it (executor/hyper.rs) and makes a result of what     *)
(* comes back (types/response.rs). Calls share nothing but the client of   *)
(* hyper, so one call is enough. The server, the network and the files of  *)
(* the caller are the environment.                                         *)
(***************************************************************************)
EXTENDS Sequences, BotMethods, RequestForms, RequestObjects, PassportElements

CONSTANTS
  MaxSetters,            \* bound: setters called on one builder
  FileKinds,             \* kinds of files that go into media
  MinGroupAttachments,   \* 2 in the source
  MaxGroupAttachments,   \* 10 in the source
  MaxItems,              \* bound: items of a media group
  RightsSent             \* rights of an administrator: as sent for which chats

ASSUME ClientAssumption ==
  /\ MaxSetters \in Nat
  /\ FileKinds \subseteq InputFileKind
  /\ MinGroupAttachments \in Nat
  /\ MaxGroupAttachments \in Nat
  /\ MaxItems \in Nat
  /\ RightsSent \subseteq {"all", "channel", "supergroup"}

VARIABLES
  step,      \* where the call is
  payload,   \* the object, group or element that the caller works on
  draft,     \* the method, as built so far
  request,   \* what is sent
  reply,     \* what comes back
  outcome    \* what the caller gets

vars == <<step, payload, draft, request, reply, outcome>>

NoPayload == [is |-> "none"]
NoMethod  == [calls |-> 0]
NoRequest == [path |-> "none"]
NoReply   == [is |-> "none"]

Pending              == [is |-> "pending"]
Returned(value)      == [is |-> "ok", value |-> value]
Panicked             == [is |-> "panic"]
Failed(why)          == [is |-> "error", why |-> why]
Refused(retry_after) == [is |-> "refused", retry_after |-> retry_after]

Finish(result) == step' = "done" /\ outcome' = result

-----------------------------------------------------------------------------
(* The caller                                                              *)

\* Of the fields that are set, those for a file hold a file in a form.
Assigned(method, form, names, value) ==
  [name \in DOMAIN form \cup names |->
     IF name \notin names THEN form[name]
     ELSE IF method.body = "form" /\ name \in InputFileFields THEN value
     ELSE NoFile]

FilesFor(method, names, number) ==
  IF method.body = "form" /\ names \cap InputFileFields # {}
  THEN {InputFile(kind, number) : kind \in InputFileKind}
  ELSE {NoFile}

Constructed(method, form, media) ==
  /\ step' = "built"
  /\ draft' = [method |-> method, form |-> form, media |-> media, calls |-> 0]
  /\ UNCHANGED <<request, reply, outcome>>

Construct ==
  /\ step = "start"
  /\ \E method \in Methods \ WithPayload : \E given \in method.made :
     \E value \in FilesFor(method, given, 1) :
       Constructed(method, Assigned(method, EmptyForm, given, value), <<>>)
  /\ UNCHANGED payload

Setter ==
  /\ step = "built"
  /\ draft.calls < MaxSetters
  /\ \E names \in draft.method.set :
       \E value \in FilesFor(draft.method, names, 2) :
         draft' = [draft EXCEPT !.form = Assigned(draft.method, @, names, value),
                                !.calls = @ + 1]
  /\ UNCHANGED <<step, payload, request, reply, outcome>>

\* EditMessageMedia::new and with_inline_message_id, with an InputMedia.
EditMedia ==
  /\ step = "start"
  /\ \E place \in {InChat, Inline}, kind \in InputMediaKind :
     \E info \in {{}} \cup Each(InputMediaInfo[kind]), f, t \in FileKinds :
       LET given   == InputFile(f, 1)
           plain   == InputMediaNew(kind, given, info)
           thumbed == InputMediaWithThumb(kind, given, InputFile(t, 2), info)
       IN  \E media \in {plain} \cup IF TakesThumb(kind) THEN {thumbed} ELSE {} :
             Constructed(EditMessageMedia,
               insert_texts(media.form, place \cup {"media"}), <<media.item>>)
  /\ UNCHANGED payload

StartGroup ==
  /\ step = "start"
  /\ step' = "group"
  /\ payload' = EmptyGroup
  /\ UNCHANGED <<draft, request, reply, outcome>>

AddItem ==
  /\ step = "group"
  /\ Len(payload.items) < MaxItems
  /\ LET next == 2 * Len(payload.items) + 1
     IN  \E kind \in MediaGroupItem, f \in FileKinds :
           payload' = add_item(payload, kind, InputFile(f, next))
  /\ UNCHANGED <<step, draft, request, reply, outcome>>

AddItemWithThumb ==
  /\ step = "group"
  /\ Len(payload.items) < MaxItems
  /\ LET next == 2 * Len(payload.items) + 1
     IN  \E kind \in MediaGroupThumbItem, f, t \in FileKinds :
           payload' = add_item_with_thumb(payload, kind, InputFile(f, next),
                        InputFile(t, next + 1))
  /\ UNCHANGED <<step, draft, request, reply, outcome>>

\* SendMediaGroup::new fails when the group has too few or too many items.
SendGroup ==
  /\ step = "group"
  /\ LET fields == into_form(payload, MinGroupAttachments, MaxGroupAttachments)
     IN  IF fields = {}
         THEN Finish(Failed("attachments")) /\ UNCHANGED <<draft, request, reply>>
         ELSE \E form \in fields :
                Constructed(SendMediaGroup, insert_texts(form, {"chat_id"}),
                  payload.items)
  /\ payload' = NoPayload

\* Inline query results, contents of messages, markups and buttons.
Objects ==
  [InlineQueryResult |-> InlineQueryResult,
   InputMessageContent |-> InputMessageContent, ReplyMarkup |-> ReplyMarkup,
   InlineKeyboardButton |-> InlineKeyboardButton, KeyboardButton |-> KeyboardButton]

Variant == Objects[payload.enum][payload.variant]

NewObject ==
  /\ step = "start"
  /\ step' = "object"
  /\ \E enum \in DOMAIN Objects : \E variant \in DOMAIN Objects[enum] :
       payload' = [enum |-> enum, variant |-> variant,
                   keys |-> Objects[enum][variant].required]
  /\ UNCHANGED <<draft, request, reply, outcome>>

SetKey ==
  /\ step = "object"
  /\ Cardinality(payload.keys \ Variant.required) < MaxSetters
  /\ \E key \in Variant.optional :
       payload' = [payload EXCEPT !.keys = With(@, key)]
  /\ UNCHANGED <<step, draft, request, reply, outcome>>

UseObject ==
  /\ step = "object"
  /\ IF payload.enum \in {"InlineQueryResult", "InputMessageContent"}
     THEN Constructed(AnswerInlineQuery,
            insert_texts(EmptyForm, {"inline_query_id", "results"}), <<>>)
     ELSE Constructed(SendMessage,
            insert_texts(EmptyForm, {"chat_id", "text", "reply_markup"}), <<>>)
  /\ payload' = NoPayload

\* An element arrives in a message, perhaps without what its kind needs.
ReceiveElement ==
  /\ step = "start"
  /\ \E kind \in EncryptedPassportElementKind, fields \in SUBSET ElementFields :
       IF Parsed(kind, fields) = {}
       THEN Finish(Failed("parse")) /\ UNCHANGED payload
       ELSE /\ step' = "element"
            /\ payload' = [kind |-> kind, fields |-> Parsed(kind, fields),
                           error |-> {}]
            /\ UNCHANGED outcome
  /\ UNCHANGED <<draft, request, reply>>

\* A constructor of PassportElementError, and SetPassportDataErrors with it.
ReportError ==
  /\ step = "element"
  /\ \E error \in PassportElementError :
       /\ payload' = [payload EXCEPT !.error = {error}]
       /\ IF payload.kind \in error.kinds
          THEN Constructed(SetPassportDataErrors,
                 insert_texts(EmptyForm, {"user_id", "errors"}), <<>>)
          ELSE Finish(Failed("kind")) /\ UNCHANGED <<draft, request, reply>>

-----------------------------------------------------------------------------
(* Api::execute, and download_file, which has a GET instead of a method    *)

Request(verb, path, answer, body) ==
  [verb |-> verb, path |-> path, answer |-> answer, body |-> body]

JsonBody(method, form) ==
  [name \in DOMAIN form \cup method.nulls |->
     IF name \in DOMAIN form THEN "value" ELSE "null"]

\* The bodies that into_request and the executor make, none when they panic.
Bodies(method, form, missing) ==
  IF method.body = "form" THEN MultipartForm(form, missing)
  ELSE {JsonBody(method, form)}

\* At most one of the files that are given by their path cannot be opened.
Execute ==
  /\ step = "built"
  /\ \E missing \in {{}} \cup Each(PathFiles(draft.form)) :
       LET bodies == Bodies(draft.method, draft.form, missing)
           method == draft.method
       IN  IF bodies = {}
           THEN Finish(Panicked) /\ UNCHANGED request
           ELSE /\ step' = "sent"
                /\ \E body \in bodies :
                     request' = Request(method.verb, method.path,
                                        method.answer, body)
                /\ UNCHANGED outcome
  /\ UNCHANGED <<payload, draft, reply>>

Download ==
  /\ step = "start"
  /\ step' = "sent"
  /\ request' = Request("GET", "file", "bytes", [name \in {} |-> "value"])
  /\ UNCHANGED <<payload, draft, reply, outcome>>

\* The connection fails before the answer is there.
Lost ==
  /\ step = "sent"
  /\ Finish(Failed("transport"))
  /\ UNCHANGED <<payload, draft, request, reply>>

-----------------------------------------------------------------------------
(* Telegram: what it answers, as its documentation says                    *)

Edits ==
  {"editMessageCaption", "editMessageLiveLocation", "stopMessageLiveLocation",
   "editMessageMedia", "editMessageReplyMarkup", "editMessageText", "setGameScore"}

Sends ==
  {"sendMessage", "forwardMessage", "sendPhoto", "sendAudio", "sendDocument",
   "sendVideo", "sendAnimation", "sendVoice", "sendVideoNote", "sendLocation",
   "sendVenue", "sendContact", "sendPoll", "sendSticker", "sendInvoice", "sendGame"}

Others ==
  [sendMediaGroup |-> "Messages", stopPoll |-> "Poll",
   exportChatInviteLink |-> "String", getChat |-> "Chat",
   getChatMembersCount |-> "Integer", getGameHighScores |-> "GameHighScores",
   getFile |-> "File", uploadStickerFile |-> "File",
   getStickerSet |-> "StickerSet", getUpdates |-> "Updates",
   getWebhookInfo |-> "WebhookInfo", getMe |-> "User",
   getUserProfilePhotos |-> "UserProfilePhotos", file |-> "bytes"]

Result(type) == [type |-> type, members |-> {}]

\* Rights that exist in channels only, and in supergroups only, are left out
\* elsewhere.
Rights ==
  [all |-> AdminRights,
   channel |-> AdminRights \ {"can_pin_messages"},
   supergroup |-> AdminRights \ {"can_post_messages", "can_edit_messages"}]

Administrators ==
  {[status |-> "administrator", fields |-> {"can_be_edited"} \cup Rights[chat]] :
     chat \in RightsSent}

Creators == {[status |-> "creator", fields |-> {}]}

Members ==
  Administrators \cup Creators \cup
  {[status |-> "left", fields |-> {}], [status |-> "member", fields |-> {}],
   [status |-> "kicked", fields |-> {"until_date"}],
   [status |-> "restricted",
    fields |-> {"until_date", "is_member"} \cup MemberRights]}

NamesInline(body) ==
  "inline_message_id" \in DOMAIN body /\ body["inline_message_id"] # "null"

\* Messages that were sent in inline mode are edited without an answer.
Results(path, body) ==
  IF path \in Edits
  THEN {Result(IF NamesInline(body) THEN "bool" ELSE "Message")}
  ELSE IF path \in Sends THEN {Result("Message")}
  ELSE IF path = "getChatMember"
  THEN {[type |-> "ChatMember", members |-> {m}] : m \in Members}
  ELSE IF path = "getChatAdministrators"
  THEN {[type |-> "ChatMembers", members |-> admins] :
          admins \in SUBSET (Administrators \cup Creators)}
  ELSE {Result(IF path \in DOMAIN Others THEN Others[path] ELSE "bool")}

\* A JSON object with the fields of a response, or anything else.
Response(ok, result, description, retry_after) ==
  [is |-> "json", ok |-> ok, result |-> result, description |-> description,
   retry_after |-> retry_after]

Answers(path, body) ==
  {Response(TRUE, {result}, FALSE, {}) : result \in Results(path, body)} \cup
  {Response(FALSE, {}, TRUE, seconds) : seconds \in {{}, {1}}}

Garbage ==
  {Response(TRUE, {}, FALSE, {}), Response(FALSE, {}, FALSE, {}), [is |-> "text"]}

Answer ==
  /\ step = "sent"
  /\ step' = "answered"
  /\ reply' \in Answers(request.path, request.body) \cup Garbage
  /\ UNCHANGED <<payload, draft, request, outcome>>

-----------------------------------------------------------------------------
(* The result (types/response.rs)                                          *)

\* What ChatMember needs of a member with each status.
ChatMember ==
  [administrator |-> {"can_be_edited"} \cup AdminRights,
   creator |-> {}, left |-> {}, member |-> {},
   kicked |-> {"until_date"},
   restricted |-> {"until_date", "is_member"} \cup MemberRights]

EditMessageResult == {"Message", "bool"}

\* The results that are read as a type without an error.
Reads(type, result) ==
  /\ result.type \in
       IF type = "EditMessageResult" THEN EditMessageResult ELSE {type}
  /\ \A m \in result.members : ChatMember[m.status] \subseteq m.fields

\* Response::deserialize, and what execute makes of it.
Outcome(type, response) ==
  IF response.is # "json" THEN Failed("parse")
  ELSE IF ~ response.ok
  THEN IF response.description
       THEN Refused(response.retry_after) ELSE Failed("parse")
  ELSE IF response.result = {} THEN Failed("parse")
  ELSE LET result == CHOOSE r \in response.result : TRUE
       IN  IF Reads(type, result) THEN Returned(result) ELSE Failed("parse")

\* Whatever is downloaded is the file: no status is looked at.
Receive ==
  /\ step = "answered"
  /\ Finish(IF request.path = "file" THEN Returned(Result("bytes"))
            ELSE Outcome(request.answer, reply))
  /\ UNCHANGED <<payload, draft, request, reply>>

-----------------------------------------------------------------------------
Started(at, with, method, sent, received, got) ==
  /\ at = "start" /\ with = NoPayload /\ method = NoMethod
  /\ sent = NoRequest /\ received = NoReply /\ got = Pending

Init == Started(step, payload, draft, request, reply, outcome)

\* The caller has the outcome and turns to its next call.
NextCall ==
  /\ step = "done"
  /\ Started(step', payload', draft', request', reply', outcome')

Next ==
  \/ Construct \/ Setter \/ EditMedia
  \/ StartGroup \/ AddItem \/ AddItemWithThumb \/ SendGroup
  \/ NewObject \/ SetKey \/ UseObject
  \/ ReceiveElement \/ ReportError
  \/ Execute \/ Download \/ Lost \/ Answer \/ Receive \/ NextCall

Spec == Init /\ [][Next]_vars

-----------------------------------------------------------------------------
(* Correctness                                                             *)

\* The caller learns what Telegram answered: the result of a call that
\* succeeded is read and returned, whichever constructor named the message and
\* whoever the members are, and a refusal comes with its time to wait
\* (Api::execute, Response, and the Response type of every Method).
AnswerRead ==
  step = "done" /\ request # NoRequest /\ request.path # "file" /\
  reply \in Answers(request.path, request.body)
    => outcome = IF reply.ok THEN Returned(CHOOSE r \in reply.result : TRUE)
                 ELSE Refused(reply.retry_after)

\* An uploaded file is found under the reference to it.
Resolves(form, reference, given) ==
  /\ IsUpload(given) <=> reference # {}
  /\ \A name \in reference :
       name \in DOMAIN form /\ form[name] = given /\ request.body[name] = "file"

\* Every item of media refers to the files that were given for it, whatever
\* mixture of files and thumbs the other items have, and nothing is uploaded
\* that no item refers to (MediaGroup and InputMedia name the parts of the
\* form by counting). An animation that also describes a thumb hides its own.
AttachmentsResolve ==
  step = "sent" /\ draft # NoMethod /\ draft.media # <<>> =>
    LET items == {draft.media[i] : i \in DOMAIN draft.media}
    IN  /\ \A item \in items :
             /\ Resolves(draft.form, item.media, item.file)
             /\ "thumb" \notin item.info =>
                  \A thumb \in item.thumb_file :
                    Resolves(draft.form, ThumbOf(item), thumb)
        /\ Uploads(draft.form) \subseteq
             UNION {item.media \cup item.thumb : item \in items}

\* An error about an element is accepted when, and only when, elements of its
\* kind have the field that the error is about (passport/error.rs repeats what
\* passport/element.rs says).
ErrorsMatchElements ==
  payload # NoPayload /\ step \in {"built", "done"} =>
    \A error \in payload.error :
      (outcome # Failed("kind")) <=> error.field \in FieldsOf(payload.kind)

\* An object that a builder made is taken for what it was made as, whichever
\* of its setters were called: no two objects share a tag and all required
\* keys, and a button asks for one thing.
ReadAsMeant ==
  step = "object" =>
    /\ Reading(Objects[payload.enum], Variant.tag, payload.keys) =
         {payload.variant}
    /\ Cardinality(payload.keys \cap Requests) <= 1
=============================================================================
