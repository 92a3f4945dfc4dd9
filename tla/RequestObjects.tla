---------------------------- MODULE RequestObjects ----------------------------
(***************************************************************************)
(* The JSON objects that go into requests, as builders: inline query       *)
(* results and message contents (tgbot/src/types/inline_mode), and reply   *)
(* markups with their buttons (types/reply_markup). An object is a set of  *)
(* the keys that are sent; of the values only the tag "type" matters,      *)
(* which says what kind of object it is where serde has one.               *)
(***************************************************************************)
EXTENDS FiniteSets

\* The tag, the keys of every object, and those that setters add.
Object(tag, required, optional) ==
  [tag |-> tag, required |-> required, optional |-> optional]

Captioned == {"caption", "parse_mode"}
WithThumb == {"thumb_url", "thumb_width", "thumb_height"}
Replies   == {"reply_markup", "input_message_content"}

-----------------------------------------------------------------------------
(* Inline query results (inline_mode/query_result)                         *)

InlineQueryResultArticle ==
  Object("article", {"id", "title", "input_message_content"},
    {"reply_markup", "url", "hide_url", "description"} \cup WithThumb)

InlineQueryResultAudio ==
  Object("audio", {"id", "audio_url", "title"},
    {"performer", "audio_duration"} \cup Captioned \cup Replies)

InlineQueryResultContact ==
  Object("contact", {"id", "phone_number", "first_name"},
    {"last_name", "vcard"} \cup WithThumb \cup Replies)

InlineQueryResultDocument ==
  Object("document", {"id", "title", "document_url", "mime_type"},
    {"description"} \cup Captioned \cup WithThumb \cup Replies)

InlineQueryResultGame ==
  Object("game", {"id", "game_short_name"}, {"reply_markup"})

InlineQueryResultGif ==
  Object("gif", {"id", "gif_url", "thumb_url"},
    {"gif_width", "gif_height", "gif_duration", "title"} \cup Captioned \cup
      Replies)

InlineQueryResultLocation ==
  Object("location", {"id", "latitude", "longitude", "title"},
    {"live_period"} \cup WithThumb \cup Replies)

InlineQueryResultMpeg4Gif ==
  Object("mpeg4_gif", {"id", "mpeg4_url", "thumb_url"},
    {"mpeg4_width", "mpeg4_height", "mpeg4_duration", "title"} \cup
      Captioned \cup Replies)

InlineQueryResultPhoto ==
  Object("photo", {"id", "photo_url", "thumb_url"},
    {"photo_width", "photo_height", "title", "description"} \cup Captioned
      \cup Replies)

InlineQueryResultVenue ==
  Object("venue", {"id", "latitude", "longitude", "title", "address"},
    {"foursquare_id", "foursquare_type"} \cup WithThumb \cup Replies)

InlineQueryResultVideo ==
  Object("video", {"id", "video_url", "mime_type", "thumb_url", "title"},
    {"video_width", "video_height", "video_duration", "description"} \cup
      Captioned \cup Replies)

InlineQueryResultVoice ==
  Object("voice", {"id", "voice_url", "title"},
    {"voice_duration"} \cup Captioned \cup Replies)

InlineQueryResultCachedAudio ==
  Object("audio", {"id", "audio_file_id"}, Captioned \cup Replies)

InlineQueryResultCachedDocument ==
  Object("document", {"id", "title", "document_file_id"},
    {"description"} \cup Captioned \cup Replies)

InlineQueryResultCachedGif ==
  Object("gif", {"id", "gif_file_id"}, {"title"} \cup Captioned \cup Replies)

InlineQueryResultCachedMpeg4Gif ==
  Object("mpeg4_gif", {"id", "mpeg4_file_id"},
    {"title"} \cup Captioned \cup Replies)

InlineQueryResultCachedPhoto ==
  Object("photo", {"id", "photo_file_id"},
    {"title", "description"} \cup Captioned \cup Replies)

InlineQueryResultCachedSticker ==
  Object("sticker", {"id", "sticker_file_id"}, Replies)

InlineQueryResultCachedVideo ==
  Object("video", {"id", "video_file_id", "title"},
    {"description"} \cup Captioned \cup Replies)

InlineQueryResultCachedVoice_by_url ==
  Object("voice", {"id", "voice_url", "title"}, Captioned \cup Replies)

InlineQueryResultCachedVoice ==
  Object("voice", {"id", "voice_file_id", "title"}, Captioned \cup Replies)

\* Names of a set of objects are those of the variants of an enum.
InlineQueryResult ==
  [Article |-> InlineQueryResultArticle,
   Audio |-> InlineQueryResultAudio,
   CachedAudio |-> InlineQueryResultCachedAudio,
   CachedDocument |-> InlineQueryResultCachedDocument,
   CachedGif |-> InlineQueryResultCachedGif,
   CachedMpeg4Gif |-> InlineQueryResultCachedMpeg4Gif,
   CachedPhoto |-> InlineQueryResultCachedPhoto,
   CachedSticker |-> InlineQueryResultCachedSticker,
   CachedVideo |-> InlineQueryResultCachedVideo,
   CachedVoice |-> InlineQueryResultCachedVoice,
   Contact |-> InlineQueryResultContact,
   Document |-> InlineQueryResultDocument,
   Game |-> InlineQueryResultGame,
   Gif |-> InlineQueryResultGif,
   Location |-> InlineQueryResultLocation,
   Mpeg4Gif |-> InlineQueryResultMpeg4Gif,
   Photo |-> InlineQueryResultPhoto,
   Venue |-> InlineQueryResultVenue,
   Video |-> InlineQueryResultVideo,
   Voice |-> InlineQueryResultVoice]

-----------------------------------------------------------------------------
(* Contents of messages, without a tag (inline_mode/message_content.rs)    *)

InputMessageContentContact ==
  Object("none", {"phone_number", "first_name"}, {"last_name", "vcard"})

InputMessageContentLocation ==
  Object("none", {"latitude", "longitude"}, {"live_period"})

InputMessageContentText ==
  Object("none", {"message_text"}, {"parse_mode", "disable_web_page_preview"})

InputMessageContentVenue ==
  Object("none", {"latitude", "longitude", "title", "address"},
    {"foursquare_id", "foursquare_type"})

InputMessageContent ==
  [Contact |-> InputMessageContentContact,
   Location |-> InputMessageContentLocation,
   Text |-> InputMessageContentText, Venue |-> InputMessageContentVenue]

-----------------------------------------------------------------------------
(* Reply markups, without a tag, and buttons (reply_markup/)               *)

ForceReply == Object("none", {"force_reply"}, {"selective"})

InlineKeyboardMarkup == Object("none", {"inline_keyboard"}, {})

\* Flags that are FALSE are left out.
ReplyKeyboardMarkup ==
  Object("none", {"keyboard"},
    {"resize_keyboard", "one_time_keyboard", "selective"})

ReplyKeyboardRemove == Object("none", {"remove_keyboard"}, {"selective"})

ReplyMarkup ==
  [ForceReply |-> ForceReply, InlineKeyboardMarkup |-> InlineKeyboardMarkup,
   ReplyKeyboardMarkup |-> ReplyKeyboardMarkup,
   ReplyKeyboardRemove |-> ReplyKeyboardRemove]

\* A button with one action; there are no setters.
InlineButton(action) == Object("none", {"text", action}, {})

InlineKeyboardButton ==
  [action \in {"url", "callback_data", "switch_inline_query",
               "switch_inline_query_current_chat", "callback_game", "pay"} |->
     InlineButton(action)]

\* What the button of a reply keyboard may ask for.
Requests == {"request_contact", "request_location"}

KeyboardButton == [Button |-> Object("none", {"text"}, Requests)]

\* request_contact and request_location: the last one called is kept.
Asked(keys, request) == (keys \ Requests) \cup {request}

\* The setter of a key, of any object.
With(keys, key) == IF key \in Requests THEN Asked(keys, key) ELSE keys \cup {key}

-----------------------------------------------------------------------------
(* What the receiver takes an object for: of the variants with this tag    *)
(* that have all the keys they need, the one that needs most. External.    *)

Matching(enum, tag, keys) ==
  {v \in DOMAIN enum : enum[v].tag = tag /\ enum[v].required \subseteq keys}

Reading(enum, tag, keys) ==
  LET matching == Matching(enum, tag, keys)
  IN  {v \in matching : ~ \E w \in matching :
         enum[v].required \subseteq enum[w].required /\ v # w}

===============================================================================
