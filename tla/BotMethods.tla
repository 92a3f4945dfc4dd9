------------------------------ MODULE BotMethods ------------------------------
(***************************************************************************)
(* The methods of the Bot API that a bot can call (tgbot/src/methods). A   *)
(* method is a builder: a constructor gives its first fields, every setter *)
(* assigns some more, and into_request makes a POST with a JSON object, a  *)
(* POST with a multipart form, or a GET without a body. Here a method is   *)
(* what its builder allows; ApiClient runs it. Fields have the names they  *)
(* are sent with, and of their values only files and objects matter, which *)
(* are in RequestForms and RequestObjects.                                 *)
(***************************************************************************)

\* The one constructor of a method gives these fields.
New(fields) == {fields}

\* One setter for each of these fields.
Each(fields) == {{field} : field \in fields}

\* made: what each constructor gives; set: what each setter assigns; nulls:
\* fields that are sent as null when they have no value (others are left out).
Method(path, verb, body, answer, made, set) ==
  [path |-> path, verb |-> verb, body |-> body, answer |-> answer,
   made |-> made, set |-> set, nulls |-> {}]

Json(path, answer, made, set) == Method(path, "POST", "json", answer, made, set)

Form(path, answer, made, set) == Method(path, "POST", "form", answer, made, set)

Empty(path, answer) == Method(path, "GET", "empty", answer, New({}), {})

\* The two ways to name the message that an edit is about.
InChat == {"chat_id", "message_id"}
Inline == {"inline_message_id"}

Common == {"disable_notification", "reply_to_message_id", "reply_markup"}

\* What promote_all and demote_all, and restrict_all and allow_all assign.
AdminRights == {"can_change_info", "can_post_messages", "can_edit_messages",
   "can_delete_messages", "can_invite_users", "can_restrict_members",
   "can_pin_messages", "can_promote_members"}
MemberRights == {"can_send_messages", "can_send_media_messages",
   "can_send_other_messages", "can_add_web_page_previews"}

\* Answers to queries (methods/answer/)
AnswerCallbackQuery ==
  Json("answerCallbackQuery", "bool",
    New({"callback_query_id"}),
    Each({"text", "show_alert", "url", "cache_time"}))
AnswerInlineQuery ==
  Json("answerInlineQuery", "bool",
    New({"inline_query_id", "results"}),
    Each({"cache_time", "is_personal", "next_offset", "switch_pm_text",
      "switch_pm_parameter"}))
AnswerPreCheckoutQuery ==
  Json("answerPreCheckoutQuery", "bool",
    {{"pre_checkout_query_id", "ok"},
     {"pre_checkout_query_id", "ok", "error_message"}},
    {})
AnswerShippingQuery ==
  Json("answerShippingQuery", "bool",
    {{"shipping_query_id", "ok", "shipping_options"},
     {"shipping_query_id", "ok", "error_message"}},
    {})

\* Chats (methods/chat/)
DeleteChatPhoto ==
  Json("deleteChatPhoto", "bool", New({"chat_id"}), {})
DeleteChatStickerSet ==
  Json("deleteChatStickerSet", "bool", New({"chat_id"}), {})
ExportChatInviteLink ==
  Json("exportChatInviteLink", "String", New({"chat_id"}), {})
GetChat ==
  Json("getChat", "Chat", New({"chat_id"}), {})
GetChatAdministrators ==
  Json("getChatAdministrators", "ChatMembers", New({"chat_id"}), {})
GetChatMembersCount ==
  Json("getChatMembersCount", "Integer", New({"chat_id"}), {})
LeaveChat ==
  Json("leaveChat", "bool", New({"chat_id"}), {})
PinChatMessage ==
  Json("pinChatMessage", "bool",
    New({"chat_id", "message_id"}), Each({"disable_notification"}))
SetChatDescription ==
  Json("setChatDescription", "bool", New({"chat_id"}), Each({"description"}))
SetChatPhoto ==
  Form("setChatPhoto", "bool", New({"chat_id", "photo"}), {})
SetChatStickerSet ==
  Json("setChatStickerSet", "bool", New({"chat_id", "sticker_set_name"}), {})
SetChatTitle ==
  Json("setChatTitle", "bool", New({"chat_id", "title"}), {})
UnpinChatMessage ==
  Json("unpinChatMessage", "bool", New({"chat_id"}), {})

\* Members of a chat (methods/chat_member/)
GetChatMember ==
  Json("getChatMember", "ChatMember", New({"chat_id", "user_id"}), {})
KickChatMember ==
  Json("kickChatMember", "bool",
    New({"chat_id", "user_id"}), Each({"until_date"}))
PromoteChatMember ==
  Json("promoteChatMember", "bool",
    New({"chat_id", "user_id"}), Each(AdminRights) \cup {AdminRights})
RestrictChatMember ==
  Json("restrictChatMember", "bool",
    New({"chat_id", "user_id"}),
    Each({"until_date"} \cup MemberRights) \cup {MemberRights})
UnbanChatMember ==
  Json("unbanChatMember", "bool", New({"chat_id", "user_id"}), {})

\* Games (methods/game/)
GetGameHighScores ==
  Json("getGameHighScores", "GameHighScores",
    {{"user_id"} \cup InChat, {"user_id"} \cup Inline}, {})
SendGame ==
  Json("sendGame", "Message",
    New({"chat_id", "game_short_name"}), Each(Common))
SetGameScore_message ==
  Json("setGameScore", "Message",
    {{"user_id", "score"} \cup InChat, {"user_id", "score",
      "inline_message_id"}},
    Each({"force", "disable_edit_message"}))
SetGameScore ==
  Json("setGameScore", "EditMessageResult",
    {{"user_id", "score"} \cup InChat, {"user_id", "score",
      "inline_message_id"}},
    Each({"force", "disable_edit_message"}))

\* Files (methods/get_file.rs)
GetFile ==
  Json("getFile", "File", New({"file_id"}), {})

\* Messages (methods/message/)
DeleteMessage ==
  Json("deleteMessage", "bool", New({"chat_id", "message_id"}), {})
EditMessageCaption ==
  Json("editMessageCaption", "EditMessageResult",
    {InChat, Inline},
    Each({"caption", "parse_mode", "reply_markup"}))
EditMessageLiveLocation ==
  Json("editMessageLiveLocation", "EditMessageResult",
    {{"latitude", "longitude"} \cup place : place \in {InChat, Inline}},
    Each({"reply_markup"}))
StopMessageLiveLocation ==
  [Json("stopMessageLiveLocation", "EditMessageResult",
     {InChat, Inline}, Each({"reply_markup"}))
   EXCEPT !.nulls = InChat \cup Inline \cup {"reply_markup"}]
EditMessageMedia ==
  Form("editMessageMedia", "EditMessageResult",
    {{"media"} \cup InChat, {"media"} \cup Inline},
    Each({"reply_markup"}))
EditMessageReplyMarkup ==
  Json("editMessageReplyMarkup", "EditMessageResult",
    {InChat, Inline}, Each({"reply_markup"}))
EditMessageText ==
  Json("editMessageText", "EditMessageResult",
    {{"text"} \cup InChat, {"text"} \cup Inline},
    Each({"parse_mode", "disable_web_page_preview", "reply_markup"}))
ForwardMessage ==
  Json("forwardMessage", "Message",
    New({"chat_id", "from_chat_id", "message_id"}),
    Each({"disable_notification"}))
SendMessage ==
  Json("sendMessage", "Message",
    New({"chat_id", "text"}),
    Each({"parse_mode", "disable_web_page_preview"} \cup Common))

\* Telegram Passport (methods/passport/)
SetPassportDataErrors ==
  Json("setPassportDataErrors", "bool", New({"user_id", "errors"}), {})

\* Polls (methods/poll.rs)
SendPoll ==
  Json("sendPoll", "Message",
    New({"chat_id", "question", "options"}), Each({"options"} \cup Common))
StopPoll ==
  Json("stopPoll", "Poll",
    New({"chat_id", "message_id"}), Each({"reply_markup"}))

\* Sending (methods/send/)
SendAnimation ==
  Form("sendAnimation", "Message",
    New({"chat_id", "animation"}),
    Each({"duration", "width", "height", "thumb", "caption", "parse_mode"}
      \cup Common))
SendAudio ==
  Form("sendAudio", "Message",
    New({"chat_id", "audio"}),
    Each({"caption", "parse_mode", "duration", "performer", "title",
      "thumb"} \cup Common))
SendChatAction ==
  Json("sendChatAction", "bool", New({"chat_id", "action"}), {})
SendContact ==
  Json("sendContact", "Message",
    New({"chat_id", "phone_number", "first_name"}),
    Each({"last_name", "vcard"} \cup Common))
SendDocument ==
  Form("sendDocument", "Message",
    New({"chat_id", "document"}),
    Each({"thumb", "caption", "parse_mode"} \cup Common))
SendInvoice ==
  Json("sendInvoice", "Message",
    New({"chat_id", "title", "description", "payload", "provider_token",
      "start_parameter", "currency", "prices"}),
    Each({"provider_data", "photo_url", "photo_size", "photo_width",
      "photo_height", "need_name", "need_phone_number", "need_email",
      "need_shipping_address", "send_phone_number_to_provider",
      "send_email_to_provider", "is_flexible"} \cup Common))
SendLocation ==
  Json("sendLocation", "Message",
    New({"chat_id", "latitude", "longitude"}),
    Each({"live_period"} \cup Common))
SendMediaGroup ==
  Form("sendMediaGroup", "Messages",
    New({"chat_id", "media"}),
    Each({"disable_notification", "reply_to_message_id"}))
SendPhoto ==
  Form("sendPhoto", "Message",
    New({"chat_id", "photo"}), Each({"caption", "parse_mode"} \cup Common))
SendVenue ==
  Json("sendVenue", "Message",
    New({"chat_id", "latitude", "longitude", "title", "address"}),
    Each({"foursquare_id", "foursquare_type"} \cup Common))
SendVideo ==
  Form("sendVideo", "Message",
    New({"chat_id", "video"}),
    Each({"duration", "width", "height", "thumb", "caption", "parse_mode",
      "supports_streaming"} \cup Common))
SendVideoNote ==
  Form("sendVideoNote", "Message",
    New({"chat_id", "video_note"}),
    Each({"duration", "length", "thumb"} \cup Common))
SendVoice ==
  Form("sendVoice", "Message",
    New({"chat_id", "voice"}),
    Each({"caption", "parse_mode", "duration"} \cup Common))

\* Stickers (methods/sticker/)
AddStickerToSet ==
  Form("addStickerToSet", "bool",
    New({"user_id", "name", "png_sticker", "emojis"}),
    Each({"mask_position"}))
DeleteStickerFromSet ==
  Json("deleteStickerFromSet", "bool", New({"sticker"}), {})
GetStickerSet ==
  Json("getStickerSet", "StickerSet", New({"name"}), {})
CreateNewStickerSet ==
  Form("createNewStickerSet", "bool",
    New({"user_id", "name", "title", "png_sticker", "emojis"}),
    Each({"contains_masks", "mask_position"}))
SendSticker ==
  Form("sendSticker", "Message", New({"chat_id", "sticker"}), Each(Common))
SetStickerPositionInSet ==
  Json("setStickerPositionInSet", "bool", New({"sticker", "position"}), {})
UploadStickerFile ==
  Form("uploadStickerFile", "File", New({"user_id", "png_sticker"}), {})

\* Updates and webhooks (methods/updates.rs)
GetUpdates ==
  Json("getUpdates", "Updates",
    New({}), Each({"offset", "limit", "timeout", "allowed_updates"}))
SetWebhook ==
  Json("setWebhook", "bool",
    New({"url"}), Each({"certificate", "max_connections", "allowed_updates"}))
DeleteWebhook == Empty("deleteWebhook", "bool")
GetWebhookInfo == Empty("getWebhookInfo", "WebhookInfo")

\* Users (methods/user/)
GetMe == Empty("getMe", "User")
GetUserProfilePhotos ==
  Json("getUserProfilePhotos", "UserProfilePhotos",
    New({"user_id"}), Each({"offset", "limit"}))

\* The fields of forms that take an InputFile.
InputFileFields ==
  {"animation", "audio", "document", "photo", "png_sticker", "sticker", "thumb",
   "video", "video_note", "voice"}

\* Calls with a payload that takes several steps to build.
WithPayload ==
  {EditMessageMedia, SendMediaGroup, AnswerInlineQuery, SetPassportDataErrors}

Methods ==
  {AnswerCallbackQuery, AnswerInlineQuery, AnswerPreCheckoutQuery,
   AnswerShippingQuery, DeleteChatPhoto, DeleteChatStickerSet,
   ExportChatInviteLink, GetChat, GetChatAdministrators,
   GetChatMembersCount, LeaveChat, PinChatMessage, SetChatDescription,
   SetChatPhoto, SetChatStickerSet, SetChatTitle, UnpinChatMessage,
   GetChatMember, KickChatMember, PromoteChatMember, RestrictChatMember,
   UnbanChatMember, GetGameHighScores, SendGame, SetGameScore, GetFile,
   DeleteMessage, EditMessageCaption, EditMessageLiveLocation,
   StopMessageLiveLocation, EditMessageMedia, EditMessageReplyMarkup,
   EditMessageText, ForwardMessage, SendMessage, SetPassportDataErrors,
   SendPoll, StopPoll, SendAnimation, SendAudio, SendChatAction,
   SendContact, SendDocument, SendInvoice, SendLocation, SendMediaGroup,
   SendPhoto, SendVenue, SendVideo, SendVideoNote, SendVoice,
   AddStickerToSet, DeleteStickerFromSet, GetStickerSet,
   CreateNewStickerSet, SendSticker, SetStickerPositionInSet,
   UploadStickerFile, GetUpdates, SetWebhook, DeleteWebhook, GetWebhookInfo,
   GetMe, GetUserProfilePhotos}
===============================================================================
