----------------------------- MODULE RequestForms -----------------------------
(***************************************************************************)
(* Files and multipart forms of requests: tgbot/src/types/file.rs,         *)
(* request/form.rs, types/input_media/ and types/media_group.rs.           *)
(*                                                                         *)
(* A file is a record of its kind and a number that tells apart the files  *)
(* a caller gives; a form is a function from the names of its fields to    *)
(* files, with NoFile for a text. The JSON that goes into the field        *)
(* "media" is a sequence of items. An item refers to an uploaded file as   *)
(* attach://name; here it holds the name, and {} for any other text. An    *)
(* Option is a set with at most one element.                               *)
(***************************************************************************)
EXTENDS Naturals, Sequences, FiniteSets, TLC

InputFileKind == {"id", "url", "path", "reader"}

InputFile(kind, number) == [kind |-> kind, number |-> number]

NoFile == InputFile("text", 0)

\* The kinds that are sent as a part of a form and not as a text.
IsUpload(file) == file.kind \in {"path", "reader"}

EmptyForm == [name \in {} |-> NoFile]

\* A field that is there is replaced.
insert_field(form, name, value) ==
  [n \in DOMAIN form \cup {name} |-> IF n = name THEN value ELSE form[n]]

insert_texts(form, names) ==
  [name \in DOMAIN form \cup names |->
     IF name \in names THEN NoFile ELSE form[name]]

Uploads(form) == {name \in DOMAIN form : IsUpload(form[name])}

PathFiles(form) ==
  {form[name] : name \in {n \in DOMAIN form : form[n].kind = "path"}}

\* The multipart form is made of every field; a file that cannot be opened by
\* its path makes it panic.
MultipartForm(form, missing) ==
  IF PathFiles(form) \cap missing # {} THEN {}
  ELSE {[name \in DOMAIN form |-> IF IsUpload(form[name]) THEN "file" ELSE "text"]}

-----------------------------------------------------------------------------
(* An item of media: its kind, the names it refers to, the description     *)
(* that the caller gave, and the files (history).                          *)

MediaItem(kind, media, thumb, info, file, thumb_file) ==
  [kind |-> kind, media |-> media, thumb |-> thumb, info |-> info,
   file |-> file, thumb_file |-> thumb_file]

\* What the item refers to as its thumb: the description is flattened into
\* the item, so its thumb comes second and hides the other.
ThumbOf(item) == IF "thumb" \in item.info THEN {} ELSE item.thumb

\* What InputMedia and MediaGroup do with a file: the form, and a reference.
Inserted(form, name, file) ==
  IF IsUpload(file) THEN insert_field(form, name, file) ELSE form

Reference(name, file) == IF IsUpload(file) THEN {name} ELSE {}

-----------------------------------------------------------------------------
(* InputMedia (input_media/mod.rs)                                         *)

\* The kinds of media, and what can be said of them besides the media itself.
InputMediaAnimation ==
  {"thumb", "caption", "parse_mode", "width", "height", "duration"}
InputMediaAudio     == {"caption", "parse_mode", "duration", "performer", "title"}
InputMediaDocument  == {"caption", "parse_mode"}
InputMediaPhoto     == {"caption", "parse_mode"}
InputMediaVideo     ==
  {"caption", "parse_mode", "width", "height", "duration", "supports_streaming"}

InputMediaInfo ==
  [animation |-> InputMediaAnimation, audio |-> InputMediaAudio,
   document |-> InputMediaDocument, photo |-> InputMediaPhoto,
   video |-> InputMediaVideo]

InputMediaKind == DOMAIN InputMediaInfo

\* All but photos are converted from a tuple with a thumb.
TakesThumb(kind) == kind # "photo"

ThumbName == "tgbot_im_thumb"

\* InputMedia::new and InputMedia::with_thumb.
InputMediaNew(kind, file, info) ==
  [form |-> Inserted(EmptyForm, "tgbot_im_file", file),
   item |-> MediaItem(kind, Reference("tgbot_im_file", file), {}, info, file, {})]

InputMediaWithThumb(kind, file, thumb, info) ==
  [form |-> Inserted(Inserted(EmptyForm, "tgbot_im_file", file), ThumbName, thumb),
   item |-> MediaItem(kind, Reference("tgbot_im_file", file),
              Reference(ThumbName, thumb), info, file, {thumb})]

-----------------------------------------------------------------------------
(* MediaGroup (media_group.rs)                                             *)

EmptyGroup == [files |-> EmptyForm, items |-> <<>>]

\* A file is named after the number of files so far, items that are not
\* uploaded leave no gap.
FileName_of_item(group) == "tgbot_im_file_" \o ToString(Len(group.items))

FileName(group) ==
  "tgbot_im_file_" \o ToString(Cardinality(DOMAIN group.files))

add_file(group, file) ==
  [group EXCEPT !.files = Inserted(group.files, FileName(group), file)]

add_item(group, kind, file) ==
  LET item == MediaItem(kind, Reference(FileName(group), file), {}, {}, file, {})
  IN  [add_file(group, file) EXCEPT !.items = Append(@, item)]

add_item_with_thumb(group, kind, file, thumb) ==
  LET with == add_file(group, file)
      item == MediaItem(kind, Reference(FileName(group), file),
                Reference(FileName(with), thumb), {}, file, {thumb})
  IN  [add_file(with, thumb) EXCEPT !.items = Append(@, item)]

\* Kinds of items, and those that take a thumb.
MediaGroupItem      == {"photo", "video"}
MediaGroupThumbItem == {"video"}

\* The fields of the form, none when the group has too few or too many items.
into_form(group, min, max) ==
  IF Len(group.items) \in min .. max
  THEN {insert_field(group.files, "media", NoFile)}
  ELSE {}
=============================================================================
