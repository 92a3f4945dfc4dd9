---------------------------- MODULE ApiClientProofs ----------------------------
(***************************************************************************)
(* Proofs about ApiClient: what a caller uploads is found where the        *)
(* request refers to it, what Telegram answers reaches the caller, and the *)
(* tables of objects, elements and errors agree, for groups of any size    *)
(* with any files, any number of setters and any bounds of a group.        *)
(***************************************************************************)
EXTENDS ApiClient, FiniteSetTheorems, TLAPS

\* The name of a file of a group (media_group.rs, add_file).
Numbered(n) == "tgbot_im_file_" \o ToString(n)

\* Fields of the forms with media that hold texts.
TextFields ==
  {"media", "chat_id", "message_id", "inline_message_id", "reply_markup",
   "disable_notification", "reply_to_message_id"}

\* What format! makes of a number: different numbers look different.
NumbersDiffer ==
  /\ \A m, n \in Nat : Numbered(m) = Numbered(n) => m = n
  /\ \A n \in Nat : Numbered(n) \notin TextFields

-----------------------------------------------------------------------------
(* Forms with media                                                        *)

\* A form holds the given file under the reference, and no reference is made
\* to a file that is not uploaded.
Found(form, reference, given) ==
  /\ IsUpload(given) <=> reference # {}
  /\ \A name \in reference : name \in DOMAIN form /\ form[name] = given

ItemFound(form, item) ==
  /\ Found(form, item.media, item.file)
  /\ \A thumb \in item.thumb_file : Found(form, item.thumb, thumb)

\* Every item finds its files, and every file is for an item.
MediaOK(form, media) ==
  /\ \A i \in DOMAIN media : ItemFound(form, media[i])
  /\ \A name \in Uploads(form) :
       /\ name \notin TextFields
       /\ \E i \in DOMAIN media : name \in media[i].media \cup media[i].thumb

\* Text fields are set in the form, and nothing else.
TextsSet(form, new) ==
  /\ \A name \in DOMAIN form \ TextFields :
       name \in DOMAIN new /\ new[name] = form[name]
  /\ \A name \in DOMAIN new :
       \/ name \in DOMAIN form /\ new[name] = form[name]
       \/ name \in TextFields /\ new[name] = NoFile

\* Setting text fields does not hide a file.
LEMMA TextsHideNothing ==
  ASSUME NEW form, NEW new, NEW media, MediaOK(form, media), TextsSet(form, new)
  PROVE  MediaOK(new, media)
<1>1. ~IsUpload(NoFile)
  BY DEF IsUpload, NoFile, InputFile
<1>2. Uploads(new) \subseteq Uploads(form)
  BY <1>1 DEF Uploads, TextsSet
<1>3. ASSUME NEW reference, NEW given, Found(form, reference, given)
      PROVE  Found(new, reference, given)
  <2> SUFFICES ASSUME NEW name \in reference
               PROVE  name \in DOMAIN new /\ new[name] = given
    BY <1>3 DEF Found
  <2>1. name \in DOMAIN form /\ form[name] = given /\ IsUpload(given)
    BY <1>3 DEF Found
  <2>2. name \in Uploads(form)
    BY <2>1 DEF Uploads
  <2>3. name \notin TextFields
    BY <2>2 DEF MediaOK
  <2> QED
    BY <2>1, <2>3 DEF TextsSet
<1>4. \A i \in DOMAIN media : ItemFound(new, media[i])
  BY <1>3 DEF MediaOK, ItemFound
<1> QED
  BY <1>2, <1>4 DEF MediaOK

LEMMA InsertTexts ==
  ASSUME NEW form, NEW names \in SUBSET TextFields
  PROVE  TextsSet(form, insert_texts(form, names))
BY DEF TextsSet, insert_texts

LEMMA InsertText ==
  ASSUME NEW form, NEW name \in TextFields
  PROVE  TextsSet(form, insert_field(form, name, NoFile))
BY DEF TextsSet, insert_field

\* A file goes into a form under a name that is new there.
LEMMA Insert ==
  ASSUME NEW form, NEW name, name \notin DOMAIN form, NEW given
  PROVE  LET new == Inserted(form, name, given)
         IN  /\ \A reference, other :
                  Found(form, reference, other) => Found(new, reference, other)
             /\ Found(new, Reference(name, given), given)
             /\ Uploads(new) = Uploads(form) \cup Reference(name, given)
             /\ DOMAIN new = DOMAIN form \cup Reference(name, given)
<1>1. CASE IsUpload(given)
  <2> DEFINE new == Inserted(form, name, given)
  <2>1. /\ new = [n \in DOMAIN form \cup {name} |-> IF n = name THEN given ELSE form[n]]
        /\ Reference(name, given) = {name}
    BY <1>1 DEF Inserted, insert_field, Reference
  <2>2. /\ DOMAIN new = DOMAIN form \cup {name} /\ new[name] = given
        /\ \A n \in DOMAIN form : new[n] = form[n]
    BY <2>1
  <2> HIDE DEF new
  <2>3. Found(new, Reference(name, given), given)
    BY <1>1, <2>1, <2>2 DEF Found
  <2>4. Uploads(new) = Uploads(form) \cup {name}
    BY <1>1, <2>2 DEF Uploads
  <2>5. \A reference, other : Found(form, reference, other) => Found(new, reference, other)
    BY <2>2 DEF Found
  <2> QED
    BY <2>1, <2>2, <2>3, <2>4, <2>5 DEF new
<1>2. CASE ~IsUpload(given)
  BY <1>2 DEF Inserted, Reference, Found
<1> QED
  BY <1>1, <1>2

-----------------------------------------------------------------------------
(* One medium: InputMedia                                                  *)

LEMMA EmptyFormHasNothing == DOMAIN EmptyForm = {} /\ Uploads(EmptyForm) = {}
BY DEF EmptyForm, Uploads

LEMMA OneMedium ==
  ASSUME NEW kind, NEW given, NEW info
  PROVE  LET made == InputMediaNew(kind, given, info)
         IN  MediaOK(made.form, <<made.item>>)
<1> DEFINE name == "tgbot_im_file"
           form == Inserted(EmptyForm, name, given)
           item == MediaItem(kind, Reference(name, given), {}, info, given, {})
<1>1. Found(form, Reference(name, given), given) /\ Uploads(form) = Reference(name, given)
  <2> HIDE DEF name
  <2>1. name \notin DOMAIN EmptyForm
    BY EmptyFormHasNothing
  <2>2. /\ Found(form, Reference(name, given), given)
        /\ Uploads(form) = Uploads(EmptyForm) \cup Reference(name, given)
    BY <2>1, Insert
  <2> QED
    BY <2>2, EmptyFormHasNothing
<1>2. Uploads(form) \cap TextFields = {}
  BY <1>1 DEF Reference, TextFields
<1>3. /\ item.media = Reference(name, given) /\ item.file = given
      /\ item.thumb_file = {}
  BY DEF MediaItem
<1> HIDE DEF name, form, item
<1>4. ItemFound(form, item)
  BY <1>1, <1>3 DEF ItemFound
<1>5. DOMAIN <<item>> = {1} /\ <<item>>[1] = item
  OBVIOUS
<1>6. MediaOK(form, <<item>>)
  BY <1>1, <1>2, <1>3, <1>4, <1>5 DEF MediaOK
<1> QED
  BY <1>6 DEF InputMediaNew, name, form, item

LEMMA OneMediumWithThumb ==
  ASSUME NEW kind, NEW given, NEW preview, NEW info
  PROVE  LET made == InputMediaWithThumb(kind, given, preview, info)
         IN  MediaOK(made.form, <<made.item>>)
<1> DEFINE name  == "tgbot_im_file"
           form1 == Inserted(EmptyForm, name, given)
           form2 == Inserted(form1, ThumbName, preview)
           item  == MediaItem(kind, Reference(name, given),
                      Reference(ThumbName, preview), info, given, {preview})
<1>1. /\ Found(form1, Reference(name, given), given)
      /\ Uploads(form1) = Reference(name, given)
      /\ DOMAIN form1 = Reference(name, given)
  <2> HIDE DEF name
  <2>1. name \notin DOMAIN EmptyForm
    BY EmptyFormHasNothing
  <2>2. /\ Found(form1, Reference(name, given), given)
        /\ Uploads(form1) = Uploads(EmptyForm) \cup Reference(name, given)
        /\ DOMAIN form1 = DOMAIN EmptyForm \cup Reference(name, given)
    BY <2>1, Insert
  <2> QED
    BY <2>2, EmptyFormHasNothing
<1>2. ThumbName \notin DOMAIN form1
  BY <1>1 DEF Reference, ThumbName
<1> HIDE DEF form1
<1>3. /\ Found(form2, Reference(name, given), given)
      /\ Found(form2, Reference(ThumbName, preview), preview)
      /\ Uploads(form2) = Reference(name, given) \cup
                            Reference(ThumbName, preview)
  <2> HIDE DEF name
  <2>1. /\ \A reference, other :
             Found(form1, reference, other) => Found(form2, reference, other)
        /\ Found(form2, Reference(ThumbName, preview), preview)
        /\ Uploads(form2) = Uploads(form1) \cup Reference(ThumbName, preview)
    BY <1>2, Insert
  <2> QED
    BY <1>1, <2>1
<1>4. Uploads(form2) \cap TextFields = {}
  BY <1>3 DEF Reference, TextFields, ThumbName
<1>5. /\ item.media = Reference(name, given) /\ item.file = given
      /\ item.thumb = Reference(ThumbName, preview) /\ item.thumb_file = {preview}
  BY DEF MediaItem
<1> HIDE DEF name, form2, item
<1>6. ItemFound(form2, item)
  BY <1>3, <1>5 DEF ItemFound
<1>7. DOMAIN <<item>> = {1} /\ <<item>>[1] = item
  OBVIOUS
<1>8. MediaOK(form2, <<item>>)
  BY <1>3, <1>4, <1>5, <1>6, <1>7 DEF MediaOK
<1> QED
  BY <1>8 DEF InputMediaWithThumb, name, form1, form2, item

-----------------------------------------------------------------------------
(* Media groups                                                            *)

\* The files of a group have the first numbers: the next number is free.
Counted(form) ==
  /\ IsFiniteSet(DOMAIN form)
  /\ DOMAIN form = {Numbered(k) : k \in 0 .. Cardinality(DOMAIN form) - 1}

GroupOK(group) ==
  /\ group = [files |-> group.files, items |-> group.items]
  /\ \E S : group.items \in Seq(S)
  /\ Counted(group.files)
  /\ MediaOK(group.files, group.items)

LEMMA NextNumberIsFree ==
  ASSUME NumbersDiffer, NEW form, Counted(form)
  PROVE  /\ Numbered(Cardinality(DOMAIN form)) \notin DOMAIN form
         /\ Numbered(Cardinality(DOMAIN form)) \notin TextFields
<1> DEFINE n == Cardinality(DOMAIN form)
<1>1. n \in Nat
  BY FS_CardinalityType DEF Counted
<1> HIDE DEF n
<1>2. \A k \in 0 .. n - 1 : k \in Nat /\ k # n
  BY <1>1
<1>3. \A k \in 0 .. n - 1 : Numbered(k) # Numbered(n)
  BY <1>1, <1>2 DEF NumbersDiffer
<1> QED
  BY <1>1, <1>3 DEF NumbersDiffer, Counted, n

LEMMA CountOne ==
  ASSUME NumbersDiffer, NEW form, Counted(form), NEW given
  PROVE  Counted(Inserted(form, Numbered(Cardinality(DOMAIN form)), given))
<1> DEFINE n == Cardinality(DOMAIN form)
           new == Inserted(form, Numbered(n), given)
<1>1. n \in Nat /\ IsFiniteSet(DOMAIN form)
  BY FS_CardinalityType DEF Counted
<1>2. Numbered(n) \notin DOMAIN form
  BY NextNumberIsFree
<1>3. DOMAIN new = DOMAIN form \cup Reference(Numbered(n), given)
  BY <1>2, Insert
<1>4. CASE Reference(Numbered(n), given) = {}
  <2>1. DOMAIN new = DOMAIN form
    BY <1>3, <1>4
  <2> QED
    BY <2>1 DEF Counted
<1>5. CASE Reference(Numbered(n), given) = {Numbered(n)}
  <2>1. IsFiniteSet(DOMAIN new) /\ Cardinality(DOMAIN new) = n + 1
    BY <1>1, <1>2, <1>3, <1>5, FS_AddElement
  <2>2. DOMAIN form = {Numbered(k) : k \in 0 .. n - 1}
    BY DEF Counted
  <2> HIDE DEF n, new
  <2>3. 0 .. (n + 1) - 1 = (0 .. n - 1) \cup {n}
    BY <1>1
  <2>4. DOMAIN new = {Numbered(k) : k \in 0 .. (n + 1) - 1}
    BY <1>3, <1>5, <2>2, <2>3
  <2>5. Counted(new)
    BY <2>1, <2>4 DEF Counted
  <2> QED
    BY <2>5 DEF n, new
<1> QED
  BY <1>4, <1>5 DEF Reference

\* An item with the files it found joins the others.
LEMMA ItemJoins ==
  ASSUME NEW group, GroupOK(group), NEW form, NEW item, Counted(form),
         \A reference, other :
           Found(group.files, reference, other) => Found(form, reference, other),
         ItemFound(form, item),
         \A name \in Uploads(form) \ Uploads(group.files) :
           name \notin TextFields /\ name \in item.media \cup item.thumb
  PROVE  GroupOK([files |-> form, items |-> Append(group.items, item)])
<1> DEFINE items == group.items
           longer == Append(items, item)
<1>1. PICK S : items \in Seq(S)
  BY DEF GroupOK
<1>2. items \in Seq(S \cup {item}) /\ longer \in Seq(S \cup {item})
  BY <1>1
<1>3. /\ Len(items) \in Nat /\ DOMAIN items = 1 .. Len(items)
      /\ DOMAIN longer = 1 .. Len(items) + 1
      /\ \A i \in 1 .. Len(items) : longer[i] = items[i]
      /\ longer[Len(items) + 1] = item
  BY <1>1, <1>2
<1> HIDE DEF longer, items
<1>4. \A i \in DOMAIN longer :
        i = Len(items) + 1 \/ (i \in DOMAIN items /\ longer[i] = items[i])
  BY <1>3
<1>5. \A i \in DOMAIN items : i \in DOMAIN longer /\ longer[i] = items[i]
  BY <1>3
<1>6. Len(items) + 1 \in DOMAIN longer
  BY <1>3
<1>7. MediaOK(group.files, items)
  BY DEF GroupOK, items
<1>8. \A i \in DOMAIN longer : ItemFound(form, longer[i])
  <2>1. \A i \in DOMAIN items : ItemFound(form, items[i])
    BY <1>7 DEF MediaOK, ItemFound
  <2> QED
    BY <1>3, <1>4, <2>1
<1>9. ASSUME NEW name \in Uploads(form)
      PROVE  /\ name \notin TextFields
             /\ \E i \in DOMAIN longer : name \in longer[i].media \cup longer[i].thumb
  <2>1. CASE name \in Uploads(group.files)
    BY <1>5, <1>7, <2>1 DEF MediaOK
  <2>2. CASE name \notin Uploads(group.files)
    BY <1>3, <1>6, <2>2
  <2> QED
    BY <2>1, <2>2
<1>10. MediaOK(form, longer)
  BY <1>8, <1>9 DEF MediaOK
<1> QED
  BY <1>2, <1>10 DEF GroupOK, longer, items

LEMMA AddFile ==
  ASSUME NEW group, GroupOK(group), NEW given
  PROVE  /\ FileName(group) = Numbered(Cardinality(DOMAIN group.files))
         /\ add_file(group, given) =
              [files |-> Inserted(group.files,
                           Numbered(Cardinality(DOMAIN group.files)), given),
               items |-> group.items]
BY DEF add_file, FileName, Numbered, GroupOK

LEMMA AddItemOK ==
  ASSUME NumbersDiffer, NEW group, GroupOK(group), NEW kind, NEW given
  PROVE  GroupOK(add_item(group, kind, given))
<1> DEFINE name == Numbered(Cardinality(DOMAIN group.files))
           form == Inserted(group.files, name, given)
           item == MediaItem(kind, Reference(name, given), {}, {}, given, {})
<1>1. add_item(group, kind, given) = [files |-> form, items |-> Append(group.items, item)]
  BY AddFile DEF add_item
<1>2. Counted(group.files) /\ name \notin DOMAIN group.files /\ name \notin TextFields
  BY NextNumberIsFree DEF GroupOK
<1>3. Counted(form)
  BY <1>2, CountOne
<1>4. item.media = Reference(name, given) /\ item.file = given /\ item.thumb_file = {}
  BY DEF MediaItem
<1> HIDE DEF name, item
<1>5. /\ \A reference, other :
           Found(group.files, reference, other) => Found(form, reference, other)
      /\ Found(form, Reference(name, given), given)
      /\ Uploads(form) = Uploads(group.files) \cup Reference(name, given)
  BY <1>2, Insert
<1> HIDE DEF form
<1>6. ItemFound(form, item)
  BY <1>4, <1>5 DEF ItemFound
<1>7. \A n \in Uploads(form) \ Uploads(group.files) :
        n \notin TextFields /\ n \in item.media \cup item.thumb
  BY <1>2, <1>4, <1>5 DEF Reference
<1> QED
  BY <1>1, <1>3, <1>5, <1>6, <1>7, ItemJoins

LEMMA AddItemWithThumbOK ==
  ASSUME NumbersDiffer, NEW group, GroupOK(group), NEW kind, NEW given, NEW preview
  PROVE  GroupOK(add_item_with_thumb(group, kind, given, preview))
<1> DEFINE name1 == Numbered(Cardinality(DOMAIN group.files))
           form1 == Inserted(group.files, name1, given)
           name2 == Numbered(Cardinality(DOMAIN form1))
           form2 == Inserted(form1, name2, preview)
           item  == MediaItem(kind, Reference(name1, given),
                      Reference(name2, preview), {}, given, {preview})
<1>1. add_item_with_thumb(group, kind, given, preview) =
        [files |-> form2, items |-> Append(group.items, item)]
  <2>1. add_file(group, given) = [files |-> form1, items |-> group.items]
    BY AddFile
  <2>2. FileName(add_file(group, given)) = name2
    BY <2>1 DEF FileName, Numbered
  <2>3. FileName(group) = name1
    BY AddFile
  <2>4. add_file(add_file(group, given), preview) =
          [files |-> form2, items |-> group.items]
    <3> HIDE DEF form1, name2
    <3>1. add_file([files |-> form1, items |-> group.items], preview) =
            [files |-> Inserted(form1, FileName(add_file(group, given)), preview),
             items |-> group.items]
      BY <2>1 DEF add_file
    <3> QED
      BY <2>1, <2>2, <3>1
  <2> HIDE DEF form1, form2, name1, name2
  <2> QED
    BY <2>2, <2>3, <2>4 DEF add_item_with_thumb
<1>2. Counted(group.files) /\ name1 \notin DOMAIN group.files /\ name1 \notin TextFields
  BY NextNumberIsFree DEF GroupOK
<1>3. Counted(form1)
  BY <1>2, CountOne
<1>4. name2 \notin DOMAIN form1 /\ name2 \notin TextFields
  <2> HIDE DEF form1
  <2> QED
    BY <1>3, NextNumberIsFree
<1>5. Counted(form2)
  <2> HIDE DEF form1
  <2> QED
    BY <1>3, CountOne
<1>6. /\ item.media = Reference(name1, given) /\ item.file = given
      /\ item.thumb = Reference(name2, preview) /\ item.thumb_file = {preview}
  BY DEF MediaItem
<1> HIDE DEF name1, name2, item
<1>7. /\ \A reference, other :
           Found(group.files, reference, other) => Found(form1, reference, other)
      /\ Found(form1, Reference(name1, given), given)
      /\ Uploads(form1) = Uploads(group.files) \cup Reference(name1, given)
  BY <1>2, Insert
<1> HIDE DEF form1
<1>8. /\ \A reference, other :
           Found(form1, reference, other) => Found(form2, reference, other)
      /\ Found(form2, Reference(name2, preview), preview)
      /\ Uploads(form2) = Uploads(form1) \cup Reference(name2, preview)
  BY <1>4, Insert
<1> HIDE DEF form2
<1>9. ItemFound(form2, item)
  BY <1>6, <1>7, <1>8 DEF ItemFound
<1>10. \A n \in Uploads(form2) \ Uploads(group.files) :
         n \notin TextFields /\ n \in item.media \cup item.thumb
  BY <1>2, <1>4, <1>6, <1>7, <1>8 DEF Reference
<1>11. \A reference, other :
         Found(group.files, reference, other) => Found(form2, reference, other)
  BY <1>7, <1>8
<1> QED
  BY <1>1, <1>5, <1>9, <1>10, <1>11, ItemJoins

LEMMA EmptyGroupOK == GroupOK(EmptyGroup)
<1>1. EmptyGroup.files = EmptyForm /\ EmptyGroup.items = <<>>
  BY DEF EmptyGroup
<1>2. DOMAIN EmptyForm = {} /\ Uploads(EmptyForm) = {}
  BY EmptyFormHasNothing
<1>3. Cardinality({}) = 0 /\ IsFiniteSet({})
  BY FS_EmptySet
<1>4. Counted(EmptyForm)
  BY <1>2, <1>3 DEF Counted
<1>5. MediaOK(EmptyForm, <<>>)
  BY <1>2 DEF MediaOK
<1>6. <<>> \in Seq({})
  OBVIOUS
<1> QED
  BY <1>1, <1>4, <1>5, <1>6 DEF GroupOK, EmptyGroup

-----------------------------------------------------------------------------
(* The order of a call                                                     *)

\* What is there of a call at each step of it.
StageInv ==
  /\ step \in {"start", "group", "object", "element", "built", "sent",
               "answered", "done"}
  /\ step \in {"start", "group", "object", "element"} => draft = NoMethod
  /\ step \in {"start", "group", "object", "element", "built"} =>
       request = NoRequest
  /\ step = "start" => payload = NoPayload
  /\ step \notin {"answered", "done"} => reply = NoReply
  /\ step # "done" => outcome = Pending

LEMMA InitStage == Init => StageInv
BY DEF Init, Started, StageInv

LEMMA NextStage == StageInv /\ [Next]_vars => StageInv'
<1> SUFFICES ASSUME StageInv, [Next]_vars PROVE StageInv'
  OBVIOUS
<1>1. CASE Construct
  BY <1>1 DEF StageInv, Construct, Constructed
<1>2. CASE Setter
  BY <1>2 DEF StageInv, Setter
<1>3. CASE EditMedia
  BY <1>3 DEF StageInv, EditMedia, Constructed
<1>4. CASE StartGroup \/ AddItem \/ AddItemWithThumb
  BY <1>4 DEF StageInv, StartGroup, AddItem, AddItemWithThumb
<1>5. CASE SendGroup
  BY <1>5 DEF StageInv, SendGroup, Constructed, Finish
<1>6. CASE NewObject \/ SetKey
  BY <1>6 DEF StageInv, NewObject, SetKey
<1>7. CASE UseObject
  BY <1>7 DEF StageInv, UseObject, Constructed
<1>8. CASE ReceiveElement
  BY <1>8 DEF StageInv, ReceiveElement, Finish
<1>9. CASE ReportError
  BY <1>9 DEF StageInv, ReportError, Constructed, Finish
<1>10. CASE Execute
  BY <1>10 DEF StageInv, Execute, Finish
<1>11. CASE Download \/ Lost \/ Answer \/ Receive
  BY <1>11 DEF StageInv, Download, Lost, Answer, Receive, Finish
<1>12. CASE NextCall
  BY <1>12 DEF StageInv, NextCall, Started
<1>13. CASE UNCHANGED vars
  BY <1>13 DEF StageInv, vars
<1> QED
  BY <1>1, <1>2, <1>3, <1>4, <1>5, <1>6, <1>7, <1>8, <1>9, <1>10, <1>11, <1>12,
     <1>13 DEF Next

\* Every call goes through its steps in order and leaves nothing behind for
\* the next one: no draft, request or reply is there before its time (api.rs,
\* execute).
THEOREM Stages == Spec => []StageInv
  BY InitStage, NextStage, PTL DEF Spec

-----------------------------------------------------------------------------
(* Attachments                                                             *)

\* The form of a method with media finds its files, and a request is made of
\* all of the form.
DraftOK ==
  step = "built" \/ draft # NoMethod =>
    /\ draft = [method |-> draft.method, form |-> draft.form,
                media |-> draft.media, calls |-> draft.calls]
    /\ draft.media # <<>> =>
         /\ draft.method \in {EditMessageMedia, SendMediaGroup}
         /\ MediaOK(draft.form, draft.media)

SentOK ==
  step = "sent" /\ draft # NoMethod /\ draft.media # <<>> =>
    \A name \in DOMAIN draft.form :
      request.body[name] = IF IsUpload(draft.form[name]) THEN "file" ELSE "text"

AttachmentInv ==
  /\ step = "group" => GroupOK(payload)
  /\ DraftOK
  /\ SentOK

\* The two methods with media are forms, and their setters set texts.
LEMMA MediaMethods ==
  ASSUME NEW method \in {EditMessageMedia, SendMediaGroup}
  PROVE  /\ method.body = "form"
         /\ \A names \in method.set : names \in SUBSET TextFields
<1>1. /\ EditMessageMedia.body = "form"
      /\ EditMessageMedia.set = Each({"reply_markup"})
  BY DEF EditMessageMedia, Form, Method
<1>2. /\ SendMediaGroup.body = "form"
      /\ SendMediaGroup.set = Each({"disable_notification", "reply_to_message_id"})
  BY DEF SendMediaGroup, Form, Method
<1> QED
  BY <1>1, <1>2 DEF Each, TextFields

LEMMA AssignTexts ==
  ASSUME NEW method, NEW form, NEW names \in SUBSET TextFields, NEW value
  PROVE  TextsSet(form, Assigned(method, form, names, value))
<1>1. TextFields \cap InputFileFields = {}
  BY DEF TextFields, InputFileFields
<1> QED
  BY <1>1 DEF TextsSet, Assigned

\* A method without media is drafted.
LEMMA NoMediaDrafted ==
  ASSUME NEW method, NEW form, Constructed(method, form, <<>>)
  PROVE  AttachmentInv'
BY DEF AttachmentInv, DraftOK, SentOK, Constructed

\* A method with media whose form finds its files is drafted.
LEMMA MediaDrafted ==
  ASSUME NEW method \in {EditMessageMedia, SendMediaGroup}, NEW form, NEW media,
         MediaOK(form, media), Constructed(method, form, media)
  PROVE  AttachmentInv'
BY DEF AttachmentInv, DraftOK, SentOK, Constructed

LEMMA NothingDrafted ==
  ASSUME step' \notin {"group", "built", "sent"}, draft' = NoMethod \/ (DraftOK /\ draft' = draft)
  PROVE  AttachmentInv'
BY DEF AttachmentInv, DraftOK, SentOK

LEMMA InitAttachment == Init => AttachmentInv
BY DEF Init, Started, AttachmentInv, DraftOK, SentOK

LEMMA NextAttachment ==
  ASSUME NumbersDiffer
  PROVE  StageInv /\ AttachmentInv /\ [Next]_vars => AttachmentInv'
<1> SUFFICES ASSUME StageInv, AttachmentInv, [Next]_vars PROVE AttachmentInv'
  OBVIOUS
<1>1. CASE Construct
  BY <1>1, NoMediaDrafted DEF Construct
<1>2. CASE Setter
  <2>1. PICK names \in draft.method.set : \E value :
          draft' = [draft EXCEPT !.form = Assigned(draft.method, draft.form, names, value),
                                 !.calls = draft.calls + 1]
    BY <1>2 DEF Setter
  <2>2. PICK value :
          draft' = [draft EXCEPT !.form = Assigned(draft.method, draft.form, names, value),
                                 !.calls = draft.calls + 1]
    BY <2>1
  <2>3. step' = "built" /\ step = "built"
    BY <1>2 DEF Setter
  <2> DEFINE form == Assigned(draft.method, draft.form, names, value)
  <2> HIDE DEF form
  <2>4. /\ draft = [method |-> draft.method, form |-> draft.form,
                    media |-> draft.media, calls |-> draft.calls]
        /\ draft.media # <<>> =>
             /\ draft.method \in {EditMessageMedia, SendMediaGroup}
             /\ MediaOK(draft.form, draft.media)
    BY <2>3 DEF AttachmentInv, DraftOK
  <2>5. /\ draft' = [method |-> draft'.method, form |-> draft'.form,
                     media |-> draft'.media, calls |-> draft'.calls]
        /\ draft'.method = draft.method /\ draft'.media = draft.media
        /\ draft'.form = form
    BY <2>2, <2>4 DEF form
  <2>6. ASSUME draft.media # <<>>
        PROVE  MediaOK(form, draft.media)
    <3>1. names \in SUBSET TextFields
      BY <2>4, <2>6, MediaMethods
    <3>2. TextsSet(draft.form, form)
      BY <3>1, AssignTexts DEF form
    <3> QED
      BY <2>4, <2>6, <3>2, TextsHideNothing
  <2> QED
    BY <2>3, <2>4, <2>5, <2>6 DEF AttachmentInv, DraftOK, SentOK
<1>3. CASE EditMedia
  <2> DEFINE Made(made) ==
               \/ \E kind, given, info : made = InputMediaNew(kind, given, info)
               \/ \E kind, given, preview, info :
                    made = InputMediaWithThumb(kind, given, preview, info)
             Whole(made, place) ==
               insert_texts(made.form, place \cup {"media"})
  <2>1. PICK place \in {InChat, Inline} :
          \E made : /\ Made(made)
                    /\ Constructed(EditMessageMedia, Whole(made, place),
                         <<made.item>>)
    BY <1>3 DEF EditMedia
  <2>2. PICK made : /\ Made(made)
                    /\ Constructed(EditMessageMedia, Whole(made, place),
                         <<made.item>>)
    BY <2>1
  <2>3. MediaOK(made.form, <<made.item>>)
    BY <2>2, OneMedium, OneMediumWithThumb
  <2>4. place \cup {"media"} \in SUBSET TextFields
    BY DEF InChat, Inline, TextFields
  <2>5. MediaOK(Whole(made, place), <<made.item>>)
    BY <2>3, <2>4, InsertTexts, TextsHideNothing
  <2> HIDE DEF Made, Whole
  <2> QED
    BY <2>2, <2>5, MediaDrafted
<1>4. CASE StartGroup
  BY <1>4, EmptyGroupOK DEF StartGroup, AttachmentInv, DraftOK, SentOK
<1>5. CASE AddItem
  <2>1. PICK kind, given : payload' = add_item(payload, kind, given)
    BY <1>5 DEF AddItem
  <2>2. step = "group" /\ UNCHANGED <<step, draft>> /\ GroupOK(payload)
    BY <1>5 DEF AddItem, AttachmentInv
  <2>3. GroupOK(payload')
    BY <2>1, <2>2, AddItemOK
  <2> QED
    BY <2>2, <2>3 DEF AttachmentInv, DraftOK, SentOK
<1>6. CASE AddItemWithThumb
  <2>1. PICK kind, given, preview :
          payload' = add_item_with_thumb(payload, kind, given, preview)
    BY <1>6 DEF AddItemWithThumb
  <2>2. step = "group" /\ UNCHANGED <<step, draft>> /\ GroupOK(payload)
    BY <1>6 DEF AddItemWithThumb, AttachmentInv
  <2>3. GroupOK(payload')
    BY <2>1, <2>2, AddItemWithThumbOK
  <2> QED
    BY <2>2, <2>3 DEF AttachmentInv, DraftOK, SentOK
<1>7. CASE SendGroup
  <2>1. CASE step' = "done" /\ UNCHANGED draft
    BY <2>1, NothingDrafted DEF AttachmentInv
  <2>2. ASSUME NEW form \in into_form(payload, MinGroupAttachments, MaxGroupAttachments),
               Constructed(SendMediaGroup, insert_texts(form, {"chat_id"}), payload.items)
        PROVE  AttachmentInv'
    <3>1. GroupOK(payload)
      BY <1>7 DEF SendGroup, AttachmentInv
    <3>2. form = insert_field(payload.files, "media", NoFile)
      BY <2>2 DEF into_form
    <3>3. "media" \in TextFields /\ {"chat_id"} \in SUBSET TextFields
      BY DEF TextFields
    <3>4. MediaOK(form, payload.items)
      BY <3>1, <3>2, <3>3, InsertText, TextsHideNothing DEF GroupOK
    <3> DEFINE whole == insert_texts(form, {"chat_id"})
    <3>5. MediaOK(whole, payload.items)
      BY <3>3, <3>4, InsertTexts, TextsHideNothing
    <3> QED
      BY <2>2, <3>5, MediaDrafted
  <2> QED
    BY <1>7, <2>1, <2>2 DEF SendGroup, Finish
<1>8. CASE NewObject \/ SetKey \/ ReceiveElement
  BY <1>8, NothingDrafted
     DEF NewObject, SetKey, ReceiveElement, Finish, AttachmentInv
<1>9. CASE UseObject
  BY <1>9, NoMediaDrafted DEF UseObject
<1>10. CASE ReportError
  <2>1. CASE step' = "done" /\ UNCHANGED draft
    BY <2>1, NothingDrafted DEF AttachmentInv
  <2> QED
    BY <1>10, <2>1, NoMediaDrafted DEF ReportError, Finish
<1>11. CASE Execute
  <2>1. CASE step' = "done" /\ UNCHANGED draft
    BY <2>1, NothingDrafted DEF AttachmentInv
  <2>2. ASSUME NEW missing, NEW body \in Bodies(draft.method, draft.form, missing),
               request' = Request(draft.method.verb, draft.method.path,
                                  draft.method.answer, body),
               step' = "sent", UNCHANGED draft
        PROVE  AttachmentInv'
    <3>1. request'.body = body
      BY <2>2 DEF Request
    <3>2. ASSUME draft # NoMethod, draft.media # <<>>
          PROVE  body = [name \in DOMAIN draft.form |->
                           IF IsUpload(draft.form[name]) THEN "file" ELSE "text"]
      <4>1. draft.method.body = "form"
        BY <3>2, MediaMethods DEF AttachmentInv, DraftOK
      <4> QED
        BY <2>2, <4>1 DEF Bodies, MultipartForm
    <3> QED
      BY <2>2, <3>1, <3>2 DEF AttachmentInv, DraftOK, SentOK
  <2> QED
    BY <1>11, <2>1, <2>2 DEF Execute, Finish
<1>12. CASE Download
  BY <1>12 DEF Download, StageInv, AttachmentInv, DraftOK, SentOK
<1>13. CASE Lost \/ Answer \/ Receive
  BY <1>13, NothingDrafted DEF Lost, Answer, Receive, Finish, AttachmentInv
<1>14. CASE NextCall
  BY <1>14, NothingDrafted DEF NextCall, Started
<1>15. CASE UNCHANGED vars
  BY <1>15 DEF vars, AttachmentInv, DraftOK, SentOK
<1> QED
  BY <1>1, <1>2, <1>3, <1>4, <1>5, <1>6, <1>7, <1>8, <1>9, <1>10, <1>11, <1>12,
     <1>13, <1>14, <1>15 DEF Next

LEMMA AttachmentsFound == AttachmentInv => AttachmentsResolve
<1> SUFFICES ASSUME AttachmentInv, step = "sent", draft # NoMethod, draft.media # <<>>
             PROVE  LET items == {draft.media[i] : i \in DOMAIN draft.media}
                    IN  /\ \A item \in items :
                             /\ Resolves(draft.form, item.media, item.file)
                             /\ "thumb" \notin item.info =>
                                  \A thumb \in item.thumb_file :
                                    Resolves(draft.form, ThumbOf(item), thumb)
                        /\ Uploads(draft.form) \subseteq
                             UNION {item.media \cup item.thumb : item \in items}
  BY DEF AttachmentsResolve
<1>1. MediaOK(draft.form, draft.media)
  BY DEF AttachmentInv, DraftOK
<1>2. \A name \in DOMAIN draft.form :
        request.body[name] = IF IsUpload(draft.form[name]) THEN "file" ELSE "text"
  BY DEF AttachmentInv, SentOK
<1>3. ASSUME NEW reference, NEW given, Found(draft.form, reference, given)
      PROVE  Resolves(draft.form, reference, given)
  BY <1>2, <1>3 DEF Found, Resolves
<1>4. ASSUME NEW i \in DOMAIN draft.media, NEW item, item = draft.media[i]
      PROVE  /\ Resolves(draft.form, item.media, item.file)
             /\ "thumb" \notin item.info =>
                  \A thumb \in item.thumb_file :
                    Resolves(draft.form, ThumbOf(item), thumb)
  <2>1. ItemFound(draft.form, item)
    BY <1>1, <1>4 DEF MediaOK
  <2>2. "thumb" \notin item.info => ThumbOf(item) = item.thumb
    BY DEF ThumbOf
  <2> QED
    BY <1>3, <2>1, <2>2 DEF ItemFound
<1>5. Uploads(draft.form) \subseteq
        UNION {item.media \cup item.thumb :
                 item \in {draft.media[i] : i \in DOMAIN draft.media}}
  BY <1>1 DEF MediaOK
<1> QED
  BY <1>4, <1>5

\* An uploaded file is found where the request refers to it, for groups of any
\* size and any mixture of files: the count of files names each file once
\* (MediaGroup::add_file, InputMedia::with_thumb, and Form).
THEOREM AttachmentsAreFound ==
  ASSUME NumbersDiffer
  PROVE  Spec => []AttachmentsResolve
<1>1. StageInv /\ AttachmentInv /\ [Next]_vars => AttachmentInv'
  BY NextAttachment
<1> QED
  BY <1>1, Stages, InitAttachment, AttachmentsFound, PTL DEF Spec

-----------------------------------------------------------------------------
(* Elements of Telegram Passport and errors about them                     *)

LEMMA ElementKinds ==
  EncryptedPassportElementKind =
    {"Address", "BankStatement", "DriverLicense", "Email", "IdentityCard",
     "InternalPassport", "Passport", "PassportRegistration", "PersonalDetails",
     "PhoneNumber", "RentalAgreement", "TemporaryRegistration", "UtilityBill"}
BY DEF EncryptedPassportElementKind, EncryptedPassportElement

LEMMA FieldsOfKinds ==
  /\ FieldsOf("Address")          = {"hash", "data"}
  /\ FieldsOf("PersonalDetails")  = {"hash", "data"}
  /\ FieldsOf("Email")            = {"hash", "email"}
  /\ FieldsOf("PhoneNumber")      = {"hash", "phone_number"}
  /\ FieldsOf("DriverLicense")    =
       {"hash", "data", "front_side", "reverse_side", "selfie", "translation"}
  /\ FieldsOf("IdentityCard")     =
       {"hash", "data", "front_side", "reverse_side", "selfie", "translation"}
  /\ FieldsOf("InternalPassport") =
       {"hash", "data", "front_side", "selfie", "translation"}
  /\ FieldsOf("Passport")         =
       {"hash", "data", "front_side", "selfie", "translation"}
  /\ \A kind \in Papers : FieldsOf(kind) = {"hash", "files", "translation"}
BY DEF FieldsOf, EncryptedPassportElement, Element, Papers,
       EncryptedPassportElementAddress, EncryptedPassportElementBankStatement,
       EncryptedPassportElementDriverLicense, EncryptedPassportElementEmail,
       EncryptedPassportElementIdentityCard,
       EncryptedPassportElementInternalPassport,
       EncryptedPassportElementPassport,
       EncryptedPassportElementPassportRegistration,
       EncryptedPassportElementPersonalDetails,
       EncryptedPassportElementPhoneNumber,
       EncryptedPassportElementRentalAgreement,
       EncryptedPassportElementTemporaryRegistration,
       EncryptedPassportElementUtilityBill

\* The two files agree: error.rs asks for the kinds that have the field.
LEMMA TablesAgree ==
  ASSUME NEW kind \in EncryptedPassportElementKind, NEW error \in PassportElementError
  PROVE  kind \in error.kinds <=> error.field \in FieldsOf(kind)
<1>1. /\ kind \in {"Address", "PersonalDetails"} => FieldsOf(kind) = {"hash", "data"}
      /\ kind = "Email" => FieldsOf(kind) = {"hash", "email"}
      /\ kind = "PhoneNumber" => FieldsOf(kind) = {"hash", "phone_number"}
      /\ kind \in {"DriverLicense", "IdentityCard"} =>
           FieldsOf(kind) = {"hash", "data", "front_side", "reverse_side", "selfie",
                             "translation"}
      /\ kind \in {"InternalPassport", "Passport"} =>
           FieldsOf(kind) = {"hash", "data", "front_side", "selfie", "translation"}
      /\ kind \in Papers => FieldsOf(kind) = {"hash", "files", "translation"}
  BY FieldsOfKinds
<1>2. \/ kind \in {"Address", "PersonalDetails"} \/ kind = "Email"
      \/ kind = "PhoneNumber" \/ kind \in {"DriverLicense", "IdentityCard"}
      \/ kind \in {"InternalPassport", "Passport"} \/ kind \in Papers
  BY ElementKinds DEF Papers
<1>3. /\ kind \in data_field <=> "data" \in FieldsOf(kind)
      /\ kind \in front_side <=> "front_side" \in FieldsOf(kind)
      /\ kind \in reverse_side <=> "reverse_side" \in FieldsOf(kind)
      /\ kind \in selfie <=> "selfie" \in FieldsOf(kind)
  BY <1>1, <1>2 DEF data_field, front_side, reverse_side, selfie, Documents, Papers
<1>4. /\ kind \in file <=> "files" \in FieldsOf(kind)
      /\ kind \in files <=> "files" \in FieldsOf(kind)
      /\ kind \in translation_file <=> "translation" \in FieldsOf(kind)
      /\ kind \in translation_files <=> "translation" \in FieldsOf(kind)
      /\ kind \in unspecified <=> "hash" \in FieldsOf(kind)
  BY <1>1, <1>2 DEF file, files, translation_file, translation_files, unspecified,
                    Documents, Papers
<1> QED
  BY <1>3, <1>4 DEF PassportElementError

\* An element is of a known kind. Once an error about it is reported, the call
\* has failed for its kind when, and only when, the error does not take it.
ElementInv ==
  /\ step = "element" =>
       /\ payload = [kind |-> payload.kind, fields |-> payload.fields, error |-> {}]
       /\ payload.kind \in EncryptedPassportElementKind
  /\ step \in {"built", "sent", "answered", "done"} /\ payload # NoPayload =>
       /\ payload.kind \in EncryptedPassportElementKind
       /\ \E error \in PassportElementError :
            /\ payload.error = {error}
            /\ payload.kind \in error.kinds <=> outcome # Failed("kind")

LEMMA OtherOutcomes ==
  /\ Pending # Failed("kind") /\ Panicked # Failed("kind")
  /\ Failed("transport") # Failed("kind")
  /\ \A value : Returned(value) # Failed("kind")
  /\ \A type, response : Outcome(type, response) # Failed("kind")
<1>1. /\ Pending # Failed("kind") /\ Panicked # Failed("kind")
      /\ Failed("transport") # Failed("kind") /\ Failed("parse") # Failed("kind")
  BY DEF Pending, Panicked, Failed
<1>2. \A value : Returned(value) # Failed("kind") /\ Refused(value) # Failed("kind")
  BY DEF Returned, Refused, Failed
<1>3. \A type, response : Outcome(type, response) # Failed("kind")
  BY <1>1, <1>2 DEF Outcome
<1> QED
  BY <1>1, <1>2, <1>3

LEMMA InitElement == Init => ElementInv
BY DEF Init, Started, ElementInv

\* A call that has no payload, or only gets on with what it has.
LEMMA NoElement ==
  ASSUME step' # "element", payload' = NoPayload
  PROVE  ElementInv'
BY DEF ElementInv

LEMMA CallGetsOn ==
  ASSUME StageInv, ElementInv, step \in {"built", "sent", "answered"},
         step' \in {"built", "sent", "answered", "done"}, payload' = payload,
         outcome' # Failed("kind")
  PROVE  ElementInv'
<1>1. outcome # Failed("kind")
  BY OtherOutcomes DEF StageInv
<1> QED
  BY <1>1 DEF ElementInv

LEMMA NextElement == StageInv /\ ElementInv /\ [Next]_vars => ElementInv'
<1> SUFFICES ASSUME StageInv, ElementInv, [Next]_vars PROVE ElementInv'
  OBVIOUS
<1>1. CASE Construct \/ EditMedia
  BY <1>1, NoElement DEF Construct, EditMedia, Constructed, StageInv
<1>2. CASE Setter
  BY <1>2 DEF Setter, ElementInv
<1>3. CASE StartGroup \/ AddItem \/ AddItemWithThumb
  BY <1>3 DEF StartGroup, AddItem, AddItemWithThumb, ElementInv
<1>4. CASE SendGroup \/ UseObject
  BY <1>4, NoElement DEF SendGroup, UseObject, Constructed, Finish
<1>5. CASE NewObject \/ SetKey
  BY <1>5 DEF NewObject, SetKey, ElementInv
<1>6. CASE ReceiveElement
  <2>1. PICK kind \in EncryptedPassportElementKind, fields \in SUBSET ElementFields :
          IF Parsed(kind, fields) = {}
          THEN Finish(Failed("parse")) /\ UNCHANGED payload
          ELSE /\ step' = "element"
               /\ payload' = [kind |-> kind, fields |-> Parsed(kind, fields),
                              error |-> {}]
               /\ UNCHANGED outcome
    BY <1>6 DEF ReceiveElement
  <2>2. CASE Parsed(kind, fields) = {}
    BY <1>6, <2>1, <2>2, NoElement DEF ReceiveElement, Finish, StageInv
  <2>3. CASE Parsed(kind, fields) # {}
    BY <2>1, <2>3 DEF ElementInv
  <2> QED
    BY <2>2, <2>3
<1>7. CASE ReportError
  <2>1. PICK error \in PassportElementError :
          /\ payload' = [payload EXCEPT !.error = {error}]
          /\ IF payload.kind \in error.kinds
             THEN Constructed(SetPassportDataErrors,
                    insert_texts(EmptyForm, {"user_id", "errors"}), <<>>)
             ELSE Finish(Failed("kind")) /\ UNCHANGED <<draft, request, reply>>
    BY <1>7 DEF ReportError
  <2>2. /\ payload = [kind |-> payload.kind, fields |-> payload.fields, error |-> {}]
        /\ payload.kind \in EncryptedPassportElementKind
        /\ outcome = Pending
    BY <1>7 DEF ReportError, ElementInv, StageInv
  <2>3. payload'.kind = payload.kind /\ payload'.error = {error}
    BY <2>1, <2>2
  <2>4. step' \in {"built", "done"} /\
        (payload.kind \in error.kinds <=> outcome' # Failed("kind"))
    BY <2>1, <2>2, OtherOutcomes DEF Constructed, Finish
  <2> QED
    BY <2>2, <2>3, <2>4 DEF ElementInv
<1>8. CASE Execute
  BY <1>8, CallGetsOn, OtherOutcomes DEF Execute, Finish, StageInv
<1>9. CASE Download
  BY <1>9, NoElement DEF Download, StageInv
<1>10. CASE Lost \/ Answer
  BY <1>10, CallGetsOn, OtherOutcomes DEF Lost, Answer, Finish, StageInv
<1>11. CASE Receive
  <2>1. outcome' # Failed("kind")
    BY <1>11, OtherOutcomes DEF Receive, Finish
  <2> QED
    BY <1>11, <2>1, CallGetsOn DEF Receive, Finish
<1>12. CASE NextCall
  BY <1>12, NoElement DEF NextCall, Started
<1>13. CASE UNCHANGED vars
  BY <1>13 DEF vars, ElementInv
<1> QED
  BY <1>1, <1>2, <1>3, <1>4, <1>5, <1>6, <1>7, <1>8, <1>9, <1>10, <1>11, <1>12,
     <1>13 DEF Next

LEMMA ErrorsFit == StageInv /\ ElementInv => ErrorsMatchElements
<1> SUFFICES ASSUME StageInv, ElementInv, payload # NoPayload, step \in {"built", "done"},
                    NEW error \in payload.error
             PROVE  outcome # Failed("kind") <=> error.field \in FieldsOf(payload.kind)
  BY DEF ErrorsMatchElements
<1>1. /\ payload.kind \in EncryptedPassportElementKind
      /\ error \in PassportElementError
      /\ payload.kind \in error.kinds <=> outcome # Failed("kind")
  BY DEF ElementInv
<1> QED
  BY <1>1, TablesAgree

\* An error about an element of Telegram Passport is accepted when, and only
\* when, elements of its kind have the field: error.rs and element.rs agree,
\* whatever fields arrived.
THEOREM ErrorsAreAboutFields == Spec => []ErrorsMatchElements
<1>1. StageInv /\ ElementInv /\ [Next]_vars => ElementInv'
  BY NextElement
<1> QED
  BY <1>1, Stages, InitElement, ErrorsFit, PTL DEF Spec

-----------------------------------------------------------------------------
(* Objects                                                                 *)

Keys(object) == object.required \cup object.optional

\* Among the objects of an enum, one that another could be taken for needs
\* less than that one.
ToldApart(enum) ==
  \A v, w \in DOMAIN enum :
    v # w /\ enum[v].tag = enum[w].tag /\ enum[w].required \subseteq Keys(enum[v]) =>
      /\ enum[w].required \subseteq enum[v].required
      /\ ~ (enum[v].required \subseteq enum[w].required)

LEMMA ReadsOne ==
  ASSUME NEW enum, ToldApart(enum), NEW v \in DOMAIN enum,
         NEW keys \in SUBSET Keys(enum[v]), enum[v].required \subseteq keys
  PROVE  Reading(enum, enum[v].tag, keys) = {v}
<1> DEFINE matching == Matching(enum, enum[v].tag, keys)
<1>1. v \in matching
  BY DEF Matching
<1>2. \A w \in matching : w # v =>
        /\ enum[w].required \subseteq enum[v].required
        /\ ~ (enum[v].required \subseteq enum[w].required)
  BY DEF Matching, ToldApart
<1> QED
  BY <1>1, <1>2 DEF Reading

LEMMA ContentsToldApart == ToldApart(InputMessageContent)
<1>1. /\ DOMAIN InputMessageContent = {"Contact", "Location", "Text", "Venue"}
      /\ InputMessageContent["Contact"] = InputMessageContentContact
      /\ InputMessageContent["Location"] = InputMessageContentLocation
      /\ InputMessageContent["Text"] = InputMessageContentText
      /\ InputMessageContent["Venue"] = InputMessageContentVenue
  BY DEF InputMessageContent
<1>2. /\ InputMessageContentContact.required = {"phone_number", "first_name"}
      /\ Keys(InputMessageContentContact) =
           {"phone_number", "first_name", "last_name", "vcard"}
  BY DEF InputMessageContentContact, Object, Keys
<1>3. /\ InputMessageContentLocation.required = {"latitude", "longitude"}
      /\ Keys(InputMessageContentLocation) = {"latitude", "longitude", "live_period"}
  BY DEF InputMessageContentLocation, Object, Keys
<1>4. /\ InputMessageContentText.required = {"message_text"}
      /\ Keys(InputMessageContentText) =
           {"message_text", "parse_mode", "disable_web_page_preview"}
  BY DEF InputMessageContentText, Object, Keys
<1>5. /\ InputMessageContentVenue.required =
           {"latitude", "longitude", "title", "address"}
      /\ Keys(InputMessageContentVenue) =
           {"latitude", "longitude", "title", "address", "foursquare_id",
            "foursquare_type"}
  BY DEF InputMessageContentVenue, Object, Keys
<1> QED
  BY <1>1, <1>2, <1>3, <1>4, <1>5 DEF ToldApart

LEMMA MarkupsToldApart == ToldApart(ReplyMarkup)
<1>1. /\ DOMAIN ReplyMarkup =
           {"ForceReply", "InlineKeyboardMarkup", "ReplyKeyboardMarkup",
            "ReplyKeyboardRemove"}
      /\ ReplyMarkup["ForceReply"] = ForceReply
      /\ ReplyMarkup["InlineKeyboardMarkup"] = InlineKeyboardMarkup
      /\ ReplyMarkup["ReplyKeyboardMarkup"] = ReplyKeyboardMarkup
      /\ ReplyMarkup["ReplyKeyboardRemove"] = ReplyKeyboardRemove
  BY DEF ReplyMarkup
<1>2. /\ ForceReply.required = {"force_reply"}
      /\ Keys(ForceReply) = {"force_reply", "selective"}
  BY DEF ForceReply, Object, Keys
<1>3. /\ InlineKeyboardMarkup.required = {"inline_keyboard"}
      /\ Keys(InlineKeyboardMarkup) = {"inline_keyboard"}
  BY DEF InlineKeyboardMarkup, Object, Keys
<1>4. /\ ReplyKeyboardMarkup.required = {"keyboard"}
      /\ Keys(ReplyKeyboardMarkup) =
           {"keyboard", "resize_keyboard", "one_time_keyboard", "selective"}
  BY DEF ReplyKeyboardMarkup, Object, Keys
<1>5. /\ ReplyKeyboardRemove.required = {"remove_keyboard"}
      /\ Keys(ReplyKeyboardRemove) = {"remove_keyboard", "selective"}
  BY DEF ReplyKeyboardRemove, Object, Keys
<1> QED
  BY <1>1, <1>2, <1>3, <1>4, <1>5 DEF ToldApart

LEMMA InlineButtonsToldApart == ToldApart(InlineKeyboardButton)
<1>1. \A action \in DOMAIN InlineKeyboardButton :
        /\ action # "text"
        /\ InlineKeyboardButton[action].required = {"text", action}
        /\ Keys(InlineKeyboardButton[action]) = {"text", action}
  BY DEF InlineKeyboardButton, InlineButton, Object, Keys
<1> QED
  BY <1>1 DEF ToldApart

LEMMA ButtonsToldApart == ToldApart(KeyboardButton)
<1>1. DOMAIN KeyboardButton = {"Button"}
  BY DEF KeyboardButton
<1> QED
  BY <1>1 DEF ToldApart

\* The tags of inline query results: cached files share theirs with others.
InlineTag ==
  [Article |-> "article", Audio |-> "audio", CachedAudio |-> "audio",
   CachedDocument |-> "document", CachedGif |-> "gif",
   CachedMpeg4Gif |-> "mpeg4_gif", CachedPhoto |-> "photo",
   CachedSticker |-> "sticker", CachedVideo |-> "video",
   CachedVoice |-> "voice", Contact |-> "contact", Document |-> "document",
   Game |-> "game", Gif |-> "gif", Location |-> "location",
   Mpeg4Gif |-> "mpeg4_gif", Photo |-> "photo", Venue |-> "venue",
   Video |-> "video", Voice |-> "voice"]

LEMMA InlineTags ==
  /\ DOMAIN InlineQueryResult = DOMAIN InlineTag
  /\ \A v \in DOMAIN InlineQueryResult : InlineQueryResult[v].tag = InlineTag[v]
BY DEF InlineQueryResult, InlineTag, Object,
       InlineQueryResultArticle, InlineQueryResultAudio,
       InlineQueryResultCachedAudio, InlineQueryResultCachedDocument,
       InlineQueryResultCachedGif, InlineQueryResultCachedMpeg4Gif,
       InlineQueryResultCachedPhoto, InlineQueryResultCachedSticker,
       InlineQueryResultCachedVideo, InlineQueryResultCachedVoice,
       InlineQueryResultContact, InlineQueryResultDocument,
       InlineQueryResultGame, InlineQueryResultGif, InlineQueryResultLocation,
       InlineQueryResultMpeg4Gif, InlineQueryResultPhoto,
       InlineQueryResultVenue, InlineQueryResultVideo, InlineQueryResultVoice

\* Where two results share a tag, each needs a key that the other never has:
\* the file by its address, or by its identifier.
LEMMA CachedToldApart ==
  /\ "audio_url" \in InlineQueryResult["Audio"].required
  /\ "audio_url" \notin Keys(InlineQueryResult["CachedAudio"])
  /\ "audio_file_id" \in InlineQueryResult["CachedAudio"].required
  /\ "audio_file_id" \notin Keys(InlineQueryResult["Audio"])
  /\ "document_url" \in InlineQueryResult["Document"].required
  /\ "document_url" \notin Keys(InlineQueryResult["CachedDocument"])
  /\ "document_file_id" \in InlineQueryResult["CachedDocument"].required
  /\ "document_file_id" \notin Keys(InlineQueryResult["Document"])
  /\ "gif_url" \in InlineQueryResult["Gif"].required
  /\ "gif_url" \notin Keys(InlineQueryResult["CachedGif"])
  /\ "gif_file_id" \in InlineQueryResult["CachedGif"].required
  /\ "gif_file_id" \notin Keys(InlineQueryResult["Gif"])
  /\ "mpeg4_url" \in InlineQueryResult["Mpeg4Gif"].required
  /\ "mpeg4_url" \notin Keys(InlineQueryResult["CachedMpeg4Gif"])
  /\ "mpeg4_file_id" \in InlineQueryResult["CachedMpeg4Gif"].required
  /\ "mpeg4_file_id" \notin Keys(InlineQueryResult["Mpeg4Gif"])
  /\ "photo_url" \in InlineQueryResult["Photo"].required
  /\ "photo_url" \notin Keys(InlineQueryResult["CachedPhoto"])
  /\ "photo_file_id" \in InlineQueryResult["CachedPhoto"].required
  /\ "photo_file_id" \notin Keys(InlineQueryResult["Photo"])
  /\ "video_url" \in InlineQueryResult["Video"].required
  /\ "video_url" \notin Keys(InlineQueryResult["CachedVideo"])
  /\ "video_file_id" \in InlineQueryResult["CachedVideo"].required
  /\ "video_file_id" \notin Keys(InlineQueryResult["Video"])
  /\ "voice_url" \in InlineQueryResult["Voice"].required
  /\ "voice_url" \notin Keys(InlineQueryResult["CachedVoice"])
  /\ "voice_file_id" \in InlineQueryResult["CachedVoice"].required
  /\ "voice_file_id" \notin Keys(InlineQueryResult["Voice"])
BY DEF InlineQueryResult, Object, Keys, Captioned, WithThumb, Replies,
       InlineQueryResultAudio, InlineQueryResultCachedAudio,
       InlineQueryResultDocument, InlineQueryResultCachedDocument,
       InlineQueryResultGif, InlineQueryResultCachedGif,
       InlineQueryResultMpeg4Gif, InlineQueryResultCachedMpeg4Gif,
       InlineQueryResultPhoto, InlineQueryResultCachedPhoto,
       InlineQueryResultVideo, InlineQueryResultCachedVideo,
       InlineQueryResultVoice, InlineQueryResultCachedVoice

LEMMA ResultsToldApart == ToldApart(InlineQueryResult)
<1> SUFFICES ASSUME NEW v \in DOMAIN InlineTag, NEW w \in DOMAIN InlineTag,
                    v # w, InlineTag[v] = InlineTag[w]
             PROVE  ~ (InlineQueryResult[w].required \subseteq Keys(InlineQueryResult[v]))
  BY InlineTags DEF ToldApart
<1>1. \E k \in InlineQueryResult[w].required : k \notin Keys(InlineQueryResult[v])
  BY CachedToldApart DEF InlineTag
<1> QED
  BY <1>1

\* An object has the keys it needs, and of others those it may have.
ObjectInv ==
  step = "object" =>
    /\ payload = [enum |-> payload.enum, variant |-> payload.variant,
                  keys |-> payload.keys]
    /\ payload.enum \in DOMAIN Objects
    /\ payload.variant \in DOMAIN Objects[payload.enum]
    /\ Variant.required \subseteq payload.keys
    /\ payload.keys \subseteq Keys(Variant)
    /\ \A key, other \in payload.keys \cap Requests : key = other

LEMMA ObjectsToldApart == \A enum \in DOMAIN Objects : ToldApart(Objects[enum])
<1>1. DOMAIN Objects =
        {"InlineQueryResult", "InputMessageContent", "ReplyMarkup",
         "InlineKeyboardButton", "KeyboardButton"}
  BY DEF Objects
<1>2. /\ Objects["InlineQueryResult"] = InlineQueryResult
      /\ Objects["InputMessageContent"] = InputMessageContent
      /\ Objects["ReplyMarkup"] = ReplyMarkup
      /\ Objects["InlineKeyboardButton"] = InlineKeyboardButton
      /\ Objects["KeyboardButton"] = KeyboardButton
  BY DEF Objects
<1> QED
  BY <1>1, <1>2, ResultsToldApart, ContentsToldApart, MarkupsToldApart,
     InlineButtonsToldApart, ButtonsToldApart

\* What an object needs is never what a button asks for.
LEMMA NothingAskedFirst ==
  ASSUME NEW enum \in DOMAIN Objects, NEW variant \in DOMAIN Objects[enum]
  PROVE  Objects[enum][variant].required \cap Requests = {}
<1>1. \A v \in DOMAIN KeyboardButton : KeyboardButton[v].required = {"text"}
  BY DEF KeyboardButton, Object
<1>2. \A v \in DOMAIN InlineKeyboardButton :
        InlineKeyboardButton[v].required \cap Requests = {}
  BY DEF InlineKeyboardButton, InlineButton, Object, Requests
<1>3. \A v \in DOMAIN ReplyMarkup : ReplyMarkup[v].required \cap Requests = {}
  BY DEF ReplyMarkup, ForceReply, InlineKeyboardMarkup, ReplyKeyboardMarkup,
         ReplyKeyboardRemove, Object, Requests
<1>4. \A v \in DOMAIN InputMessageContent :
        InputMessageContent[v].required \cap Requests = {}
  BY DEF InputMessageContent, InputMessageContentContact,
         InputMessageContentLocation, InputMessageContentText,
         InputMessageContentVenue, Object, Requests
<1>5. \A v \in DOMAIN InlineQueryResult :
        InlineQueryResult[v].required \cap Requests = {}
  BY DEF InlineQueryResult, Object, Requests,
         InlineQueryResultArticle, InlineQueryResultAudio,
         InlineQueryResultCachedAudio, InlineQueryResultCachedDocument,
         InlineQueryResultCachedGif, InlineQueryResultCachedMpeg4Gif,
         InlineQueryResultCachedPhoto, InlineQueryResultCachedSticker,
         InlineQueryResultCachedVideo, InlineQueryResultCachedVoice,
         InlineQueryResultContact, InlineQueryResultDocument,
         InlineQueryResultGame, InlineQueryResultGif, InlineQueryResultLocation,
         InlineQueryResultMpeg4Gif, InlineQueryResultPhoto,
         InlineQueryResultVenue, InlineQueryResultVideo, InlineQueryResultVoice
<1> QED
  BY <1>1, <1>2, <1>3, <1>4, <1>5 DEF Objects, Requests

LEMMA NoObject ==
  ASSUME step' # "object"
  PROVE  ObjectInv'
BY DEF ObjectInv

LEMMA InitObject == Init => ObjectInv
BY DEF Init, Started, ObjectInv

LEMMA NextObject == ObjectInv /\ [Next]_vars => ObjectInv'
<1> SUFFICES ASSUME ObjectInv, [Next]_vars PROVE ObjectInv'
  OBVIOUS
<1>1. CASE Construct \/ EditMedia \/ UseObject \/ SendGroup \/ ReportError
  BY <1>1, NoObject
     DEF Construct, EditMedia, UseObject, SendGroup, ReportError, Constructed, Finish
<1>2. CASE Setter \/ StartGroup \/ AddItem \/ AddItemWithThumb
  BY <1>2, NoObject DEF Setter, StartGroup, AddItem, AddItemWithThumb
<1>3. CASE NewObject
  <2>1. PICK enum \in DOMAIN Objects : \E variant \in DOMAIN Objects[enum] :
          payload' = [enum |-> enum, variant |-> variant,
                      keys |-> Objects[enum][variant].required]
    BY <1>3 DEF NewObject
  <2>2. PICK variant \in DOMAIN Objects[enum] :
          payload' = [enum |-> enum, variant |-> variant,
                      keys |-> Objects[enum][variant].required]
    BY <2>1
  <2>3. Objects[enum][variant].required \cap Requests = {}
    BY NothingAskedFirst
  <2>4. /\ payload'.enum = enum /\ payload'.variant = variant
        /\ payload'.keys = Objects[enum][variant].required
    BY <2>2
  <2> QED
    BY <2>2, <2>3, <2>4 DEF ObjectInv, Variant, Keys
<1>4. CASE SetKey
  <2>1. PICK key \in Variant.optional :
          payload' = [payload EXCEPT !.keys = With(payload.keys, key)]
    BY <1>4 DEF SetKey
  <2>2. /\ step = "object"
        /\ payload = [enum |-> payload.enum, variant |-> payload.variant,
                      keys |-> payload.keys]
        /\ payload.enum \in DOMAIN Objects
        /\ payload.variant \in DOMAIN Objects[payload.enum]
        /\ Variant.required \subseteq payload.keys
        /\ payload.keys \subseteq Keys(Variant)
        /\ \A k, other \in payload.keys \cap Requests : k = other
    BY <1>4 DEF SetKey, ObjectInv
  <2>3. payload' = [enum |-> payload.enum, variant |-> payload.variant,
                    keys |-> With(payload.keys, key)]
    BY <2>1, <2>2
  <2>4. Variant' = Variant
    BY <2>3 DEF Variant
  <2>5. Variant.required \cap Requests = {}
    BY <2>2, NothingAskedFirst DEF Variant
  <2>6. /\ Variant.required \subseteq With(payload.keys, key)
        /\ With(payload.keys, key) \subseteq Keys(Variant)
        /\ \A k, other \in With(payload.keys, key) \cap Requests : k = other
    BY <2>2, <2>5 DEF With, Asked, Keys
  <2> QED
    BY <2>2, <2>3, <2>4, <2>6 DEF ObjectInv
<1>5. CASE ReceiveElement \/ Execute \/ Download
  BY <1>5, NoObject DEF ReceiveElement, Execute, Download, Finish, ObjectInv
<1>6. CASE Lost \/ Answer \/ Receive \/ NextCall
  BY <1>6, NoObject DEF Lost, Answer, Receive, Finish, NextCall, Started
<1>7. CASE UNCHANGED vars
  BY <1>7 DEF vars, ObjectInv, Variant
<1> QED
  BY <1>1, <1>2, <1>3, <1>4, <1>5, <1>6, <1>7 DEF Next

LEMMA ObjectsRead == ObjectInv => ReadAsMeant
<1> SUFFICES ASSUME ObjectInv, step = "object"
             PROVE  /\ Reading(Objects[payload.enum], Variant.tag, payload.keys) =
                         {payload.variant}
                    /\ Cardinality(payload.keys \cap Requests) <= 1
  BY DEF ReadAsMeant
<1>1. /\ payload.enum \in DOMAIN Objects
      /\ payload.variant \in DOMAIN Objects[payload.enum]
      /\ Variant.required \subseteq payload.keys
      /\ payload.keys \subseteq Keys(Variant)
      /\ \A key, other \in payload.keys \cap Requests : key = other
  BY DEF ObjectInv
<1>2. Reading(Objects[payload.enum], Variant.tag, payload.keys) = {payload.variant}
  BY <1>1, ObjectsToldApart, ReadsOne DEF Variant
<1>3. payload.keys \cap Requests = {} \/
      \E key : payload.keys \cap Requests = {key}
  BY <1>1
<1>4. Cardinality(payload.keys \cap Requests) <= 1
  BY <1>3, FS_EmptySet, FS_Singleton
<1> QED
  BY <1>2, <1>4

\* An object is read as what it was made as, whichever setters were called and
\* however often: result and content structs that share a tag never share all
\* that they need, and a button asks for one thing (inline_mode, reply_markup).
THEOREM ObjectsAreReadAsMeant == Spec => []ReadAsMeant
<1>1. ObjectInv /\ [Next]_vars => ObjectInv'
  BY NextObject
<1> QED
  BY <1>1, InitObject, ObjectsRead, PTL DEF Spec

-----------------------------------------------------------------------------
(* Answers                                                                 *)

\* The type that the answer to a call of this path has to be read as.
AnswerTo(path) ==
  IF path \in Edits THEN "EditMessageResult"
  ELSE IF path \in Sends THEN "Message"
  ELSE IF path = "getChatMember" THEN "ChatMember"
  ELSE IF path = "getChatAdministrators" THEN "ChatMembers"
  ELSE IF path \in DOMAIN Others THEN Others[path] ELSE "bool"

\* Paths whose answer is TRUE.
Plain(path) ==
  /\ path \notin Edits \cup Sends \cup DOMAIN Others
  /\ path \notin {"getChatMember", "getChatAdministrators"}

EditMethods ==
  {SetGameScore, EditMessageCaption, EditMessageLiveLocation,
   StopMessageLiveLocation, EditMessageMedia, EditMessageReplyMarkup,
   EditMessageText}

SendMethods ==
  {SendGame, ForwardMessage, SendMessage, SendPoll, SendAnimation, SendAudio,
   SendContact, SendDocument, SendInvoice, SendLocation, SendPhoto, SendVenue,
   SendVideo, SendVideoNote, SendVoice, SendSticker}

PlainMethods ==
  {AnswerCallbackQuery, AnswerInlineQuery, AnswerPreCheckoutQuery,
   AnswerShippingQuery, DeleteChatPhoto, DeleteChatStickerSet, LeaveChat,
   PinChatMessage, SetChatDescription, SetChatPhoto, SetChatStickerSet,
   SetChatTitle, UnpinChatMessage, KickChatMember, PromoteChatMember,
   RestrictChatMember, UnbanChatMember, DeleteMessage, SetPassportDataErrors,
   SendChatAction, AddStickerToSet, DeleteStickerFromSet, CreateNewStickerSet,
   SetStickerPositionInSet, SetWebhook, DeleteWebhook}

OtherMethods ==
  {ExportChatInviteLink, GetChat, GetChatAdministrators, GetChatMembersCount,
   GetChatMember, GetGameHighScores, GetFile, StopPoll, SendMediaGroup,
   GetStickerSet, UploadStickerFile, GetUpdates, GetWebhookInfo, GetMe,
   GetUserProfilePhotos}

LEMMA MethodsSorted ==
  Methods = EditMethods \cup SendMethods \cup PlainMethods \cup OtherMethods
BY DEF Methods, EditMethods, SendMethods, PlainMethods, OtherMethods

LEMMA EditsAnswered ==
  \A method \in EditMethods :
    method.path \in Edits /\ method.answer = "EditMessageResult"
BY DEF EditMethods, Edits, Json, Form, Method,
       SetGameScore, EditMessageCaption, EditMessageLiveLocation,
       StopMessageLiveLocation, EditMessageMedia, EditMessageReplyMarkup,
       EditMessageText

LEMMA SendsAnswered ==
  \A method \in SendMethods : method.path \in Sends /\ method.answer = "Message"
BY DEF SendMethods, Sends, Json, Form, Method,
       SendGame, ForwardMessage, SendMessage, SendPoll, SendAnimation,
       SendAudio, SendContact, SendDocument, SendInvoice, SendLocation,
       SendPhoto, SendVenue, SendVideo, SendVideoNote, SendVoice, SendSticker

LEMMA PlainAnswered ==
  \A method \in PlainMethods : Plain(method.path) /\ method.answer = "bool"
BY DEF PlainMethods, Plain, Edits, Sends, Others, Json, Form, Empty, Method,
       AnswerCallbackQuery, AnswerInlineQuery, AnswerPreCheckoutQuery,
       AnswerShippingQuery, DeleteChatPhoto, DeleteChatStickerSet, LeaveChat,
       PinChatMessage, SetChatDescription, SetChatPhoto, SetChatStickerSet,
       SetChatTitle, UnpinChatMessage, KickChatMember, PromoteChatMember,
       RestrictChatMember, UnbanChatMember, DeleteMessage,
       SetPassportDataErrors, SendChatAction, AddStickerToSet,
       DeleteStickerFromSet, CreateNewStickerSet, SetStickerPositionInSet,
       SetWebhook, DeleteWebhook

LEMMA OthersAnswered ==
  \A method \in OtherMethods :
    method.path \notin Edits \cup Sends /\ method.answer = AnswerTo(method.path)
BY DEF OtherMethods, AnswerTo, Edits, Sends, Others, Json, Form, Empty, Method,
       ExportChatInviteLink, GetChat, GetChatAdministrators,
       GetChatMembersCount, GetChatMember, GetGameHighScores, GetFile,
       StopPoll, SendMediaGroup, GetStickerSet, UploadStickerFile, GetUpdates,
       GetWebhookInfo, GetMe, GetUserProfilePhotos

\* Every method names the type that its answer has: one slip in the answer of
\* one method would show here.
LEMMA AnswersFit == \A method \in Methods : method.answer = AnswerTo(method.path)
<1>1. \A path \in Sends : path \notin Edits
  BY DEF Sends, Edits
<1> QED
  BY <1>1, MethodsSorted, EditsAnswered, SendsAnswered, PlainAnswered,
     OthersAnswered DEF AnswerTo, Plain

\* What Telegram answers to a method is read, whoever the members are.
LEMMA ResultsRead ==
  ASSUME RightsSent \subseteq {"all"}, NEW path, NEW body,
         NEW result \in Results(path, body)
  PROVE  Reads(AnswerTo(path), result)
<1>1. \A m \in Administrators \cup Creators \cup Members :
        ChatMember[m.status] \subseteq m.fields
  <2>1. \A m \in Administrators : ChatMember[m.status] \subseteq m.fields
    <3>1. ChatMember["administrator"] = {"can_be_edited"} \cup AdminRights
      BY DEF ChatMember
    <3>2. Rights["all"] = AdminRights
      BY DEF Rights
    <3>3. \A m \in Administrators :
            m = [status |-> "administrator",
                 fields |-> {"can_be_edited"} \cup AdminRights]
      BY <3>2 DEF Administrators
    <3> QED
      BY <3>1, <3>3
  <2>2. \A m \in Creators : ChatMember[m.status] \subseteq m.fields
    BY DEF Creators, ChatMember
  <2>3. \A m \in Members \ (Administrators \cup Creators) :
          ChatMember[m.status] \subseteq m.fields
    BY DEF Members, ChatMember
  <2> QED
    BY <2>1, <2>2, <2>3
<1>2. CASE path \in Edits
  BY <1>2 DEF Results, Result, AnswerTo, Reads, EditMessageResult
<1>3. CASE path \notin Edits /\ path \in Sends
  BY <1>3 DEF Results, Result, AnswerTo, Reads
<1>4. CASE path = "getChatMember"
  <2>1. path \notin Edits /\ path \notin Sends
    BY <1>4 DEF Edits, Sends
  <2>2. AnswerTo(path) = "ChatMember"
    BY <1>4, <2>1 DEF AnswerTo
  <2>3. PICK m \in Members : result = [type |-> "ChatMember", members |-> {m}]
    BY <1>4, <2>1 DEF Results
  <2> QED
    BY <1>1, <2>2, <2>3 DEF Reads
<1>5. CASE path = "getChatAdministrators"
  <2>1. path \notin Edits /\ path \notin Sends
    BY <1>5 DEF Edits, Sends
  <2>2. AnswerTo(path) = "ChatMembers"
    BY <1>5, <2>1 DEF AnswerTo
  <2>3. PICK admins \in SUBSET (Administrators \cup Creators) :
          result = [type |-> "ChatMembers", members |-> admins]
    BY <1>5, <2>1 DEF Results
  <2> QED
    BY <1>1, <2>2, <2>3 DEF Reads
<1>6. CASE /\ path \notin Edits \cup Sends
           /\ path \notin {"getChatMember", "getChatAdministrators"}
  <2>1. result = Result(AnswerTo(path))
    BY <1>6 DEF Results, AnswerTo
  <2>2. AnswerTo(path) # "EditMessageResult"
    BY <1>6 DEF AnswerTo, Others
  <2> QED
    BY <2>1, <2>2 DEF Result, Reads
<1> QED
  BY <1>2, <1>3, <1>4, <1>5, <1>6

\* A call that was answered has a method, and an outcome made of the answer.
AnswerInv ==
  /\ step = "built" => draft.method \in Methods
  /\ \/ request = NoRequest
     \/ request.path = "file"
     \/ \E method \in Methods :
          request.path = method.path /\ request.answer = method.answer
  /\ step = "done" /\ request # NoRequest /\ request.path # "file" /\ reply # NoReply =>
       outcome = Outcome(request.answer, reply)

LEMMA InitAnswer == Init => AnswerInv
BY DEF Init, Started, AnswerInv

LEMMA NextAnswer == StageInv /\ AnswerInv /\ [Next]_vars => AnswerInv'
<1> SUFFICES ASSUME StageInv, AnswerInv, [Next]_vars PROVE AnswerInv'
  OBVIOUS
<1>1. EditMessageMedia \in Methods /\ SendMediaGroup \in Methods
  BY DEF Methods
<1>2. AnswerInlineQuery \in Methods /\ SendMessage \in Methods
      /\ SetPassportDataErrors \in Methods
  BY DEF Methods
<1>3. ASSUME NEW method \in Methods, NEW form, NEW media, Constructed(method, form, media)
      PROVE  AnswerInv'
  <2>1. draft'.method = method /\ step' = "built" /\ request' = request
    BY <1>3 DEF Constructed
  <2> QED
    BY <2>1 DEF AnswerInv
<1>4. ASSUME step' \notin {"built", "done"}, request' = request
      PROVE  AnswerInv'
  BY <1>4 DEF AnswerInv
<1>5. ASSUME step' = "done", request' = request, request = NoRequest \/ reply' = NoReply
      PROVE  AnswerInv'
  BY <1>5 DEF AnswerInv
<1>6. CASE Construct
  BY <1>3, <1>6 DEF Construct
<1>7. CASE Setter
  <2>1. step' = "built" /\ step = "built" /\ request' = request
    BY <1>7 DEF Setter
  <2>2. draft'.method = draft.method
    BY <1>7 DEF Setter
  <2> QED
    BY <2>1, <2>2 DEF AnswerInv
<1>8. CASE EditMedia
  BY <1>1, <1>3, <1>8 DEF EditMedia
<1>9. CASE StartGroup \/ AddItem \/ AddItemWithThumb
  BY <1>4, <1>9 DEF StartGroup, AddItem, AddItemWithThumb
<1>10. CASE SendGroup
  BY <1>1, <1>3, <1>5, <1>10 DEF SendGroup, Finish, StageInv
<1>11. CASE NewObject \/ SetKey
  BY <1>4, <1>11 DEF NewObject, SetKey
<1>12. CASE UseObject
  BY <1>2, <1>3, <1>12 DEF UseObject
<1>13. CASE ReceiveElement
  BY <1>4, <1>5, <1>13 DEF ReceiveElement, Finish, StageInv
<1>14. CASE ReportError
  BY <1>2, <1>3, <1>5, <1>14 DEF ReportError, Finish, StageInv
<1>15. CASE Execute
  <2>1. CASE step' = "done" /\ request' = request
    BY <1>5, <1>15, <2>1 DEF Execute, StageInv
  <2>2. ASSUME NEW body,
               request' = Request(draft.method.verb, draft.method.path,
                                  draft.method.answer, body),
               step' = "sent"
        PROVE  AnswerInv'
    <3>1. draft.method \in Methods
      BY <1>15 DEF Execute, AnswerInv
    <3>2. request'.path = draft.method.path /\ request'.answer = draft.method.answer
      BY <2>2 DEF Request
    <3> QED
      BY <2>2, <3>1, <3>2 DEF AnswerInv
  <2> QED
    BY <1>15, <2>1, <2>2 DEF Execute, Finish
<1>16. CASE Download
  BY <1>16 DEF Download, Request, AnswerInv
<1>17. CASE Lost
  BY <1>5, <1>17 DEF Lost, Finish, StageInv
<1>18. CASE Answer
  BY <1>4, <1>18 DEF Answer
<1>19. CASE Receive
  BY <1>19 DEF Receive, Finish, AnswerInv
<1>20. CASE NextCall
  BY <1>20 DEF NextCall, Started, AnswerInv
<1>21. CASE UNCHANGED vars
  BY <1>21 DEF vars, AnswerInv
<1> QED
  BY <1>6, <1>7, <1>8, <1>9, <1>10, <1>11, <1>12, <1>13, <1>14, <1>15, <1>16,
     <1>17, <1>18, <1>19, <1>20, <1>21 DEF Next

LEMMA OutcomeOfAnswer ==
  ASSUME RightsSent \subseteq {"all"}, NEW path, NEW body, NEW response \in Answers(path, body)
  PROVE  Outcome(AnswerTo(path), response) =
           IF response.ok THEN Returned(CHOOSE r \in response.result : TRUE)
           ELSE Refused(response.retry_after)
<1>1. CASE \E result \in Results(path, body) :
             response = Response(TRUE, {result}, FALSE, {})
  <2>1. PICK result \in Results(path, body) :
          response = Response(TRUE, {result}, FALSE, {})
    BY <1>1
  <2>2. /\ response.is = "json" /\ response.ok = TRUE /\ response.result = {result}
    BY <2>1 DEF Response
  <2>3. (CHOOSE r \in response.result : TRUE) = result
    BY <2>2
  <2>4. Reads(AnswerTo(path), result)
    BY ResultsRead
  <2> QED
    BY <2>2, <2>3, <2>4 DEF Outcome
<1>2. CASE \E seconds : response = Response(FALSE, {}, TRUE, seconds)
  BY <1>2 DEF Response, Outcome
<1> QED
  BY <1>1, <1>2 DEF Answers

LEMMA AnswersAreRead ==
  ASSUME RightsSent \subseteq {"all"}
  PROVE  AnswerInv => AnswerRead
<1> SUFFICES ASSUME AnswerInv, step = "done", request # NoRequest, request.path # "file",
                    reply \in Answers(request.path, request.body)
             PROVE  outcome = IF reply.ok THEN Returned(CHOOSE r \in reply.result : TRUE)
                              ELSE Refused(reply.retry_after)
  BY DEF AnswerRead
<1>1. reply # NoReply
  BY DEF Answers, Response, NoReply
<1>2. outcome = Outcome(request.answer, reply)
  BY <1>1 DEF AnswerInv
<1>3. request.answer = AnswerTo(request.path)
  BY AnswersFit DEF AnswerInv
<1> QED
  BY <1>2, <1>3, OutcomeOfAnswer

\* The caller learns what Telegram answered, for every method, constructor and
\* setter (Api::execute and the Response type of every Method), as long as
\* administrators are sent with every right: types/chat/member.rs needs them
\* all, and the run requests_administrators shows what happens otherwise.
THEOREM AnswersReachTheCaller ==
  ASSUME RightsSent \subseteq {"all"}
  PROVE  Spec => []AnswerRead
<1>1. StageInv /\ AnswerInv /\ [Next]_vars => AnswerInv'
  BY NextAnswer
<1>2. AnswerInv => AnswerRead
  BY AnswersAreRead
<1> QED
  BY <1>1, <1>2, Stages, InitAnswer, PTL DEF Spec
=============================================================================
