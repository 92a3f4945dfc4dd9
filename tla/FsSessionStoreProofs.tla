------------------------- MODULE FsSessionStoreProofs -------------------------
(***************************************************************************)
(* Proofs about FsSessionStore, for any number of clients, sessions, key   *)
(* names and values, with the collector and crashes: every file belongs to *)
(* a directory that is there, and get() returns only what set() was given. *)
(* For one client at a time: the collector removes no young session, and   *)
(* the store implements the map with timeouts of SessionStore.             *)
(***************************************************************************)
EXTENDS FsSessionStore, TLAPS

Files == Stems \cup {Marker}

Datas ==
  [is : {"data"}, value : Values \cup Nat, expires_at : Nat \cup {Never}]

Contents == {Absent, Empty, Corrupt} \cup Datas

Calls ==
  [op : {"get", "set", "expire", "del"}, key : Keys,
   step : {"metadata", "create_dir", "marker_time", "open", "write",
           "metadata_again", "read", "remove"},
   path : Files, data : Datas, stamp : Nat, seconds : Seconds,
   old : Contents, linked : BOOLEAN]

\* A client works on the marker or on the file of its key, and a client that
\* is about to write a value has one that set() was given for that file.
CallOK(c) ==
  \/ call[c] = Idle
  \/ /\ call[c] \in Calls
     /\ call[c].op \in Ops[c]
     /\ call[c].op = "set" => <<call[c].key, call[c].data.value>> \in written
     /\ call[c].path \in {Marker, call[c].key[2].stem}
     /\ call[c].step \in {"metadata", "create_dir", "marker_time", "metadata_again"} =>
          call[c].path = Marker
     /\ call[c].step \in {"read", "remove"} => call[c].path = call[c].key[2].stem
     /\ call[c].step \in {"open", "write"} /\ call[c].path # Marker =>
          WrittenTo(call[c].key[1], call[c].path, call[c].data.value)

\* A file that a client has open, and that nobody has removed, is there.
LinkedOK(c) ==
  call[c].step = "write" /\ call[c].linked => File(c) # Absent

ResultOK(c) ==
  /\ result[c].reply \in Values \cup {"none", "ok", "error"}
  /\ result[c].reply \in Values =>
       WrittenTo(result[c].key[1], result[c].key[2].stem, result[c].reply)

\* A file is in a directory that is there, and the values in it were given to
\* set() for a name with its stem.
FilesOK ==
  /\ file \in [Namespaces -> [Files -> Contents]]
  /\ \A ns \in Namespaces, x \in Files : file[ns][x] # Absent => ns \in dirs
  /\ \A ns \in Namespaces, x \in Stems :
       file[ns][x].is = "data" => WrittenTo(ns, x, file[ns][x].value)

GcOK ==
  /\ gc \in [step : {"waiting", "read_root", "next", "read_dir", "remove",
                     "panicked"},
             now : Nat, todo : SUBSET Namespaces,
             ns : Namespaces \cup {"none"}, timestamp : Values \cup Nat,
             files : SUBSET Files]
  /\ gc.step \in {"read_dir", "remove"} => gc.ns \in Namespaces

FsInv ==
  /\ now \in 0 .. MaxTime
  /\ dirs \subseteq Namespaces
  /\ written \subseteq Keys \X Values
  /\ FilesOK
  /\ DOMAIN call = Clients
  /\ call = [c \in Clients |-> call[c]]
  /\ DOMAIN result = Clients
  /\ result = [c \in Clients |-> result[c]]
  /\ \A c \in Clients : CallOK(c) /\ LinkedOK(c) /\ ResultOK(c)
  /\ GcOK

-----------------------------------------------------------------------------
(* Contents and written values                                             *)

LEMMA ContentKinds ==
  /\ \A content \in Contents :
       content.is = "data" => content \in Datas
  /\ \A content \in Datas : content.is = "data" /\ content # Absent
  /\ Empty # Absent /\ Corrupt # Absent
  /\ Absent.is # "data" /\ Empty.is # "data" /\ Corrupt.is # "data"
BY DEF Contents, Datas, Absent, Empty, Corrupt

LEMMA DataType ==
  ASSUME NEW v \in Values \cup Nat, NEW e \in Nat \cup {Never}
  PROVE  Data(v, e) \in Datas /\ Data(v, e).value = v
BY DEF Data, Datas

LEMMA NowType == FsInv => now \in Nat
BY StoreAssumption DEF FsInv

LEMMA MarkerIsNoStem == Marker \notin Stems
BY StoreAssumption

LEMMA KeyType ==
  ASSUME NEW key \in Keys
  PROVE  /\ key[1] \in Namespaces
         /\ key[2] \in Names
         /\ key[2].stem \in Stems
         /\ key = <<key[1], key[2]>>
BY DEF Keys, Stems

\* What was written stays written.
LEMMA WrittenGrows ==
  ASSUME NEW ns, NEW x, NEW v, WrittenTo(ns, x, v), written \subseteq written'
  PROVE  WrittenTo(ns, x, v)'
BY DEF WrittenTo

LEMMA WrittenKey ==
  ASSUME NEW key \in Keys, NEW v, <<key, v>> \in written
  PROVE  WrittenTo(key[1], key[2].stem, v)
BY KeyType DEF WrittenTo

LEMMA WrittenIsValue ==
  ASSUME FsInv, NEW ns, NEW x, NEW v, WrittenTo(ns, x, v)
  PROVE  v \in Values
BY DEF FsInv, WrittenTo

-----------------------------------------------------------------------------
(* Changes of one file, of one call, of one result                         *)

\* What a client under way works on.
LEMMA ActiveCall ==
  ASSUME FsInv, NEW c \in Clients, call[c].step # "idle"
  PROVE  /\ call[c] \in Calls
         /\ call[c] # Idle
         /\ Dir(c) \in Namespaces
         /\ call[c].key \in Keys
         /\ call[c].path \in Files
         /\ File(c) \in Contents
<1>1. call[c] # Idle
  BY DEF Idle
<1>2. call[c] \in Calls
  BY <1>1 DEF FsInv, CallOK
<1>3. call[c].key \in Keys /\ call[c].path \in Files
  BY <1>2 DEF Calls
<1> QED
  BY <1>1, <1>2, <1>3, KeyType DEF FsInv, FilesOK, Dir, File

\* A file changes: everything in the file system stays in its place.
LEMMA FileChanges ==
  ASSUME FsInv, NEW ns \in Namespaces, NEW x \in Files, NEW content \in Contents,
         file' = [file EXCEPT ![ns][x] = content],
         content # Absent => ns \in dirs,
         dirs' = dirs,
         written \subseteq written',
         x \in Stems /\ content.is = "data" => WrittenTo(ns, x, content.value)
  PROVE  FilesOK'
<1>1. /\ file' \in [Namespaces -> [Files -> Contents]]
      /\ \A n \in Namespaces, y \in Files :
           file'[n][y] = IF n = ns /\ y = x THEN content ELSE file[n][y]
  BY DEF FsInv, FilesOK
<1>2. \A n \in Namespaces, y \in Files : file'[n][y] # Absent => n \in dirs'
  BY <1>1 DEF FsInv, FilesOK
<1>3. ASSUME NEW n \in Namespaces, NEW y \in Stems, file'[n][y].is = "data"
      PROVE  WrittenTo(n, y, file[n][y].value)'
  <2>1. y \in Files
    BY DEF Files
  <2>2. WrittenTo(n, y, file'[n][y].value)
    BY <1>1, <1>3, <2>1 DEF FsInv, FilesOK
  <2> QED
    BY <1>1, <2>1, <2>2, WrittenGrows DEF WrittenTo
<1> QED
  BY <1>1, <1>2, <1>3 DEF FilesOK

LEMMA FilesStay ==
  ASSUME FsInv, file' = file, dirs \subseteq dirs', written \subseteq written'
  PROVE  FilesOK'
<1>1. ASSUME NEW n \in Namespaces, NEW y \in Stems, file'[n][y].is = "data"
      PROVE  WrittenTo(n, y, file[n][y].value)'
  BY <1>1 DEF FsInv, FilesOK, WrittenTo
<1> QED
  BY <1>1 DEF FsInv, FilesOK

\* What the other calls may rely on stays when files only change.
LEMMA OtherCall ==
  ASSUME FsInv, NEW d \in Clients, call'[d] = call[d], written \subseteq written'
  PROVE  CallOK(d)'
BY DEF FsInv, CallOK, WrittenTo

LEMMA OtherResult ==
  ASSUME FsInv, NEW d \in Clients, result'[d] = result[d],
         written \subseteq written'
  PROVE  ResultOK(d)'
BY DEF FsInv, ResultOK, WrittenTo

\* A step of one client, of which every part is as it should be.
LEMMA ClientStep ==
  ASSUME FsInv, NEW c \in Clients,
         DOMAIN call' = Clients, call' = [d \in Clients |-> call'[d]],
         \A d \in Clients \ {c} : call'[d] = call[d],
         DOMAIN result' = Clients, result' = [d \in Clients |-> result'[d]],
         \A d \in Clients \ {c} : result'[d] = result[d],
         CallOK(c)', ResultOK(c)', FilesOK',
         \A d \in Clients : LinkedOK(d)',
         now' = now, gc' = gc, dirs' \subseteq Namespaces,
         written \subseteq written', written' \subseteq Keys \X Values
  PROVE  FsInv'
<1>1. \A d \in Clients : CallOK(d)' /\ ResultOK(d)'
  BY OtherCall, OtherResult
<1>2. GcOK' /\ now' \in 0 .. MaxTime
  BY DEF FsInv, GcOK
<1> QED
  BY <1>1, <1>2 DEF FsInv

\* Files that nobody removes stay linked.
LEMMA LinksStay ==
  ASSUME FsInv, NEW c \in Clients, NEW d \in Clients \ {c}, call'[d] = call[d],
         \/ file' = file
         \/ \E ns \in Namespaces, x \in Files, content \in Contents :
              content # Absent /\ file' = [file EXCEPT ![ns][x] = content]
  PROVE  LinkedOK(d)'
<1>1. CASE file' = file
  BY <1>1 DEF FsInv, LinkedOK, File, Dir
<1>2. ASSUME NEW ns \in Namespaces, NEW x \in Files, NEW content \in Contents,
             content # Absent, file' = [file EXCEPT ![ns][x] = content]
      PROVE  LinkedOK(d)'
  <2> SUFFICES ASSUME call[d].step = "write", call[d].linked
               PROVE  file'[call[d].key[1]][call[d].path] # Absent
    BY DEF LinkedOK, File, Dir
  <2>1. Dir(d) \in Namespaces /\ call[d].path \in Files
    BY ActiveCall
  <2>2. file[call[d].key[1]][call[d].path] # Absent
    BY DEF FsInv, LinkedOK, File, Dir
  <2> QED
    BY <1>2, <2>1, <2>2 DEF FsInv, FilesOK, Dir
<1> QED
  BY <1>1, <1>2

LEMMA WithPathEffect ==
  ASSUME FsInv, NEW c \in Clients, WithPath(c), written' = written,
         call[c].step \in {"metadata", "metadata_again"}
  PROVE  /\ DOMAIN call' = Clients /\ call' = [d \in Clients |-> call'[d]]
         /\ \A d \in Clients \ {c} : call'[d] = call[d]
         /\ call'[c].step \in {"open", "remove", "read"}
         /\ CallOK(c)'
         /\ result' = result
<1> DEFINE stem == call[c].key[2].stem
           step == CASE call[c].op = "set" -> "open"
                     [] call[c].op = "del" -> "remove"
                     [] OTHER -> "read"
           new  == [call[c] EXCEPT !.path = stem, !.step = step]
<1>1. call[c] \in Calls /\ call[c].key \in Keys /\ call[c] # Idle
  BY ActiveCall
<1>2. call' = [call EXCEPT ![c] = new] /\ result' = result
  BY DEF WithPath, file_name
<1>3. /\ step \in {"open", "remove", "read"}
      /\ step = "open" => call[c].op = "set"
  OBVIOUS
<1>4. stem \in Stems /\ stem \in Files
  BY <1>1, KeyType DEF Files
<1> HIDE DEF step
<1>5. /\ new \in Calls
      /\ new.op = call[c].op /\ new.key = call[c].key /\ new.data = call[c].data
      /\ new.path = stem /\ new.step = step
  BY <1>1, <1>3, <1>4 DEF Calls
<1> HIDE DEF new
<1>6. DOMAIN call' = Clients /\ call' = [d \in Clients |-> call'[d]]
  BY <1>2 DEF FsInv
<1>7. call'[c] = new /\ \A d \in Clients \ {c} : call'[d] = call[d]
  BY <1>2 DEF FsInv
<1>8. /\ call[c].op \in Ops[c]
      /\ call[c].op = "set" => <<call[c].key, call[c].data.value>> \in written
  BY <1>1 DEF FsInv, CallOK
<1>9. step = "open" => WrittenTo(call[c].key[1], stem, call[c].data.value)
  BY <1>1, <1>3, <1>8, WrittenKey
<1>10. CallOK(c)'
  BY <1>3, <1>5, <1>7, <1>8, <1>9 DEF CallOK, WrittenTo
<1> QED
  BY <1>2, <1>3, <1>5, <1>6, <1>7, <1>10

LEMMA FinishEffect ==
  ASSUME FsInv, NEW c \in Clients, NEW r \in Values \cup {"none", "ok", "error"},
         call[c].step # "idle", Finish(c, r), written' = written,
         r \in Values => WrittenTo(call[c].key[1], call[c].key[2].stem, r)
  PROVE  /\ DOMAIN call' = Clients /\ call' = [d \in Clients |-> call'[d]]
         /\ DOMAIN result' = Clients /\ result' = [d \in Clients |-> result'[d]]
         /\ \A d \in Clients \ {c} : call'[d] = call[d] /\ result'[d] = result[d]
         /\ call'[c].step # "write"
         /\ CallOK(c)' /\ ResultOK(c)'
<1> DEFINE new == [op |-> call[c].op, key |-> call[c].key, reply |-> r]
<1>1. /\ call' = [call EXCEPT ![c] = Idle]
      /\ result' = [result EXCEPT ![c] = new]
  BY DEF Finish, Return
<1>2. new.reply = r /\ new.key = call[c].key
  OBVIOUS
<1> HIDE DEF new
<1>3. /\ DOMAIN call' = Clients /\ call' = [d \in Clients |-> call'[d]]
      /\ DOMAIN result' = Clients /\ result' = [d \in Clients |-> result'[d]]
  BY <1>1 DEF FsInv
<1>4. /\ call'[c] = Idle /\ result'[c] = new
      /\ \A d \in Clients \ {c} : call'[d] = call[d] /\ result'[d] = result[d]
  BY <1>1 DEF FsInv
<1>5. CallOK(c)' /\ call'[c].step # "write"
  BY <1>4 DEF CallOK, Idle
<1>6. ResultOK(c)'
  BY <1>2, <1>4 DEF ResultOK, WrittenTo
<1> QED
  BY <1>3, <1>4, <1>5, <1>6

-----------------------------------------------------------------------------
(* The steps of a client                                                   *)

LEMMA InitInv == Init => FsInv
<1> SUFFICES ASSUME Init PROVE FsInv
  OBVIOUS
<1>1. FilesOK
  BY DEF Init, FilesOK, Files, Contents, Absent
<1>2. GcOK
  BY DEF Init, GcOK, NoCollect
<1>3. \A c \in Clients : CallOK(c) /\ LinkedOK(c) /\ ResultOK(c)
  BY StoreAssumption DEF Init, CallOK, LinkedOK, ResultOK, Idle, NoResult
<1> QED
  BY <1>1, <1>2, <1>3, StoreAssumption DEF Init, FsInv

LEMMA StartInv ==
  ASSUME FsInv, NEW c \in Clients, Start(c) PROVE FsInv'
<1>1. PICK op \in Ops[c], key \in Keys, v \in Values, s \in Seconds :
        Begin(c, op, key, v, s)
  BY DEF Start
<1> DEFINE new == [op |-> op, key |-> key, step |-> "metadata", path |-> Marker,
                   data |-> Data(v, Never), stamp |-> 0, seconds |-> s,
                   old |-> Absent, linked |-> FALSE]
<1>2. /\ call' = [call EXCEPT ![c] = new]
      /\ written' = IF op = "set" THEN written \cup {<<key, v>>} ELSE written
      /\ UNCHANGED <<now, dirs, file, result, gc>>
  BY <1>1 DEF Begin
<1>3. /\ Data(v, Never) \in Datas /\ Data(v, Never).value = v
      /\ op \in {"get", "set", "expire", "del"}
  BY DataType, StoreAssumption
<1>4. /\ new \in Calls
      /\ new.op = op /\ new.key = key /\ new.data.value = v
      /\ new.path = Marker /\ new.step = "metadata"
  BY <1>3 DEF Calls, Files, Contents
<1> HIDE DEF new
<1>5. /\ DOMAIN call' = Clients /\ call' = [d \in Clients |-> call'[d]]
      /\ call'[c] = new /\ \A d \in Clients \ {c} : call'[d] = call[d]
  BY <1>2 DEF FsInv
<1>6. written \subseteq written' /\ written' \subseteq Keys \X Values
  BY <1>2 DEF FsInv
<1>7. op = "set" => <<key, v>> \in written'
  BY <1>2
<1>8. CallOK(c)'
  BY <1>4, <1>5, <1>7 DEF CallOK
<1>9. ResultOK(c)'
  BY <1>2, <1>6, OtherResult
<1>10. FilesOK'
  BY <1>2, <1>6, FilesStay
<1>11. \A d \in Clients : LinkedOK(d)'
  <2>1. LinkedOK(c)'
    BY <1>4, <1>5 DEF LinkedOK
  <2> QED
    BY <1>2, <1>5, <2>1, LinksStay
<1> QED
  BY <1>2, <1>5, <1>6, <1>8, <1>9, <1>10, <1>11, ClientStep DEF FsInv

\* key_to_path
LEMMA PathInv ==
  ASSUME FsInv, NEW c \in Clients,
         Metadata(c) \/ CreateDir(c) \/ MarkerTime(c) \/ MetadataAgain(c)
  PROVE  FsInv'
<1>1. /\ written' = written /\ file' = file /\ now' = now /\ gc' = gc
      /\ call[c].step \in {"metadata", "create_dir", "marker_time", "metadata_again"}
  BY DEF Metadata, CreateDir, MarkerTime, MetadataAgain, history
<1>2. /\ call[c] \in Calls /\ call[c] # Idle
      /\ Dir(c) \in Namespaces /\ now \in Nat
  BY <1>1, ActiveCall, NowType
<1>3. dirs \subseteq dirs' /\ dirs' \subseteq Namespaces
  BY <1>2 DEF FsInv, Metadata, CreateDir, MarkerTime, MetadataAgain
<1>4. FilesOK'
  BY <1>1, <1>3, FilesStay
<1> DEFINE Shape ==
      /\ DOMAIN call' = Clients /\ call' = [d \in Clients |-> call'[d]]
      /\ DOMAIN result' = Clients /\ result' = [d \in Clients |-> result'[d]]
      /\ \A d \in Clients \ {c} : call'[d] = call[d] /\ result'[d] = result[d]
      /\ call'[c].step # "write"
      /\ CallOK(c)' /\ ResultOK(c)'
<1>5. ASSUME Shape PROVE FsInv'
  <2>1. LinkedOK(c)'
    BY <1>5 DEF LinkedOK
  <2>2. \A d \in Clients : LinkedOK(d)'
    BY <1>1, <1>5, <2>1, LinksStay
  <2> QED
    BY <1>1, <1>3, <1>4, <1>5, <2>2, ClientStep DEF FsInv
<1>6. ASSUME result' = result
      PROVE  /\ DOMAIN result' = Clients /\ result' = [d \in Clients |-> result'[d]]
             /\ \A d \in Clients \ {c} : result'[d] = result[d]
             /\ ResultOK(c)'
  BY <1>1, <1>6, OtherResult DEF FsInv
<1>7. CASE WithPath(c) /\ call[c].step \in {"metadata", "metadata_again"}
  <2>1. Shape
    BY <1>1, <1>6, <1>7, WithPathEffect
  <2> QED
    BY <1>5, <2>1
<1>8. CASE Finish(c, "error")
  <2>1. "error" \notin Values
    BY StoreAssumption
  <2>2. Shape
    BY <1>1, <1>8, <2>1, FinishEffect
  <2> QED
    BY <1>5, <2>2
<1>9. ASSUME NEW step \in {"create_dir", "marker_time", "open"}, NEW stamp \in Nat,
             call' = [call EXCEPT ![c].step = step, ![c].stamp = stamp],
             call[c].path = Marker, result' = result
      PROVE  FsInv'
  <2> DEFINE new == [call[c] EXCEPT !.step = step, !.stamp = stamp]
  <2>1. /\ new \in Calls /\ new.step = step
        /\ new.op = call[c].op /\ new.key = call[c].key
        /\ new.data = call[c].data /\ new.path = Marker
    BY <1>2, <1>9 DEF Calls
  <2>2. call' = [call EXCEPT ![c] = new]
    BY <1>9 DEF FsInv
  <2> HIDE DEF new
  <2>3. /\ DOMAIN call' = Clients /\ call' = [d \in Clients |-> call'[d]]
        /\ call'[c] = new /\ \A d \in Clients \ {c} : call'[d] = call[d]
    BY <2>2 DEF FsInv
  <2>4. CallOK(c)'
    BY <1>1, <1>2, <2>1, <2>3 DEF FsInv, CallOK
  <2>5. Shape
    BY <1>6, <1>9, <2>1, <2>3, <2>4
  <2> QED
    BY <1>5, <2>5
<1>10. /\ call[c].step \in {"metadata", "create_dir", "marker_time"} =>
            call[c].path = Marker
       /\ call[c].stamp \in Nat
  BY <1>2 DEF FsInv, CallOK, Calls
<1>11. CASE Metadata(c)
  <2>1. CASE WithPath(c)
    BY <1>7, <1>11, <2>1 DEF Metadata
  <2>2. CASE call' = [call EXCEPT ![c].step = "create_dir"] /\ UNCHANGED result
    <3>1. call' = [call EXCEPT ![c].step = "create_dir", ![c].stamp = call[c].stamp]
      BY <1>2, <2>2 DEF FsInv, Calls
    <3> QED
      BY <1>9, <1>10, <1>11, <2>2, <3>1 DEF Metadata
  <2> QED
    BY <1>11, <2>1, <2>2 DEF Metadata
<1>12. CASE CreateDir(c)
  <2>1. call' = [call EXCEPT ![c].step = "marker_time", ![c].stamp = call[c].stamp]
    BY <1>2, <1>12 DEF CreateDir, FsInv, Calls
  <2> QED
    BY <1>9, <1>10, <1>12, <2>1 DEF CreateDir
<1>13. CASE MarkerTime(c)
  BY <1>2, <1>9, <1>10, <1>13 DEF MarkerTime
<1>14. CASE MetadataAgain(c)
  BY <1>7, <1>8, <1>14 DEF MetadataAgain
<1> QED
  BY <1>11, <1>12, <1>13, <1>14

\* get and expire read the file.
LEMMA ReadInv ==
  ASSUME FsInv, NEW c \in Clients, GetReads(c) \/ ExpireReads(c)
  PROVE  FsInv'
<1> DEFINE stem == call[c].key[2].stem
<1>1. /\ written' = written /\ file' = file /\ now' = now /\ gc' = gc
      /\ dirs' = dirs /\ call[c].step = "read"
  BY DEF GetReads, ExpireReads, history
<1>2. /\ call[c] \in Calls /\ call[c] # Idle
      /\ Dir(c) \in Namespaces /\ now \in Nat
      /\ call[c].key \in Keys /\ File(c) \in Contents
  BY <1>1, ActiveCall, NowType
<1>3. call[c].path = stem /\ stem \in Stems
  BY <1>1, <1>2, KeyType DEF FsInv, CallOK
<1>4. File(c).is = "data" => WrittenTo(call[c].key[1], stem, File(c).value)
  BY <1>2, <1>3 DEF FsInv, FilesOK, File, Dir
<1>5. File(c).is = "data" => File(c).value \in Values
  BY <1>4, WrittenIsValue
<1>6. FilesOK'
  BY <1>1, FilesStay
<1>7. ASSUME NEW r \in Values \cup {"none", "ok", "error"}, Finish(c, r),
             r \in Values => WrittenTo(call[c].key[1], stem, r)
      PROVE  FsInv'
  <2>1. /\ DOMAIN call' = Clients /\ call' = [d \in Clients |-> call'[d]]
        /\ DOMAIN result' = Clients /\ result' = [d \in Clients |-> result'[d]]
        /\ \A d \in Clients \ {c} : call'[d] = call[d] /\ result'[d] = result[d]
        /\ call'[c].step # "write" /\ CallOK(c)' /\ ResultOK(c)'
    BY <1>1, <1>7, FinishEffect
  <2>2. LinkedOK(c)'
    BY <2>1 DEF LinkedOK
  <2>3. \A d \in Clients : LinkedOK(d)'
    BY <1>1, <2>1, <2>2, LinksStay
  <2> QED
    BY <1>1, <1>6, <2>1, <2>3, ClientStep DEF FsInv
<1>8. "error" \notin Values /\ "none" \notin Values
  BY StoreAssumption
<1>9. CASE GetReads(c)
  <2>1. PICK r : /\ Finish(c, r)
                 /\ r \in {"none", "error"} \/ (File(c).is = "data" /\ r = File(c).value)
    <3> DEFINE r == CASE File(c).is = "absent" -> "none"
                      [] File(c).is = "data" ->
                           IF is_expired(File(c)) THEN "none" ELSE File(c).value
                      [] OTHER -> "error"
    <3>1. Finish(c, r)
      BY <1>9 DEF GetReads
    <3>2. r \in {"none", "error"} \/ (File(c).is = "data" /\ r = File(c).value)
      OBVIOUS
    <3> HIDE DEF r
    <3> QED
      BY <3>1, <3>2
  <2> QED
    BY <1>4, <1>5, <1>7, <1>8, <2>1
<1>10. CASE ExpireReads(c)
  <2>1. CASE Finish(c, "error")
    BY <1>7, <1>8, <2>1
  <2>2. CASE /\ File(c).is = "data"
             /\ call' = [call EXCEPT ![c].step = "open",
                       ![c].data = set_lifetime(File(c), call[c].seconds)]
             /\ UNCHANGED result
    <3> DEFINE data == set_lifetime(File(c), call[c].seconds)
               new  == [call[c] EXCEPT !.step = "open", !.data = data]
    <3>1. data \in Datas /\ data.value = File(c).value
      <4>1. call[c].seconds \in Seconds
        BY <1>2 DEF Calls
      <4>2. now \in Nat
        BY NowType
      <4>3. call[c].seconds \in Nat
        BY <4>1, StoreAssumption
      <4>4. now + call[c].seconds \in Nat
        BY <4>2, <4>3
      <4> QED
        BY <1>5, <2>2, <4>4, DataType DEF set_lifetime
    <3>2. call' = [call EXCEPT ![c] = new]
      BY <2>2 DEF FsInv
    <3> HIDE DEF data
    <3>3. /\ new \in Calls /\ new.step = "open" /\ new.data = data
          /\ new.op = call[c].op /\ new.key = call[c].key /\ new.path = stem
      BY <1>2, <1>3, <3>1 DEF Calls
    <3> HIDE DEF new
    <3>4. /\ DOMAIN call' = Clients /\ call' = [d \in Clients |-> call'[d]]
          /\ call'[c] = new /\ \A d \in Clients \ {c} : call'[d] = call[d]
      BY <3>2 DEF FsInv
    <3>5. call[c].op = "expire" /\ call[c].op \in Ops[c]
      BY <1>2, <1>10 DEF ExpireReads, FsInv, CallOK
    <3>6. CallOK(c)'
      <4>1. \E name \in Names :
              name.stem = stem /\ <<<<call[c].key[1], name>>, data.value>> \in written'
        BY <1>1, <1>4, <2>2, <3>1 DEF WrittenTo
      <4> QED
        BY <1>3, <3>3, <3>4, <3>5, <4>1 DEF CallOK, WrittenTo
    <3>7. ResultOK(c)'
      BY <1>1, <2>2, OtherResult
    <3>8. LinkedOK(c)'
      BY <3>3, <3>4 DEF LinkedOK
    <3>9. \A d \in Clients : LinkedOK(d)'
      BY <1>1, <3>4, <3>8, LinksStay
    <3> QED
      BY <1>1, <1>6, <2>2, <3>4, <3>6, <3>7, <3>9, ClientStep DEF FsInv
  <2> QED
    BY <1>10, <2>1, <2>2 DEF ExpireReads
<1> QED
  BY <1>9, <1>10

\* fs::write opens the marker or the file of a key.
LEMMA OpenInv ==
  ASSUME FsInv, NEW c \in Clients, Open(c) PROVE FsInv'
<1>1. /\ written' = written /\ now' = now /\ gc' = gc /\ dirs' = dirs
      /\ call[c].step = "open"
  BY DEF Open, history
<1>2. /\ call[c] \in Calls /\ call[c] # Idle /\ Dir(c) \in Namespaces
      /\ call[c].path \in Files /\ File(c) \in Contents
  BY <1>1, ActiveCall
<1>3. CASE /\ Dir(c) \in dirs
           /\ file' = [file EXCEPT ![Dir(c)][call[c].path] = Empty]
           /\ call' = [call EXCEPT ![c].step = "write", ![c].linked = TRUE,
                                  ![c].old = File(c)]
           /\ UNCHANGED result
  <2> DEFINE new == [call[c] EXCEPT !.step = "write", !.linked = TRUE,
                                    !.old = File(c)]
  <2>1. call' = [call EXCEPT ![c] = new]
    BY <1>3 DEF FsInv
  <2>2. /\ new \in Calls /\ new.step = "write" /\ new.data = call[c].data
        /\ new.op = call[c].op /\ new.key = call[c].key
        /\ new.path = call[c].path
    BY <1>2 DEF Calls
  <2> HIDE DEF new
  <2>3. /\ DOMAIN call' = Clients /\ call' = [d \in Clients |-> call'[d]]
        /\ call'[c] = new /\ \A d \in Clients \ {c} : call'[d] = call[d]
    BY <2>1 DEF FsInv
  <2>4. /\ call[c].op \in Ops[c]
        /\ call[c].op = "set" => <<call[c].key, call[c].data.value>> \in written
        /\ call[c].path \in {Marker, call[c].key[2].stem}
        /\ call[c].path # Marker =>
             WrittenTo(call[c].key[1], call[c].path, call[c].data.value)
    BY <1>1, <1>2 DEF FsInv, CallOK
  <2>5. CallOK(c)'
    BY <1>1, <2>2, <2>3, <2>4 DEF CallOK, WrittenTo
  <2>6. ResultOK(c)'
    BY <1>1, <1>3, OtherResult
  <2>7. Empty \in Contents /\ Empty # Absent /\ Empty.is # "data"
    BY ContentKinds DEF Contents
  <2>8. FilesOK'
    BY <1>1, <1>2, <1>3, <2>7, FileChanges
  <2>9. LinkedOK(c)'
    <3>1. file'[Dir(c)][call[c].path] = Empty
      BY <1>2, <1>3 DEF FsInv, FilesOK
    <3> QED
      BY <2>2, <2>3, <2>7, <3>1 DEF LinkedOK, File, Dir
  <2>10. \A d \in Clients : LinkedOK(d)'
    BY <1>2, <1>3, <2>3, <2>7, <2>9, LinksStay
  <2> QED
    BY <1>1, <1>3, <2>3, <2>5, <2>6, <2>8, <2>10, ClientStep DEF FsInv
<1>4. CASE Finish(c, "error") /\ UNCHANGED file
  <2>1. "error" \notin Values
    BY StoreAssumption
  <2>2. /\ DOMAIN call' = Clients /\ call' = [d \in Clients |-> call'[d]]
        /\ DOMAIN result' = Clients /\ result' = [d \in Clients |-> result'[d]]
        /\ \A d \in Clients \ {c} : call'[d] = call[d] /\ result'[d] = result[d]
        /\ call'[c].step # "write" /\ CallOK(c)' /\ ResultOK(c)'
    BY <1>1, <1>4, <2>1, FinishEffect
  <2>3. LinkedOK(c)' /\ FilesOK'
    BY <1>1, <1>4, <2>2, FilesStay DEF LinkedOK
  <2>4. \A d \in Clients : LinkedOK(d)'
    BY <1>4, <2>2, <2>3, LinksStay
  <2> QED
    BY <1>1, <2>2, <2>3, <2>4, ClientStep DEF FsInv
<1> QED
  BY <1>3, <1>4 DEF Open

\* fs::write writes to the file it has open, if that is still linked.
LEMMA WrittenFile ==
  ASSUME FsInv, NEW c \in Clients, call[c].step = "write",
         NEW content \in Contents, content # Absent,
         written' = written, dirs' = dirs,
         file' = IF call[c].linked
                 THEN [file EXCEPT ![Dir(c)][call[c].path] = content] ELSE file,
         call[c].path # Marker /\ content.is = "data" =>
           content.value = call[c].data.value
  PROVE  /\ FilesOK'
         /\ \A d \in Clients \ {c} : call'[d] = call[d] => LinkedOK(d)'
<1>1. /\ call[c] \in Calls /\ call[c] # Idle /\ Dir(c) \in Namespaces
      /\ call[c].path \in Files
  BY ActiveCall
<1>2. CASE call[c].linked
  <2>1. File(c) # Absent
    BY <1>2 DEF FsInv, LinkedOK
  <2>2. Dir(c) \in dirs
    BY <1>1, <2>1 DEF FsInv, FilesOK, File
  <2>3. call[c].path # Marker =>
          WrittenTo(Dir(c), call[c].path, call[c].data.value)
    BY <1>1 DEF FsInv, CallOK, Dir
  <2>4. FilesOK'
    BY <1>1, <1>2, <2>2, <2>3, MarkerIsNoStem, FileChanges
  <2> QED
    BY <1>1, <1>2, <2>4, LinksStay
<1>3. CASE ~call[c].linked
  BY <1>3, FilesStay, LinksStay
<1> QED
  BY <1>2, <1>3

LEMMA WriteInv ==
  ASSUME FsInv, NEW c \in Clients, WriteMarker(c) \/ WriteValue(c)
  PROVE  FsInv'
<1>1. /\ written' = written /\ now' = now /\ gc' = gc /\ dirs' = dirs
      /\ call[c].step = "write"
  BY DEF WriteMarker, WriteValue, history
<1>2. /\ call[c] \in Calls /\ call[c] # Idle
  BY <1>1, ActiveCall
<1>3. CASE WriteMarker(c)
  <2> DEFINE new == [call[c] EXCEPT !.step = "metadata_again"]
             content == Data(call[c].stamp, Never)
  <2>1. /\ call' = [call EXCEPT ![c] = new] /\ result' = result
        /\ call[c].path = Marker
    BY <1>3 DEF WriteMarker, FsInv
  <2>2. /\ new \in Calls /\ new.step = "metadata_again"
        /\ new.data = call[c].data /\ new.op = call[c].op
        /\ new.key = call[c].key /\ new.path = Marker
    BY <1>2, <2>1 DEF Calls
  <2> HIDE DEF new
  <2>3. /\ DOMAIN call' = Clients /\ call' = [d \in Clients |-> call'[d]]
        /\ call'[c] = new /\ \A d \in Clients \ {c} : call'[d] = call[d]
    BY <2>1 DEF FsInv
  <2>4. CallOK(c)'
    BY <1>1, <1>2, <2>2, <2>3 DEF FsInv, CallOK
  <2>5. ResultOK(c)'
    BY <1>1, <2>1, OtherResult
  <2>6. content \in Contents /\ content # Absent
    <3>1. call[c].stamp \in Nat
      BY <1>2 DEF Calls
    <3> QED
      BY <3>1, DataType, ContentKinds DEF Contents
  <2>7. file' = IF call[c].linked
                THEN [file EXCEPT ![Dir(c)][call[c].path] = content] ELSE file
    BY <1>3, <2>1 DEF WriteMarker
  <2> HIDE DEF content
  <2>8. FilesOK' /\ \A d \in Clients \ {c} : LinkedOK(d)'
    BY <1>1, <2>1, <2>3, <2>6, <2>7, WrittenFile
  <2>9. LinkedOK(c)'
    BY <2>2, <2>3 DEF LinkedOK
  <2> QED
    BY <1>1, <2>1, <2>3, <2>4, <2>5, <2>8, <2>9, ClientStep DEF FsInv
<1>4. CASE WriteValue(c)
  <2>1. PICK content \in {call[c].data, Corrupt} :
          file' = IF call[c].linked
                  THEN [file EXCEPT ![Dir(c)][call[c].path] = content] ELSE file
    BY <1>4 DEF WriteValue
  <2>2. /\ content \in Contents /\ content # Absent
        /\ content.is = "data" => content.value = call[c].data.value
    BY <1>2, ContentKinds DEF Calls, Contents
  <2>3. "ok" \notin Values /\ Finish(c, "ok")
    BY <1>4, StoreAssumption DEF WriteValue
  <2>4. /\ DOMAIN call' = Clients /\ call' = [d \in Clients |-> call'[d]]
        /\ DOMAIN result' = Clients /\ result' = [d \in Clients |-> result'[d]]
        /\ \A d \in Clients \ {c} : call'[d] = call[d] /\ result'[d] = result[d]
        /\ call'[c].step # "write" /\ CallOK(c)' /\ ResultOK(c)'
    BY <1>1, <2>3, FinishEffect
  <2>5. FilesOK' /\ \A d \in Clients \ {c} : LinkedOK(d)'
    BY <1>1, <2>1, <2>2, <2>4, WrittenFile
  <2>6. LinkedOK(c)'
    BY <2>4 DEF LinkedOK
  <2> QED
    BY <1>1, <2>4, <2>5, <2>6, ClientStep DEF FsInv
<1> QED
  BY <1>3, <1>4

\* A file is removed: who has it open writes to a file nobody sees.
LEMMA RemovedFile ==
  ASSUME FsInv, NEW ns \in Namespaces, NEW x \in Files,
         file' = [file EXCEPT ![ns][x] = Absent], dirs' = dirs, written' = written
  PROVE  /\ FilesOK'
         /\ \A d \in Clients :
              call'[d] = Unlinked(ns, x)[d] => CallOK(d)' /\ LinkedOK(d)'
<1>1. FilesOK'
  BY ContentKinds, FileChanges DEF Contents
<1>2. ASSUME NEW d \in Clients, call'[d] = Unlinked(ns, x)[d]
      PROVE  CallOK(d)' /\ LinkedOK(d)'
  <2>1. CASE call[d].step = "write" /\ Dir(d) = ns /\ call[d].path = x
    <3>1. call[d] \in Calls /\ call[d] # Idle
      BY <2>1, ActiveCall
    <3>2. call'[d] = [call[d] EXCEPT !.linked = FALSE]
      BY <1>2, <2>1 DEF Unlinked
    <3>3. /\ call'[d] \in Calls /\ ~call'[d].linked
          /\ call'[d].step = call[d].step /\ call'[d].data = call[d].data
          /\ call'[d].op = call[d].op /\ call'[d].key = call[d].key
          /\ call'[d].path = call[d].path
      BY <3>1, <3>2 DEF Calls
    <3> QED
      BY <3>1, <3>3 DEF FsInv, CallOK, LinkedOK, WrittenTo
  <2>2. CASE ~(call[d].step = "write" /\ Dir(d) = ns /\ call[d].path = x)
    <3>1. call'[d] = call[d]
      BY <1>2, <2>2 DEF Unlinked
    <3>2. CallOK(d)'
      BY <3>1, OtherCall
    <3>3. ASSUME call[d].step = "write", call[d].linked
          PROVE  file'[call[d].key[1]][call[d].path] # Absent
      <4>1. Dir(d) \in Namespaces /\ call[d].path \in Files
        BY <3>3, ActiveCall
      <4>2. file[call[d].key[1]][call[d].path] # Absent
        BY <3>3 DEF FsInv, LinkedOK, File, Dir
      <4> QED
        BY <2>2, <3>3, <4>1, <4>2 DEF FsInv, FilesOK, Dir
    <3> QED
      BY <3>1, <3>2, <3>3 DEF LinkedOK, File, Dir
  <2> QED
    BY <2>1, <2>2
<1> QED
  BY <1>1, <1>2

LEMMA DelInv ==
  ASSUME FsInv, NEW c \in Clients, DelRemoves(c) PROVE FsInv'
<1> DEFINE ns == Dir(c)
           x  == call[c].path
           new == [op |-> call[c].op, key |-> call[c].key, reply |-> "ok"]
<1>1. /\ written' = written /\ now' = now /\ gc' = gc /\ dirs' = dirs
      /\ call[c].step = "remove"
      /\ file' = [file EXCEPT ![ns][x] = Absent]
      /\ call' = [Unlinked(ns, x) EXCEPT ![c] = Idle]
      /\ result' = [result EXCEPT ![c] = new]
  BY DEF DelRemoves, history, Return
<1>2. ns \in Namespaces /\ x \in Files
  BY <1>1, ActiveCall
<1>3. new.reply = "ok" /\ "ok" \notin Values
  BY StoreAssumption
<1> HIDE DEF ns, x, new
<1>4. /\ DOMAIN call' = Clients /\ call' = [d \in Clients |-> call'[d]]
      /\ call'[c] = Idle
      /\ \A d \in Clients \ {c} : call'[d] = Unlinked(ns, x)[d]
  BY <1>1 DEF Unlinked
<1>5. /\ DOMAIN result' = Clients /\ result' = [d \in Clients |-> result'[d]]
      /\ result'[c] = new /\ \A d \in Clients \ {c} : result'[d] = result[d]
  BY <1>1 DEF FsInv
<1>6. FilesOK' /\ \A d \in Clients \ {c} : CallOK(d)' /\ LinkedOK(d)'
  BY <1>1, <1>2, <1>4, RemovedFile
<1>7. CallOK(c)' /\ LinkedOK(c)'
  BY <1>4 DEF CallOK, LinkedOK, Idle
<1>8. \A d \in Clients : ResultOK(d)'
  <2>1. ResultOK(c)'
    BY <1>3, <1>5 DEF ResultOK
  <2> QED
    BY <1>1, <1>5, <2>1, OtherResult
<1>9. GcOK'
  BY <1>1 DEF FsInv, GcOK
<1> QED
  BY <1>1, <1>4, <1>5, <1>6, <1>7, <1>8, <1>9 DEF FsInv

-----------------------------------------------------------------------------
(* The collector, the clock and crashes                                    *)

LEMMA NoClientStep ==
  ASSUME FsInv, UNCHANGED <<file, call, result, written>>,
         dirs' \subseteq Namespaces, FilesOK', GcOK', now' \in 0 .. MaxTime
  PROVE  FsInv'
<1>1. \A d \in Clients : CallOK(d)' /\ ResultOK(d)'
  BY OtherCall, OtherResult
<1>2. \A d \in Clients : LinkedOK(d)'
  BY DEF FsInv, LinkedOK, File, Dir
<1> QED
  BY <1>1, <1>2 DEF FsInv

LEMMA GcType ==
  ASSUME FsInv, GcStep PROVE GcOK'
<1> USE DEF FsInv, GcOK
<1>1. NoCollect \in [step : {"waiting", "read_root", "next", "read_dir", "remove",
                             "panicked"},
                     now : Nat, todo : SUBSET Namespaces,
                     ns : Namespaces \cup {"none"}, timestamp : Values \cup Nat,
                     files : SUBSET Files]
      /\ NoCollect.step = "waiting"
  BY DEF NoCollect
<1>2. CASE collect
  BY <1>2, NowType DEF collect
<1>3. CASE GcReadRoot
  BY <1>3 DEF GcReadRoot
<1>4. CASE GcReadMarker
  <2> DEFINE Picked(ns) ==
        [gc EXCEPT !.step = "read_dir", !.ns = ns,
                   !.timestamp = file[ns][Marker].value]
  <2>1. PICK ns \in gc.todo :
          \/ gc' = NoCollect
          \/ gc' = [NoCollect EXCEPT !.step = "panicked"]
          \/ file[ns][Marker].is = "data" /\ gc' = Picked(ns)
          \/ gc' = [gc EXCEPT !.todo = @ \ {ns}]
    BY <1>4 DEF GcReadMarker
  <2>2. gc.step = "next"
    BY <1>4 DEF GcReadMarker
  <2>6. file[ns][Marker].is = "data" => file[ns][Marker].value \in Values \cup Nat
    <3>1. file[ns][Marker] \in Contents
      BY <2>1 DEF FilesOK, Files
    <3> QED
      BY <3>1, ContentKinds DEF Datas
  <2>3. CASE gc' = NoCollect \/ gc' = [NoCollect EXCEPT !.step = "panicked"]
    BY <1>1, <2>3
  <2>4. CASE file[ns][Marker].is = "data" /\ gc' = Picked(ns)
    BY <2>1, <2>4, <2>6
  <2>5. CASE gc' = [gc EXCEPT !.todo = @ \ {ns}]
    BY <2>2, <2>5
  <2> QED
    BY <2>1, <2>3, <2>4, <2>5
<1>5. CASE GcReadDir
  BY <1>5 DEF GcReadDir, Files
<1>6. CASE \E x \in Files : GcRemove(x)
  BY <1>6 DEF GcRemove
<1>7. CASE GcRemoveFails \/ GcDone
  BY <1>1, <1>7 DEF GcRemoveFails, GcDone
<1>8. CASE GcRemoveDir
  <2>1. \/ gc' = [gc EXCEPT !.step = "next", !.todo = @ \ {gc.ns}]
        \/ gc' = NoCollect
    BY <1>8 DEF GcRemoveDir
  <2>2. CASE gc' = [gc EXCEPT !.step = "next", !.todo = @ \ {gc.ns}]
    <3>1. gc.todo \ {gc.ns} \in SUBSET Namespaces
      OBVIOUS
    <3>2. gc'.step = "next"
      BY <2>2
    <3> QED
      BY <2>2, <3>1, <3>2
  <2>3. CASE gc' = NoCollect
    BY <1>1, <2>3
  <2> QED
    BY <2>1, <2>2, <2>3
<1> QED
  BY <1>2, <1>3, <1>4, <1>5, <1>6, <1>7, <1>8 DEF GcStep, Files

LEMMA GcInv ==
  ASSUME FsInv, GcStep PROVE FsInv'
<1>1. GcOK' /\ now' = now /\ UNCHANGED <<result, written>>
  BY GcType
     DEF GcStep, collect, GcReadRoot, GcReadMarker, GcReadDir, GcRemove,
         GcRemoveFails, GcRemoveDir, GcDone, history
<1>2. CASE \E x \in Files : GcRemove(x)
  <2>1. PICK x \in Files : GcRemove(x)
    BY <1>2
  <2>2. /\ file' = [file EXCEPT ![gc.ns][x] = Absent] /\ dirs' = dirs
        /\ call' = Unlinked(gc.ns, x) /\ gc.ns \in Namespaces
    BY <2>1 DEF GcRemove, FsInv, GcOK
  <2>3. FilesOK' /\ \A d \in Clients : CallOK(d)' /\ LinkedOK(d)'
    BY <1>1, <2>2, RemovedFile
  <2>4. \A d \in Clients : ResultOK(d)'
    BY <1>1, OtherResult
  <2>5. DOMAIN call' = Clients /\ call' = [d \in Clients |-> call'[d]]
    BY <2>2 DEF Unlinked
  <2> QED
    BY <1>1, <2>2, <2>3, <2>4, <2>5 DEF FsInv
<1>3. CASE GcRemoveDir
  <2>1. UNCHANGED <<file, call>> /\ dirs' \subseteq Namespaces
    BY <1>3 DEF GcRemoveDir, FsInv
  <2>2. \A ns \in Namespaces, x \in Files :
          file[ns][x] # Absent => ns \in dirs'
    BY <1>3 DEF GcRemoveDir, FsInv, FilesOK, Files
  <2>3. FilesOK'
    BY <1>1, <2>1, <2>2 DEF FsInv, FilesOK, WrittenTo
  <2> QED
    BY <1>1, <2>1, <2>3, NoClientStep DEF FsInv
<1>4. CASE \/ collect \/ GcReadRoot \/ GcReadMarker \/ GcReadDir
           \/ GcRemoveFails \/ GcDone
  <2>1. UNCHANGED <<file, call, dirs>>
    BY <1>4 DEF collect, GcReadRoot, GcReadMarker, GcReadDir, GcRemoveFails, GcDone
  <2>2. FilesOK'
    BY <1>1, <2>1, FilesStay
  <2> QED
    BY <1>1, <2>1, <2>2, NoClientStep DEF FsInv
<1> QED
  BY <1>2, <1>3, <1>4 DEF GcStep, Files

LEMMA CrashInv ==
  ASSUME FsInv, Crash PROVE FsInv'
<1>1. /\ UNCHANGED <<now, dirs, file, result, written>>
      /\ call' = [c \in Clients |-> Idle] /\ gc' = NoCollect
  BY DEF Crash
<1>2. \A c \in Clients : CallOK(c)' /\ LinkedOK(c)'
  BY <1>1 DEF CallOK, LinkedOK, Idle
<1>3. \A c \in Clients : ResultOK(c)'
  BY <1>1, OtherResult
<1>4. FilesOK' /\ GcOK'
  BY <1>1, FilesStay DEF GcOK, NoCollect
<1> QED
  BY <1>1, <1>2, <1>3, <1>4 DEF FsInv

LEMMA NextInv == FsInv /\ [Next]_vars => FsInv'
<1> SUFFICES ASSUME FsInv, [Next]_vars PROVE FsInv'
  OBVIOUS
<1>1. CASE \E c \in Clients : Start(c)
  BY <1>1, StartInv
<1>2. ASSUME NEW c \in Clients, Step(c) PROVE FsInv'
  BY <1>2, PathInv, OpenInv, WriteInv, ReadInv, DelInv DEF Step
<1>3. CASE GcStep
  BY <1>3, GcInv
<1>4. CASE Tick \/ UNCHANGED vars
  <2>1. UNCHANGED <<dirs, file, call, result, gc, written>>
    BY <1>4 DEF Tick, vars, history
  <2>2. FilesOK' /\ GcOK'
    BY <2>1, FilesStay DEF FsInv, GcOK
  <2>3. now' \in 0 .. MaxTime
    BY <1>4, StoreAssumption DEF Tick, vars, FsInv
  <2> QED
    BY <2>1, <2>2, <2>3, NoClientStep DEF FsInv
<1>5. CASE Crash
  BY <1>5, CrashInv
<1> QED
  BY <1>1, <1>2, <1>3, <1>4, <1>5 DEF Next

-----------------------------------------------------------------------------
(* Theorems                                                                *)

\* The state of the store stays consistent: whatever is open and not removed
\* is there, what is there is in a directory, and every value in a file or on
\* its way to one was given to set() for that file (fs.rs, gc.rs).
THEOREM Invariance == Spec => []FsInv
  BY InitInv, NextInv, PTL DEF Spec

\* Types, and that the collector leaves no file without its directory (fs.rs,
\* collect).
THEOREM TypeCorrect == Spec => []TypeOK
<1>1. FsInv => TypeOK
  <2> SUFFICES ASSUME FsInv PROVE TypeOK
    OBVIOUS
  <2>1. ASSUME NEW ns \in Namespaces, NEW x \in Stems \cup {Marker}
        PROVE  /\ file[ns][x].is \in {"absent", "empty", "corrupt", "data"}
               /\ file[ns][x] # Absent => ns \in dirs
    <3>1. file[ns][x] \in Contents
      BY DEF FsInv, FilesOK, Files
    <3> QED
      BY <3>1 DEF FsInv, FilesOK, Files, Contents, Datas, Absent, Empty, Corrupt
  <2>2. \A c \in Clients : call[c].op \in Ops[c] \cup {"idle"}
    <3> SUFFICES ASSUME NEW c \in Clients
                 PROVE  call[c].op \in Ops[c] \cup {"idle"}
      OBVIOUS
    <3>1. CallOK(c)
      BY DEF FsInv
    <3> QED
      BY <3>1 DEF CallOK, Idle
  <2>3. \A c \in Clients : result[c].reply \in Values \cup {"none", "ok", "error"}
    BY DEF FsInv, ResultOK
  <2>4. gc.todo \subseteq Namespaces /\ gc.files \subseteq Stems \cup {Marker}
    BY DEF FsInv, GcOK, Files
  <2> QED
    BY <2>1, <2>2, <2>3, <2>4 DEF FsInv, TypeOK
<1> QED
  BY <1>1, Invariance, PTL

\* get() never returns a value that was not given to set() for a key with the
\* same file, whatever operations of whatever clients, the collector and
\* crashes come in between (fs.rs, get, set, expire).
THEOREM ReadsAreWritten == Spec => []OnlyWritten
<1>1. FsInv => OnlyWritten
  BY DEF FsInv, ResultOK, OnlyWritten
<1> QED
  BY <1>1, Invariance, PTL

-----------------------------------------------------------------------------
(* The age of sessions, for one client at a time                           *)

OneAtATime == \A c, d \in Clients : c = d

LaterMarker == FALSE \in Checks /\ gc.timestamp > gc.now

MayRemove(ns) == gc.now - born[ns] >= Lifetime \/ LaterMarker

\* The time in a marker is no earlier than that of its directory: the client
\* makes the directory only when it is not there, and takes the time after
\* that. What the collector works on is old enough, or its marker is later
\* than the collector's clock, and it is not removed by anyone else.
MarkerAge(ns) ==
  file[ns][Marker].is = "data" =>
    file[ns][Marker].value \in Nat /\ file[ns][Marker].value >= born[ns]

AgeInv ==
  /\ born \in [Namespaces -> Nat]
  /\ \A c \in Clients :
       /\ call[c].step = "create_dir" => Dir(c) \notin dirs
       /\ call[c].step \in {"open", "write"} /\ call[c].path = Marker =>
            call[c].stamp >= born[Dir(c)]
  /\ \A ns \in Namespaces :
       /\ born[ns] <= now
       /\ MarkerAge(ns)
  /\ gc.now <= now
  /\ gc.step # "waiting" => Lifetime \in Nat
  /\ gc.step \in {"read_dir", "remove"} => gc.ns \in dirs /\ MayRemove(gc.ns)

LEMMA InitAge == Init => AgeInv
BY DEF Init, AgeInv, MarkerAge, Idle, Absent, NoCollect

\* The file a client under way works on.
LEMMA ActivePath ==
  ASSUME FsInv, NEW c \in Clients, call[c].step # "idle"
  PROVE  /\ call[c].step \in {"metadata", "create_dir", "marker_time",
                              "metadata_again"} => call[c].path = Marker
         /\ call[c].step \in {"read", "remove"} => call[c].path # Marker
         /\ call[c].key[2].stem \in Stems
<1>1. CallOK(c) /\ call[c] # Idle /\ call[c].key \in Keys
  BY ActiveCall DEF FsInv
<1>2. call[c].key[2].stem \in Stems
  BY <1>1, KeyType
<1> QED
  BY <1>1, <1>2, MarkerIsNoStem DEF CallOK

\* A step of the client that makes no directory.
LEMMA ClientAge ==
  ASSUME FsInv, AgeInv, OneAtATime, NEW c \in Clients,
         UNCHANGED <<born, dirs, gc, now>>,
         \/ call'[c].step \notin {"create_dir", "open", "write"}
         \/ /\ Dir(c)' = Dir(c)
            /\ call'[c].step = "create_dir" => Dir(c) \notin dirs
            /\ call'[c].step \in {"open", "write"} /\ call'[c].path = Marker =>
                 call'[c].stamp >= born[Dir(c)],
         \A ns \in Namespaces : MarkerAge(ns)'
  PROVE  AgeInv'
BY DEF AgeInv, OneAtATime, MayRemove, LaterMarker, Dir

LEMMA StepAge ==
  ASSUME FsInv, AgeInv, OneAtATime, NEW c \in Clients, Start(c) \/ Step(c)
  PROVE  AgeInv'
<1>1. /\ \A ns \in Namespaces : MarkerAge(ns)
      /\ \A ns \in Namespaces :
           born' = born /\ file'[ns][Marker] = file[ns][Marker] => MarkerAge(ns)'
  BY DEF AgeInv, MarkerAge
<1>2. /\ call = [d \in Clients |-> call[d]]
      /\ call[c] \in Calls \/ call[c] = Idle
      /\ call[c].step # "idle" =>
           Dir(c) \in Namespaces /\ call[c].path \in Files /\ call[c] \in Calls
      /\ now \in Nat
  BY ActiveCall, NowType DEF FsInv, CallOK
<1>3. ASSUME WithPath(c), UNCHANGED <<born, dirs, gc, now, file, written>>,
             call[c].step \in {"metadata", "metadata_again"}
      PROVE  AgeInv'
  <2>1. call'[c].key = call[c].key /\ call'[c].path = call[c].key[2].stem
    <3>1. call[c] \in Calls
      BY <1>2, <1>3
    <3> QED
      BY <1>2, <1>3, <3>1 DEF WithPath, file_name, Calls
  <2>2. call'[c].path # Marker
    BY <1>2, <1>3, <2>1, MarkerIsNoStem, KeyType DEF Calls
  <2>3. CASE call'[c].step \in {"create_dir", "open", "write"}
    <3>1. call'[c].step # "create_dir"
      BY <1>3, WithPathEffect
    <3> QED
      BY <1>1, <1>3, <2>1, <2>2, <3>1, ClientAge DEF Dir
  <2> QED
    BY <1>1, <1>3, <2>3, ClientAge
<1>5. CASE Start(c)
  <2>1. call'[c].step = "metadata" /\ UNCHANGED <<born, dirs, gc, now, file>>
    BY <1>2, <1>5 DEF Start, Begin
  <2> QED
    BY <1>1, <2>1, ClientAge
<1>4. CASE Metadata(c)
  <2>1. UNCHANGED <<born, dirs, gc, now, file, written>>
    BY <1>4 DEF Metadata, history
  <2>2. CASE WithPath(c)
    BY <1>3, <1>4, <2>1, <2>2 DEF Metadata
  <2>3. CASE Dir(c) \notin dirs /\ call' = [call EXCEPT ![c].step = "create_dir"]
    <3>1. call'[c].step = "create_dir" /\ call'[c].key = call[c].key
      BY <1>2, <1>4, <2>3 DEF Metadata, Calls
    <3> QED
      BY <1>1, <2>1, <2>3, <3>1, ClientAge DEF Dir
  <2> QED
    BY <1>4, <2>2, <2>3 DEF Metadata
<1>6. CASE CreateDir(c)
  <2>1. /\ call[c].step = "create_dir" /\ call[c].path = Marker
        /\ Dir(c) \notin dirs /\ Dir(c) \in Namespaces
    BY <1>2, <1>6, ActivePath DEF CreateDir, AgeInv
  <2>2. /\ dirs' = dirs \cup {Dir(c)}
        /\ born' = [born EXCEPT ![Dir(c)] = now]
        /\ call' = [call EXCEPT ![c].step = "marker_time"]
        /\ UNCHANGED <<now, file, gc>>
    BY <1>6, <2>1 DEF CreateDir
  <2>3. call'[c].step = "marker_time"
    BY <1>2, <2>1, <2>2 DEF Calls
  <2>4. file[Dir(c)][Marker] = Absent
    BY <2>1 DEF FsInv, FilesOK, Files
  <2>5. /\ born' \in [Namespaces -> Nat] /\ born'[Dir(c)] = now
        /\ \A ns \in Namespaces \ {Dir(c)} : born'[ns] = born[ns]
    BY <1>2, <2>1, <2>2 DEF AgeInv
  <2>6. \A ns \in Namespaces : born'[ns] <= now' /\ MarkerAge(ns)'
    BY <1>1, <1>2, <2>2, <2>4, <2>5, ContentKinds DEF AgeInv, MarkerAge
  <2>7. \A d \in Clients : d = c
    BY DEF OneAtATime
  <2>8. gc.step \in {"read_dir", "remove"} =>
          gc.ns \in dirs' /\ gc.ns # Dir(c) /\ MayRemove(gc.ns) /\ gc.ns \in Namespaces
    BY <2>1, <2>2 DEF AgeInv, FsInv, GcOK
  <2>9. gc'.step \in {"read_dir", "remove"} => gc'.ns \in dirs' /\ MayRemove(gc.ns)'
    BY <2>2, <2>5, <2>8 DEF MayRemove, LaterMarker
  <2> QED
    BY <2>2, <2>3, <2>5, <2>6, <2>7, <2>9 DEF AgeInv, Dir
<1>12. CASE MarkerTime(c)
  <2>1. /\ call[c].step = "marker_time"
        /\ call' = [call EXCEPT ![c].step = "open", ![c].stamp = now]
        /\ UNCHANGED <<born, dirs, gc, now, file>>
    BY <1>12 DEF MarkerTime, history
  <2>2. /\ call'[c].step = "open" /\ call'[c].stamp = now
        /\ call'[c].key = call[c].key /\ Dir(c) \in Namespaces
    BY <1>2, <2>1 DEF Calls
  <2>3. now >= born[Dir(c)]
    BY <1>2, <2>2 DEF AgeInv
  <2> QED
    BY <1>1, <2>1, <2>2, <2>3, ClientAge DEF Dir
<1>7. CASE Open(c)
  <2>1. /\ UNCHANGED <<born, dirs, gc, now>>
        /\ call[c].step = "open" /\ Dir(c) \in Namespaces /\ call[c].path \in Files
        /\ call[c] \in Calls
    BY <1>2, <1>7 DEF Open, history
  <2>2. CASE /\ file' = [file EXCEPT ![Dir(c)][call[c].path] = Empty]
             /\ call' = [call EXCEPT ![c].step = "write", ![c].linked = TRUE,
                                    ![c].old = File(c)]
    <3>1. \A ns \in Namespaces :
            file'[ns][Marker] = Empty \/ file'[ns][Marker] = file[ns][Marker]
      BY <2>1, <2>2 DEF FsInv, FilesOK, Files
    <3>2. \A ns \in Namespaces : MarkerAge(ns)'
      BY <1>1, <2>1, <3>1, ContentKinds DEF MarkerAge
    <3>3. /\ call'[c].step = "write" /\ call'[c].stamp = call[c].stamp
          /\ call'[c].key = call[c].key /\ call'[c].path = call[c].path
      BY <1>2, <2>1, <2>2 DEF Calls
    <3>4. call[c].path = Marker => call[c].stamp >= born[Dir(c)]
      BY <2>1 DEF AgeInv
    <3> QED
      BY <2>1, <3>2, <3>3, <3>4, ClientAge DEF Dir
  <2>3. CASE Finish(c, "error") /\ UNCHANGED file
    <3>1. call'[c].step = "idle"
      BY <1>2, <2>3 DEF Finish, Idle
    <3> QED
      BY <1>1, <2>1, <2>3, <3>1, ClientAge
  <2> QED
    BY <1>7, <2>2, <2>3 DEF Open
<1>8. CASE WriteMarker(c)
  <2>1. /\ UNCHANGED <<born, dirs, gc, now>>
        /\ call[c].step = "write" /\ call[c].path = Marker
        /\ Dir(c) \in Namespaces /\ call[c] \in Calls
    BY <1>2, <1>8 DEF WriteMarker, history
  <2>2. call'[c].step = "metadata_again"
    BY <1>2, <1>8, <2>1 DEF WriteMarker, Calls
  <2>3. call[c].stamp >= born[Dir(c)] /\ call[c].stamp \in Nat
    BY <2>1 DEF AgeInv, Calls
  <2>4. Data(call[c].stamp, Never).value = call[c].stamp
    BY DEF Data
  <2>5. file' = file \/ file' = [file EXCEPT ![Dir(c)][Marker] = Data(call[c].stamp, Never)]
    BY <1>8 DEF WriteMarker
  <2>6. \A ns \in Namespaces : MarkerAge(ns)'
    BY <1>1, <2>1, <2>3, <2>4, <2>5 DEF FsInv, FilesOK, Files, MarkerAge
  <2> QED
    BY <2>1, <2>2, <2>6, ClientAge
<1>9. CASE WriteValue(c) \/ GetReads(c) \/ DelRemoves(c)
  <2>1. /\ UNCHANGED <<born, dirs, gc, now>>
        /\ call[c].step \in {"write", "read", "remove"}
        /\ call'[c].step = "idle"
    BY <1>2, <1>9
       DEF WriteValue, GetReads, DelRemoves, Finish, Unlinked, Idle, history
  <2>2. Dir(c) \in Namespaces /\ call[c].path \in Files /\ call[c].path # Marker
    BY <1>2, <1>9, <2>1, ActivePath DEF WriteValue, GetReads, DelRemoves
  <2>3. \A ns \in Namespaces : file'[ns][Marker] = file[ns][Marker]
    <3>1. \/ file' = file
          \/ \E content : file' = [file EXCEPT ![Dir(c)][call[c].path] = content]
      BY <1>9 DEF WriteValue, GetReads, DelRemoves
    <3> QED
      BY <2>2, <3>1 DEF FsInv, FilesOK, Files
  <2> QED
    BY <1>1, <2>1, <2>3, ClientAge
<1>10. CASE MetadataAgain(c)
  <2>1. /\ UNCHANGED <<born, dirs, gc, now, file, written>>
        /\ call[c].step = "metadata_again"
    BY <1>10 DEF MetadataAgain, history
  <2>2. CASE WithPath(c)
    BY <1>3, <2>1, <2>2
  <2>3. CASE Finish(c, "error")
    <3>1. call'[c].step = "idle"
      BY <1>2, <2>3 DEF Finish, Idle
    <3> QED
      BY <1>1, <2>1, <3>1, ClientAge
  <2> QED
    BY <1>10, <2>2, <2>3 DEF MetadataAgain
<1>11. CASE ExpireReads(c)
  <2>1. /\ UNCHANGED <<born, dirs, gc, now, file>>
        /\ call[c].step = "read" /\ call[c] \in Calls /\ call[c].key \in Keys
    BY <1>2, <1>11, ActiveCall DEF ExpireReads, history
  <2>2. CASE Finish(c, "error")
    <3>1. call'[c].step = "idle"
      BY <1>2, <2>2 DEF Finish, Idle
    <3> QED
      BY <1>1, <2>1, <3>1, ClientAge
  <2>3. CASE call' = [call EXCEPT ![c].step = "open",
                        ![c].data = set_lifetime(File(c), call[c].seconds)]
    <3>1. /\ call'[c].step = "open" /\ call'[c].key = call[c].key
          /\ call'[c].path = call[c].path
      BY <1>2, <2>1, <2>3 DEF Calls
    <3>2. call[c].path # Marker
      BY <2>1, ActivePath
    <3> QED
      BY <1>1, <2>1, <3>1, <3>2, ClientAge DEF Dir
  <2> QED
    BY <1>11, <2>2, <2>3 DEF ExpireReads
<1> QED
  BY <1>4, <1>5, <1>6, <1>7, <1>8, <1>9, <1>10, <1>11, <1>12 DEF Step

LEMMA GcAge ==
  ASSUME FsInv, AgeInv, GcStep PROVE AgeInv'
<1>1. UNCHANGED <<born, now>>
  BY DEF GcStep, collect, GcReadRoot, GcReadMarker, GcReadDir, GcRemove,
         GcRemoveFails, GcRemoveDir, GcDone, history
<1>2. born \in [Namespaces -> Nat] /\ now \in Nat /\ gc.now \in Nat /\ gc.now <= now
  BY NowType DEF FsInv, GcOK, AgeInv
<1>3. /\ gc \in [step : {"waiting", "read_root", "next", "read_dir", "remove",
                        "panicked"},
                now : Nat, todo : SUBSET Namespaces,
                ns : Namespaces \cup {"none"}, timestamp : Values \cup Nat,
                files : SUBSET Files]
      /\ gc.step \in {"read_dir", "remove"} => gc.ns \in Namespaces
  BY DEF FsInv, GcOK
<1>4. ASSUME NEW ns \in Namespaces, NEW checks \in Checks,
             is_old(file[ns][Marker].value), gc.step = "next",
             file[ns][Marker].is = "data",
             ~(checks /\ file[ns][Marker].value > gc.now)
      PROVE  /\ ns \in dirs
             /\ \/ gc.now - born[ns] >= Lifetime
                \/ FALSE \in Checks /\ file[ns][Marker].value > gc.now
  <2> DEFINE stamp == file[ns][Marker].value
  <2>1. stamp \in Nat /\ stamp >= born[ns] /\ Lifetime \in Nat
    BY <1>4 DEF AgeInv, MarkerAge
  <2>2. ns \in dirs
    BY <1>4, ContentKinds DEF FsInv, FilesOK, Files
  <2>3. (gc.now - stamp) % 65536 >= Lifetime
    BY <1>4 DEF is_old, U64
  <2>4. stamp > gc.now => FALSE \in Checks
    BY <1>4, StoreAssumption
  <2> HIDE DEF stamp
  <2>5. stamp <= gc.now => gc.now - stamp >= Lifetime
    BY <1>2, <2>1, <2>3
  <2>6. stamp <= gc.now => gc.now - born[ns] >= Lifetime
    BY <1>2, <2>1, <2>5
  <2>7. stamp <= gc.now \/ stamp > gc.now
    BY <1>2, <2>1
  <2> QED
    BY <2>2, <2>4, <2>6, <2>7 DEF stamp
<1> DEFINE Clean ==
      /\ gc'.now <= now
      /\ gc'.step # "waiting" => Lifetime \in Nat
      /\ gc'.step \in {"read_dir", "remove"} => gc'.ns \in dirs' /\ MayRemove(gc.ns)'
<1>5. ASSUME Clean,
             UNCHANGED call \/ \E ns, x : call' = Unlinked(ns, x),
             dirs' \subseteq dirs,
             \A ns \in Namespaces :
               file'[ns][Marker] = file[ns][Marker] \/ file'[ns][Marker] = Absent
      PROVE  AgeInv'
  <2>1. \A ns \in Namespaces : MarkerAge(ns)'
    BY <1>1, <1>5, ContentKinds DEF AgeInv, MarkerAge
  <2>2. ASSUME NEW c \in Clients
        PROVE  call'[c] = call[c] \/ call'[c] = [call[c] EXCEPT !.linked = FALSE]
    BY <1>5 DEF Unlinked
  <2>3. ASSUME NEW c \in Clients
        PROVE  /\ call'[c].step = "create_dir" => Dir(c)' \notin dirs
               /\ call'[c].step \in {"open", "write"} /\ call'[c].path = Marker =>
                    call'[c].stamp >= born[Dir(c)']
    <3>1. /\ call[c].step = "create_dir" => Dir(c) \notin dirs
          /\ call[c].step \in {"open", "write"} /\ call[c].path = Marker =>
               call[c].stamp >= born[Dir(c)]
      BY DEF AgeInv
    <3>2. call[c] = Idle \/ call[c] \in Calls
      BY DEF FsInv, CallOK
    <3>3. CASE call[c] = Idle
      <4>1. call'[c] = Idle
        BY <1>5, <3>3 DEF Unlinked, Idle
      <4> QED
        BY <4>1 DEF Idle
    <3>4. CASE call[c] \in Calls
      <4>1. /\ call'[c].step = call[c].step /\ call'[c].key = call[c].key
            /\ call'[c].path = call[c].path /\ call'[c].stamp = call[c].stamp
        BY <2>2, <3>4 DEF Calls
      <4> QED
        BY <3>1, <4>1 DEF Dir
    <3> QED
      BY <3>2, <3>3, <3>4
  <2> QED
    BY <1>1, <1>2, <1>5, <2>1, <2>3 DEF AgeInv
<1>6. CASE collect
  <2>1. Clean
    BY <1>2, <1>3, <1>6, StoreAssumption DEF collect
  <2> QED
    BY <1>5, <1>6, <2>1 DEF collect
<1>7. CASE GcReadRoot \/ GcReadDir \/ GcRemoveFails \/ GcDone
  <2>1. UNCHANGED <<call, dirs, file>>
    BY <1>7 DEF GcReadRoot, GcReadDir, GcRemoveFails, GcDone
  <2>2. \/ gc' = NoCollect
        \/ gc.step = "read_root" /\ gc' = [gc EXCEPT !.step = "next", !.todo = dirs]
        \/ /\ gc.step = "read_dir"
           /\ gc'.step = "remove" /\ gc'.now = gc.now /\ gc'.ns = gc.ns
           /\ gc'.timestamp = gc.timestamp
    BY <1>3, <1>7 DEF GcReadRoot, GcReadDir, GcRemoveFails, GcDone
  <2>3. CASE gc' = NoCollect
    BY <1>2, <1>5, <2>1, <2>3 DEF NoCollect
  <2>4. CASE gc.step = "read_root" /\ gc' = [gc EXCEPT !.step = "next", !.todo = dirs]
    <3>1. gc'.step = "next" /\ gc'.now = gc.now /\ Lifetime \in Nat
      BY <1>3, <2>4 DEF AgeInv
    <3> QED
      BY <1>2, <1>5, <2>1, <3>1
  <2>5. CASE /\ gc.step = "read_dir"
             /\ gc'.step = "remove" /\ gc'.now = gc.now /\ gc'.ns = gc.ns
             /\ gc'.timestamp = gc.timestamp
    <3>1. Clean
      BY <1>1, <1>2, <2>1, <2>5 DEF AgeInv, MayRemove, LaterMarker
    <3> QED
      BY <1>5, <2>1, <3>1
  <2> QED
    BY <2>2, <2>3, <2>4, <2>5
<1>8. CASE GcReadMarker
  <2> DEFINE Picked(ns, checks) ==
        /\ file[ns][Marker].is = "data" /\ is_old(file[ns][Marker].value)
        /\ ~(checks /\ file[ns][Marker].value > gc.now)
        /\ gc' = [gc EXCEPT !.step = "read_dir", !.ns = ns,
                            !.timestamp = file[ns][Marker].value]
  <2>1. PICK ns \in gc.todo, checks \in Checks :
          \/ gc' = NoCollect
          \/ gc' = [NoCollect EXCEPT !.step = "panicked"]
          \/ Picked(ns, checks)
          \/ gc' = [gc EXCEPT !.todo = gc.todo \ {ns}]
    BY <1>8 DEF GcReadMarker
  <2>2. gc.step = "next" /\ UNCHANGED <<dirs, file, call>> /\ Lifetime \in Nat
    BY <1>8 DEF GcReadMarker, AgeInv
  <2>3. ns \in Namespaces
    BY <1>3, <2>1
  <2>4. CASE gc' = NoCollect \/ gc' = [NoCollect EXCEPT !.step = "panicked"]
    BY <1>2, <1>5, <2>2, <2>4 DEF NoCollect
  <2>5. CASE Picked(ns, checks)
    <3>1. /\ gc'.now = gc.now /\ gc'.ns = ns /\ gc'.step = "read_dir"
          /\ gc'.timestamp = file[ns][Marker].value
      BY <1>3, <2>5
    <3>2. /\ ns \in dirs
          /\ \/ gc.now - born[ns] >= Lifetime
             \/ FALSE \in Checks /\ file[ns][Marker].value > gc.now
      BY <1>4, <2>2, <2>3, <2>5
    <3>3. Clean
      BY <1>1, <1>2, <2>2, <3>1, <3>2 DEF MayRemove, LaterMarker
    <3> QED
      BY <1>5, <2>2, <3>3
  <2>6. CASE gc' = [gc EXCEPT !.todo = gc.todo \ {ns}]
    BY <1>2, <1>3, <1>5, <2>2, <2>6
  <2> QED
    BY <2>1, <2>4, <2>5, <2>6
<1>9. CASE \E x \in Files : GcRemove(x)
  <2>1. PICK x \in Files : GcRemove(x)
    BY <1>9
  <2>2. /\ gc'.now = gc.now /\ gc'.step = "remove" /\ gc'.ns = gc.ns
        /\ gc'.timestamp = gc.timestamp
        /\ gc.step = "remove" /\ dirs' = dirs /\ call' = Unlinked(gc.ns, x)
        /\ file' = [file EXCEPT ![gc.ns][x] = Absent]
    BY <1>3, <2>1 DEF GcRemove
  <2>3. Clean
    BY <1>1, <1>2, <2>2 DEF AgeInv, MayRemove, LaterMarker
  <2>4. \A ns \in Namespaces :
          file'[ns][Marker] = file[ns][Marker] \/ file'[ns][Marker] = Absent
    BY <1>3, <2>2 DEF FsInv, FilesOK, Files
  <2> QED
    BY <1>5, <2>2, <2>3, <2>4
<1>10. CASE GcRemoveDir
  <2>1. /\ \/ gc' = [gc EXCEPT !.step = "next", !.todo = @ \ {gc.ns}]
           \/ gc' = NoCollect
        /\ dirs' \subseteq dirs /\ UNCHANGED <<file, call>> /\ gc.step = "remove"
    BY <1>10 DEF GcRemoveDir
  <2>2. gc'.now \in {0, gc.now} /\ gc'.step \in {"next", "waiting"}
    <3>1. CASE gc' = [gc EXCEPT !.step = "next", !.todo = @ \ {gc.ns}]
      BY <1>3, <3>1
    <3>2. CASE gc' = NoCollect
      BY <3>2 DEF NoCollect
    <3> QED
      BY <2>1, <3>1, <3>2
  <2>3. gc'.now <= now
    BY <1>2, <2>2
  <2> QED
    BY <1>5, <2>1, <2>2, <2>3 DEF AgeInv
<1> QED
  BY <1>6, <1>7, <1>8, <1>9, <1>10 DEF GcStep, Files

\* The collector removes no session before its lifetime is over, but one whose
\* marker is later than the collector's clock in a build that wraps around, as
\* long as clients use the store one at a time; crashes do not matter (fs.rs,
\* collect).
THEOREM YoungSessionsStay == ASSUME OneAtATime PROVE Spec => YoungKept
<1>1. FsInv /\ AgeInv /\ [Next]_vars => AgeInv'
  <2> SUFFICES ASSUME FsInv, AgeInv, [Next]_vars PROVE AgeInv'
    OBVIOUS
  <2>1. CASE \E c \in Clients : Start(c) \/ Step(c)
    BY <2>1, StepAge
  <2>2. CASE GcStep
    BY <2>2, GcAge
  <2>3. CASE Tick \/ UNCHANGED vars
    <3>1. UNCHANGED <<born, dirs, file, call, gc>> /\ now <= now'
      BY <2>3, NowType DEF Tick, vars, history
    <3>2. gc.now \in Nat /\ now \in Nat /\ now' \in Nat
      BY <2>3, NowType DEF FsInv, GcOK, Tick, vars
    <3> QED
      <4>1. /\ born \in [Namespaces -> Nat] /\ gc.now <= now
            /\ \A ns \in Namespaces : born[ns] <= now /\ MarkerAge(ns)
        BY DEF AgeInv
      <4>2. \A ns \in Namespaces : born'[ns] <= now' /\ MarkerAge(ns)'
        BY <3>1, <3>2, <4>1 DEF MarkerAge
      <4>3. gc'.now <= now'
        BY <3>1, <3>2, <4>1
      <4>4. MayRemove(gc.ns) => MayRemove(gc.ns)'
        BY <3>1 DEF MayRemove, LaterMarker
      <4> QED
        BY <3>1, <4>2, <4>3, <4>4 DEF AgeInv, Dir
  <2>4. CASE Crash
    <3>1. /\ UNCHANGED <<now, dirs, file, born>>
          /\ call' = [c \in Clients |-> Idle] /\ gc' = NoCollect
      BY <2>4 DEF Crash
    <3>2. \A ns \in Namespaces : born'[ns] <= now' /\ MarkerAge(ns)'
      BY <3>1 DEF AgeInv, MarkerAge
    <3>3. gc'.now <= now' /\ gc'.step = "waiting"
      BY <3>1, NowType DEF NoCollect
    <3> QED
      BY <3>1, <3>2, <3>3 DEF AgeInv, Idle
  <2> QED
    BY <2>1, <2>2, <2>3, <2>4 DEF Next
<1>2. FsInv /\ AgeInv =>
        \A x \in Stems \cup {Marker} :
          GcRemove(x) =>
            \/ now - born[gc.ns] >= Lifetime
            \/ FALSE \in Checks /\ gc.timestamp > gc.now
  <2> SUFFICES ASSUME FsInv, AgeInv, NEW x, GcRemove(x)
               PROVE  now - born[gc.ns] >= Lifetime \/ LaterMarker
    BY DEF LaterMarker
  <2>1. /\ gc.step = "remove" /\ gc.ns \in Namespaces /\ gc.now \in Nat
        /\ now \in Nat /\ gc.now <= now /\ born[gc.ns] \in Nat
        /\ Lifetime \in Nat /\ MayRemove(gc.ns)
    BY NowType DEF GcRemove, FsInv, GcOK, AgeInv
  <2> QED
    BY <2>1 DEF MayRemove
<1> QED
  BY <1>1, <1>2, InitAge, Invariance, PTL DEF Spec, YoungKept

-----------------------------------------------------------------------------
(* The store implements the map with timeouts, for one client at a time,   *)
(* until a session is removed or the process dies                          *)

\* What a call may rely on meanwhile: the directory stays, and the file that
\* it opened is its own and has nothing in it.
UseOK(c) ==
  /\ call[c].step \in {"marker_time", "open", "write", "metadata_again", "read",
                       "remove"} => Dir(c) \in dirs
  /\ call[c].step = "write" => call[c].linked /\ File(c) = Empty
  /\ call[c].step \in {"open", "write"} /\ call[c].path # Marker =>
       call[c].op \in {"set", "expire"}
  /\ call[c].op = "set" => call[c].data.expires_at = Never

WrittenBy(c, ns, x) ==
  call[c].step = "write" /\ Dir(c) = ns /\ call[c].path = x

\* A file of a key has a value in it, or somebody is about to write one.
WholeOK ==
  \A ns \in Namespaces, x \in Stems :
    \/ file[ns][x] = Absent
    \/ file[ns][x].is = "data"
    \/ \E c \in Clients : WrittenBy(c, ns, x)

\* The collector finds the marker in the directory that it is to remove, and
\* so removes a file before it removes the directory.
GuardedOK ==
  /\ gc.step = "read_dir" => file[gc.ns][Marker] # Absent
  /\ gc.step = "remove" => Marker \in gc.files

QuietInv ==
  quiet => (\A c \in Clients : UseOK(c)) /\ WholeOK /\ GuardedOK

LEMMA InitQuiet == Init => QuietInv
BY DEF Init, QuietInv, UseOK, WholeOK, GuardedOK, Idle, NoCollect, Files

\* A step of the only client.
LEMMA ClientQuiet ==
  ASSUME FsInv, QuietInv, OneAtATime, NEW c \in Clients, UNCHANGED <<gc, quiet>>,
         quiet => UseOK(c)' /\ WholeOK',
         \A ns \in Namespaces :
           file[ns][Marker] # Absent => file'[ns][Marker] # Absent
  PROVE  QuietInv'
<1>1. \A d \in Clients : d = c
  BY DEF OneAtATime
<1>2. gc.step \in {"read_dir", "remove"} => gc.ns \in Namespaces
  BY DEF FsInv, GcOK
<1> QED
  BY <1>1, <1>2 DEF QuietInv, GuardedOK

\* Nothing in the files of the keys changes, and nobody has one open.
LEMMA WholeStays ==
  ASSUME QuietInv, quiet, OneAtATime, NEW c \in Clients,
         \A ns \in Namespaces, x \in Stems : file'[ns][x] = file[ns][x],
         call[c].step # "write" \/ call[c].path \notin Stems
  PROVE  WholeOK'
<1>1. \A d \in Clients : d = c
  BY DEF OneAtATime
<1>2. \A ns \in Namespaces, x \in Stems : file[ns][x] = Absent \/ file[ns][x].is = "data"
  BY <1>1 DEF QuietInv, WholeOK, WrittenBy
<1> QED
  BY <1>2 DEF WholeOK

\* The marker is there, and the operation proper starts.
LEMMA WithPathQuiet ==
  ASSUME FsInv, QuietInv, OneAtATime, NEW c \in Clients, WithPath(c),
         UNCHANGED <<dirs, file, gc, quiet, written>>, Dir(c) \in dirs,
         call[c].step \in {"metadata", "metadata_again"}
  PROVE  QuietInv'
<1>1. call[c] \in Calls
  BY ActiveCall
<1>2. /\ call'[c].step \in {"open", "remove", "read"}
      /\ call'[c].key = call[c].key /\ call'[c].op = call[c].op
      /\ call'[c].data = call[c].data
      /\ call'[c].step = "open" => call[c].op = "set"
  BY <1>1 DEF WithPath, FsInv, Calls
<1>3. quiet => UseOK(c)'
  BY <1>2 DEF QuietInv, UseOK, Dir
<1>4. quiet => WholeOK'
  BY WholeStays
<1> QED
  BY <1>3, <1>4, ClientQuiet

\* The clients leave the collector alone and remove no session.
LEMMA OnlyClients ==
  ASSUME NEW c \in Clients, Start(c) \/ Step(c) PROVE UNCHANGED <<gc, quiet>>
<1>1. CASE Start(c)
  BY <1>1 DEF Start, Begin
<1>2. CASE Step(c)
  BY <1>2 DEF Step, Metadata, CreateDir, MarkerTime, Open, WriteMarker,
              WriteValue, MetadataAgain, GetReads, ExpireReads, DelRemoves, history
<1> QED
  BY <1>1, <1>2

LEMMA StepQuiet ==
  ASSUME FsInv, QuietInv, OneAtATime, NEW c \in Clients, Start(c) \/ Step(c)
  PROVE  QuietInv'
<1>1. UNCHANGED <<gc, quiet>>
  BY OnlyClients
<1>2. /\ call = [d \in Clients |-> call[d]] /\ DOMAIN call = Clients
      /\ file \in [Namespaces -> [Files -> Contents]]
      /\ \A d \in Clients : d = c
      /\ Marker \notin Stems
  BY MarkerIsNoStem DEF FsInv, FilesOK, OneAtATime
<1>3. call[c].step # "idle" =>
        call[c] \in Calls /\ Dir(c) \in Namespaces /\ call[c].path \in Files
  BY ActiveCall
<1>5. ASSUME call'[c].step = "idle" \/ call'[c].step = "create_dir",
             call'[c].op = "set" => call'[c].data.expires_at = Never,
             UNCHANGED file,
             call[c].step # "write"
      PROVE  QuietInv'
  <2>1. quiet => UseOK(c)'
    BY <1>5 DEF UseOK
  <2>2. quiet => WholeOK'
    BY <1>5, WholeStays
  <2> QED
    BY <1>1, <1>5, <2>1, <2>2, ClientQuiet
<1>6. CASE Start(c)
  <2>1. call[c] = Idle /\ UNCHANGED file
    BY <1>6 DEF Start, Begin
  <2>2. /\ call'[c].step = "metadata"
        /\ call'[c].data.expires_at = Never
    BY <1>2, <1>6 DEF Start, Begin, Data
  <2>3. quiet => UseOK(c)'
    BY <2>2 DEF UseOK
  <2>4. quiet => WholeOK'
    BY <2>1, WholeStays DEF Idle
  <2> QED
    BY <1>1, <2>1, <2>3, <2>4, ClientQuiet
<1>7. CASE Metadata(c)
  <2>1. call[c].step = "metadata" /\ UNCHANGED <<dirs, file, written>>
    BY <1>7 DEF Metadata, history
  <2>2. CASE Dir(c) \in dirs /\ WithPath(c)
    BY <1>1, <2>1, <2>2, WithPathQuiet
  <2>3. CASE call' = [call EXCEPT ![c].step = "create_dir"]
    <3>1. /\ call'[c].step = "create_dir" /\ call'[c].op = call[c].op
          /\ call'[c].data = call[c].data
      BY <1>2, <1>3, <2>1, <2>3 DEF Calls
    <3>2. quiet => UseOK(c)'
      BY <3>1 DEF UseOK, QuietInv
    <3>3. quiet => WholeOK'
      BY <2>1, WholeStays
    <3> QED
      BY <1>1, <2>1, <3>2, <3>3, ClientQuiet
  <2> QED
    BY <1>7, <2>2, <2>3 DEF Metadata
<1>8. CASE CreateDir(c)
  <2>1. /\ call[c].step = "create_dir" /\ UNCHANGED file
        /\ dirs' = dirs \cup {Dir(c)}
        /\ call' = [call EXCEPT ![c].step = "marker_time"]
    BY <1>8 DEF CreateDir
  <2>2. /\ call'[c].step = "marker_time" /\ call'[c].op = call[c].op
        /\ call'[c].data = call[c].data /\ call'[c].key = call[c].key
    BY <1>2, <1>3, <2>1 DEF Calls
  <2>3. quiet => UseOK(c)'
    BY <2>1, <2>2 DEF UseOK, QuietInv, Dir
  <2>4. quiet => WholeOK'
    BY <2>1, WholeStays
  <2> QED
    BY <1>1, <2>1, <2>3, <2>4, ClientQuiet
<1>16. CASE MarkerTime(c)
  <2>1. /\ call[c].step = "marker_time" /\ UNCHANGED <<dirs, file>>
        /\ call' = [call EXCEPT ![c].step = "open", ![c].stamp = now]
    BY <1>16 DEF MarkerTime
  <2>2. /\ call'[c].step = "open" /\ call'[c].op = call[c].op
        /\ call'[c].data = call[c].data /\ call'[c].key = call[c].key
        /\ call'[c].path = Marker
    BY <1>2, <1>3, <2>1, ActivePath DEF Calls
  <2>3. quiet => UseOK(c)'
    BY <2>1, <2>2 DEF UseOK, QuietInv, Dir
  <2>4. quiet => WholeOK'
    BY <2>1, WholeStays
  <2> QED
    BY <1>1, <2>1, <2>3, <2>4, ClientQuiet
<1>9. CASE Open(c)
  <2>1. call[c].step = "open" /\ dirs' = dirs
    BY <1>9 DEF Open
  <2>2. quiet => Dir(c) \in dirs
    BY <2>1 DEF QuietInv, UseOK
  <2>3. CASE /\ file' = [file EXCEPT ![Dir(c)][call[c].path] = Empty]
             /\ call' = [call EXCEPT ![c].step = "write", ![c].linked = TRUE,
                                    ![c].old = File(c)]
    <3>1. /\ call'[c].step = "write" /\ call'[c].op = call[c].op
          /\ call'[c].data = call[c].data /\ call'[c].key = call[c].key
          /\ call'[c].path = call[c].path /\ call'[c].linked = TRUE
      BY <1>2, <1>3, <2>1, <2>3 DEF Calls
    <3>2. /\ file'[Dir(c)][call[c].path] = Empty
          /\ \A ns \in Namespaces, x \in Files :
               file'[ns][x] = file[ns][x] \/ (ns = Dir(c) /\ x = call[c].path)
          /\ \A ns \in Namespaces : file'[ns][Marker] \in {Empty, file[ns][Marker]}
      BY <1>2, <1>3, <2>1, <2>3 DEF Files
    <3>3. quiet => UseOK(c)'
      BY <2>1, <2>2, <3>1, <3>2 DEF UseOK, QuietInv, Dir, File
    <3>4. WrittenBy(c, Dir(c), call[c].path)'
      BY <3>1 DEF WrittenBy, Dir
    <3>5. \A ns \in Namespaces, x \in Stems :
            quiet => file[ns][x] = Absent \/ file[ns][x].is = "data"
      BY <1>2, <2>1 DEF QuietInv, WholeOK, WrittenBy
    <3>6. quiet => WholeOK'
      <4> SUFFICES ASSUME quiet, NEW ns \in Namespaces, NEW x \in Stems
                   PROVE  \/ file'[ns][x] = Absent
                          \/ file'[ns][x].is = "data"
                          \/ WrittenBy(c, ns, x)'
        BY DEF WholeOK
      <4>1. CASE ns = Dir(c) /\ x = call[c].path
        BY <3>1, <4>1 DEF WrittenBy, Dir
      <4>2. CASE file'[ns][x] = file[ns][x]
        BY <3>5, <4>2
      <4> QED
        BY <3>2, <4>1, <4>2 DEF Files
    <3> QED
      BY <1>1, <3>2, <3>3, <3>6, ClientQuiet, ContentKinds
  <2>4. CASE Finish(c, "error") /\ UNCHANGED file
    <3>1. call'[c] = Idle
      BY <1>2, <2>4 DEF Finish
    <3> QED
      BY <1>5, <2>1, <2>4, <3>1 DEF Idle
  <2> QED
    BY <1>9, <2>3, <2>4 DEF Open
<1>10. CASE WriteMarker(c)
  <2>1. /\ call[c].step = "write" /\ call[c].path = Marker /\ dirs' = dirs
        /\ call' = [call EXCEPT ![c].step = "metadata_again"]
        /\ \/ file' = file
           \/ file' = [file EXCEPT ![Dir(c)][Marker] = Data(call[c].stamp, Never)]
    BY <1>10 DEF WriteMarker
  <2>2. /\ call'[c].step = "metadata_again" /\ call'[c].op = call[c].op
        /\ call'[c].data = call[c].data /\ call'[c].key = call[c].key
    BY <1>2, <1>3, <2>1 DEF Calls
  <2>3. /\ \A ns \in Namespaces, x \in Stems : file'[ns][x] = file[ns][x]
        /\ \A ns \in Namespaces :
             file'[ns][Marker] = file[ns][Marker] \/ file'[ns][Marker].is = "data"
    BY <1>2, <1>3, <2>1 DEF Files, Data
  <2>4. quiet => UseOK(c)'
    BY <2>1, <2>2 DEF UseOK, QuietInv, Dir
  <2>5. quiet => WholeOK'
    BY <1>2, <2>1, <2>3, WholeStays
  <2> QED
    BY <1>1, <2>3, <2>4, <2>5, ClientQuiet, ContentKinds
<1>11. CASE WriteValue(c)
  <2>1. call[c].step = "write" /\ call[c].path # Marker /\ call'[c] = Idle
    BY <1>2, <1>11 DEF WriteValue, Finish
  <2>2. PICK content \in {call[c].data, Corrupt} :
          /\ content = Corrupt => File(c) # Empty
          /\ file' = IF call[c].linked
                     THEN [file EXCEPT ![Dir(c)][call[c].path] = content]
                     ELSE file
    <3>1. call[c].data # Corrupt
      BY <1>3, <2>1 DEF Calls, Datas, Corrupt
    <3> QED
      BY <1>11, <3>1 DEF WriteValue
  <2>3. call[c].path \in Stems
    BY <1>3, <2>1 DEF Files
  <2>4. quiet => file' = [file EXCEPT ![Dir(c)][call[c].path] = call[c].data]
    BY <2>1, <2>2 DEF QuietInv, UseOK
  <2>5. call[c].data.is = "data"
    BY <1>3, <2>1 DEF Calls, Datas
  <2>6. \A ns \in Namespaces : file'[ns][Marker] = file[ns][Marker]
    BY <1>2, <1>3, <2>1, <2>2 DEF Files
  <2>7. quiet => WholeOK'
    <3> SUFFICES ASSUME quiet, NEW ns \in Namespaces, NEW x \in Stems
                 PROVE  file'[ns][x] = Absent \/ file'[ns][x].is = "data"
      BY DEF WholeOK
    <3>1. CASE WrittenBy(c, ns, x)
      BY <1>2, <1>3, <2>1, <2>4, <2>5, <3>1 DEF WrittenBy
    <3>2. CASE ~WrittenBy(c, ns, x)
      <4>1. file[ns][x] = Absent \/ file[ns][x].is = "data"
        BY <1>2, <3>2 DEF QuietInv, WholeOK
      <4>2. file'[ns][x] = file[ns][x]
        BY <1>2, <1>3, <2>1, <2>4, <3>2 DEF WrittenBy, Files
      <4> QED
        BY <4>1, <4>2
    <3> QED
      BY <3>1, <3>2
  <2>8. UseOK(c)'
    BY <2>1 DEF UseOK, Idle
  <2> QED
    BY <1>1, <2>6, <2>7, <2>8, ClientQuiet
<1>12. CASE MetadataAgain(c)
  <2>1. call[c].step = "metadata_again" /\ UNCHANGED <<dirs, file, written>>
    BY <1>12 DEF MetadataAgain, history
  <2>2. CASE Dir(c) \in dirs /\ WithPath(c)
    BY <1>1, <2>1, <2>2, WithPathQuiet
  <2>3. CASE Finish(c, "error")
    <3>1. call'[c] = Idle
      BY <1>2, <2>3 DEF Finish
    <3> QED
      BY <1>5, <2>1, <3>1 DEF Idle
  <2> QED
    BY <1>12, <2>2, <2>3 DEF MetadataAgain
<1>13. CASE GetReads(c)
  <2>1. call[c].step = "read" /\ UNCHANGED file /\ call'[c] = Idle
    BY <1>2, <1>13 DEF GetReads, Finish
  <2> QED
    BY <1>5, <2>1 DEF Idle
<1>14. CASE ExpireReads(c)
  <2>1. call[c].step = "read" /\ UNCHANGED <<file, dirs>> /\ call[c].op = "expire"
    BY <1>14 DEF ExpireReads
  <2>2. CASE Finish(c, "error")
    <3>1. call'[c] = Idle
      BY <1>2, <2>2 DEF Finish
    <3> QED
      BY <1>5, <2>1, <3>1 DEF Idle
  <2>3. CASE call' = [call EXCEPT ![c].step = "open",
                        ![c].data = set_lifetime(File(c), call[c].seconds)]
    <3>1. /\ call'[c].step = "open" /\ call'[c].key = call[c].key
          /\ call'[c].op = "expire"
      BY <1>2, <1>3, <2>1, <2>3 DEF Calls
    <3>2. quiet => UseOK(c)'
      BY <2>1, <3>1 DEF UseOK, QuietInv, Dir
    <3>3. quiet => WholeOK'
      BY <2>1, WholeStays
    <3> QED
      BY <1>1, <2>1, <3>2, <3>3, ClientQuiet
  <2> QED
    BY <1>14, <2>2, <2>3 DEF ExpireReads
<1>15. CASE DelRemoves(c)
  <2>1. /\ call[c].step = "remove" /\ call'[c] = Idle
        /\ file' = [file EXCEPT ![Dir(c)][call[c].path] = Absent]
    BY <1>2, <1>15 DEF DelRemoves, Unlinked
  <2>2. call[c].path # Marker
    BY <2>1, ActivePath
  <2>3. /\ \A ns \in Namespaces : file'[ns][Marker] = file[ns][Marker]
        /\ \A ns \in Namespaces, x \in Stems : file'[ns][x] \in {Absent, file[ns][x]}
    BY <1>2, <1>3, <2>1, <2>2 DEF Files
  <2>4. quiet => WholeOK'
    BY <1>2, <2>1, <2>3 DEF QuietInv, WholeOK, WrittenBy
  <2>5. UseOK(c)'
    BY <2>1 DEF UseOK, Idle
  <2> QED
    BY <1>1, <2>3, <2>4, <2>5, ClientQuiet
<1> QED
  BY <1>6, <1>7, <1>8, <1>9, <1>10, <1>11, <1>12, <1>13, <1>14, <1>15, <1>16
     DEF Step

\* The clients and the files do nothing.
LEMMA RestQuiet ==
  ASSUME QuietInv, UNCHANGED <<dirs, file, call, quiet>>, quiet => GuardedOK'
  PROVE  QuietInv'
BY DEF QuietInv, UseOK, WholeOK, WrittenBy, Dir, File

LEMMA GcQuiet ==
  ASSUME FsInv, QuietInv, GcStep PROVE QuietInv'
<1>1. /\ gc \in [step : {"waiting", "read_root", "next", "read_dir", "remove",
                        "panicked"},
                now : Nat, todo : SUBSET Namespaces,
                ns : Namespaces \cup {"none"}, timestamp : Values \cup Nat,
                files : SUBSET Files]
  BY DEF FsInv, GcOK
<1>3. CASE collect \/ GcReadRoot \/ GcRemoveFails \/ GcDone
  <2>1. UNCHANGED <<dirs, file, call, quiet>>
    BY <1>3 DEF collect, GcReadRoot, GcRemoveFails, GcDone, history
  <2>2. \/ gc' = NoCollect
        \/ gc' = [gc EXCEPT !.step = "read_root", !.now = now]
        \/ gc' = [gc EXCEPT !.step = "next", !.todo = dirs]
    BY <1>3 DEF collect, GcReadRoot, GcRemoveFails, GcDone
  <2>3. gc'.step \in {"waiting", "read_root", "next"}
    <3>1. NoCollect.step = "waiting"
      BY DEF NoCollect
    <3>2. /\ [gc EXCEPT !.step = "read_root", !.now = now].step = "read_root"
          /\ [gc EXCEPT !.step = "next", !.todo = dirs].step = "next"
      BY <1>1
    <3> QED
      BY <2>2, <3>1, <3>2
  <2> QED
    BY <2>1, <2>3, RestQuiet DEF GuardedOK
<1>4. CASE GcReadMarker
  <2>1. PICK ns \in gc.todo :
          \/ gc' = NoCollect
          \/ gc' = [NoCollect EXCEPT !.step = "panicked"]
          \/ /\ file[ns][Marker].is = "data" /\ is_old(file[ns][Marker].value)
             /\ gc' = [gc EXCEPT !.step = "read_dir", !.ns = ns,
                                 !.timestamp = file[ns][Marker].value]
          \/ gc' = [gc EXCEPT !.todo = gc.todo \ {ns}]
    BY <1>4 DEF GcReadMarker
  <2>2. gc.step = "next" /\ UNCHANGED <<dirs, file, call, quiet>>
    BY <1>4 DEF GcReadMarker, history
  <2>3. \/ gc'.step \notin {"read_dir", "remove"}
        \/ gc'.step = "read_dir" /\ gc'.ns = ns /\ file[ns][Marker] # Absent
    <3>1. CASE gc' = NoCollect \/ gc' = [NoCollect EXCEPT !.step = "panicked"]
      BY <3>1 DEF NoCollect
    <3>2. CASE /\ file[ns][Marker].is = "data"
               /\ gc' = [gc EXCEPT !.step = "read_dir", !.ns = ns,
                                 !.timestamp = file[ns][Marker].value]
      BY <1>1, <3>2, ContentKinds
    <3>3. CASE gc' = [gc EXCEPT !.todo = gc.todo \ {ns}]
      BY <1>1, <2>2, <3>3
    <3> QED
      BY <2>1, <3>1, <3>2, <3>3
  <2> QED
    BY <2>2, <2>3, RestQuiet DEF GuardedOK
<1>5. CASE GcReadDir
  <2>1. /\ gc.step = "read_dir" /\ UNCHANGED <<dirs, file, call, quiet>>
        /\ gc'.step = "remove"
        /\ gc'.files = {x \in Files : file[gc.ns][x] # Absent}
    BY <1>1, <1>5 DEF GcReadDir, history, Files
  <2>2. quiet => Marker \in gc'.files
    BY <2>1 DEF QuietInv, GuardedOK, Files
  <2> QED
    BY <2>1, <2>2, RestQuiet DEF GuardedOK
<1>6. CASE \E x \in Stems \cup {Marker} : GcRemove(x)
  BY <1>6 DEF GcRemove, QuietInv
<1>7. CASE GcRemoveDir
  <2>1. ~quiet /\ ~quiet'
    BY <1>7 DEF GcRemoveDir, QuietInv, GuardedOK, history
  <2> QED
    BY <2>1 DEF QuietInv
<1> QED
  BY <1>3, <1>4, <1>5, <1>6, <1>7 DEF GcStep

LEMMA NextQuiet ==
  ASSUME OneAtATime PROVE FsInv /\ QuietInv /\ [Next]_vars => QuietInv'
<1> SUFFICES ASSUME FsInv, QuietInv, [Next]_vars PROVE QuietInv'
  OBVIOUS
<1>1. CASE \E c \in Clients : Start(c) \/ Step(c)
  BY <1>1, StepQuiet
<1>2. CASE GcStep
  BY <1>2, GcQuiet
<1>3. CASE Tick \/ UNCHANGED vars
  BY <1>3, RestQuiet DEF Tick, vars, history, QuietInv, GuardedOK
<1>4. CASE Crash
  BY <1>4 DEF Crash, QuietInv
<1> QED
  BY <1>1, <1>2, <1>3, <1>4 DEF Next

\* One client, and names that with_extension gives different files.
OneClient == \E c : Clients = {c}

FilesDiffer == \A m, n \in Names : m.stem = n.stem => m = n

LEMMA TheOnlyClient ==
  ASSUME OneClient
  PROVE  /\ TheClient \in Clients
         /\ \A c \in Clients : c = TheClient
         /\ OneAtATime
BY DEF OneClient, TheClient, OneAtATime

\* What the map with timeouts sees of the files and of the calls.
FileEntry(key) == Entry(file[key[1]][key[2].stem])
StoreOf == [key \in Keys |-> Stored(key)]
ReplyOf == [c \in Clients |-> IF Expiring THEN "ok" ELSE result[c].reply]

\* The files are the map: nobody is writing to the file of a key.
Plain ==
  \/ call[TheClient].step \notin {"open", "write"}
  \/ call[TheClient].path = Marker
  \/ call[TheClient].step = "open" /\ call[TheClient].op # "expire"

SeenInFiles ==
  /\ ~Expiring
  /\ StoreOf = [key \in Keys |-> FileEntry(key)]
  /\ ReplyOf = [c \in Clients |-> result[c].reply]

LEMMA PlainView == Plain => SeenInFiles
<1> SUFFICES ASSUME Plain PROVE SeenInFiles
  OBVIOUS
<1>1. ~Expiring /\ ~(Writing /\ call[TheClient].step = "write")
  BY DEF Plain, Expiring, Writing
<1>2. \A key : Stored(key) = FileEntry(key)
  BY <1>1 DEF Stored, FileEntry, file_name
<1> QED
  BY <1>1, <1>2 DEF SeenInFiles, StoreOf, ReplyOf

LEMMA PlainViewNext ==
  Plain' => /\ ~Expiring'
            /\ StoreOf' = [key \in Keys |-> FileEntry(key)']
            /\ ReplyOf' = [c \in Clients |-> result'[c].reply]
<1>1. Plain' => SeenInFiles'
  BY PlainView, PTL
<1> QED
  BY <1>1 DEF SeenInFiles

\* In between, the entry of the key that is written is not in its file.
SeenExpiring ==
  /\ StoreOf = [key \in Keys |-> IF call[TheClient].key = key
                  THEN Entry(call[TheClient].data) ELSE FileEntry(key)]
  /\ ReplyOf = [c \in Clients |-> "ok"]

SeenSetting ==
  /\ StoreOf = [key \in Keys |-> IF call[TheClient].key = key
                  THEN Entry(call[TheClient].old) ELSE FileEntry(key)]
  /\ ReplyOf = [c \in Clients |-> result[c].reply]

LEMMA ExpiringView == Expiring => SeenExpiring
BY DEF SeenExpiring, StoreOf, ReplyOf, Stored, FileEntry, file_name

LEMMA SettingView ==
  Writing /\ ~Expiring /\ call[TheClient].step = "write" => SeenSetting
BY DEF SeenSetting, StoreOf, ReplyOf, Stored, FileEntry, file_name

LEMMA ExpiringViewNext == Expiring' => SeenExpiring'
BY ExpiringView, PTL

LEMMA SettingViewNext ==
  Writing' /\ ~Expiring' /\ call'[TheClient].step = "write" => SeenSetting'
<1>1. (Writing /\ ~Expiring /\ call[TheClient].step = "write")' => SeenSetting'
  BY SettingView, PTL
<1> QED
  BY <1>1

LEMMA SeenSame ==
  ASSUME UNCHANGED <<now, StoreOf, ReplyOf>> PROVE UNCHANGED Abstract!vars
BY DEF Abstract!vars, StoreOf, ReplyOf

\* One file is the entry of one key.
LEMMA KeyOfFile ==
  ASSUME FilesDiffer, NEW k \in Keys, NEW key \in Keys
  PROVE  k = key <=> k[1] = key[1] /\ k[2].stem = key[2].stem
BY KeyType DEF FilesDiffer

LEMMA EntryShows ==
  ASSUME FsInv, FilesDiffer, NEW key \in Keys, NEW content,
         file' = [file EXCEPT ![key[1]][key[2].stem] = content]
  PROVE  \A k \in Keys :
           FileEntry(k)' = IF k = key THEN Entry(content) ELSE FileEntry(k)
<1> SUFFICES ASSUME NEW k \in Keys
             PROVE  FileEntry(k)' = IF k = key THEN Entry(content) ELSE FileEntry(k)
  OBVIOUS
<1>1. file \in [Namespaces -> [Files -> Contents]]
  BY DEF FsInv, FilesOK
<1>2. /\ k[1] \in Namespaces /\ k[2].stem \in Files
      /\ key[1] \in Namespaces /\ key[2].stem \in Files
  BY KeyType DEF Files
<1>3. file'[k[1]][k[2].stem] = IF k = key THEN content ELSE file[k[1]][k[2].stem]
  BY <1>1, <1>2, KeyOfFile
<1> QED
  BY <1>3 DEF FileEntry, Entry

LEMMA MarkerHides ==
  ASSUME FsInv, NEW ns \in Namespaces, NEW content,
         file' = file \/ file' = [file EXCEPT ![ns][Marker] = content]
  PROVE  \A k \in Keys : FileEntry(k)' = FileEntry(k)
<1> SUFFICES ASSUME NEW k \in Keys PROVE FileEntry(k)' = FileEntry(k)
  OBVIOUS
<1>1. /\ file \in [Namespaces -> [Files -> Contents]]
      /\ k[1] \in Namespaces /\ k[2].stem \in Files /\ k[2].stem # Marker
  BY KeyType, MarkerIsNoStem DEF FsInv, FilesOK, Files
<1>2. file'[k[1]][k[2].stem] = file[k[1]][k[2].stem]
  BY <1>1
<1> QED
  BY <1>2 DEF FileEntry

\* Nobody writes to the file of a key before or after, and nothing else shows.
LEMMA PlainStep ==
  ASSUME Plain, Plain', UNCHANGED <<now, result>>,
         \A k \in Keys : FileEntry(k)' = FileEntry(k)
  PROVE  UNCHANGED Abstract!vars
<1>1. StoreOf' = StoreOf /\ ReplyOf' = ReplyOf
  BY PlainView, PlainViewNext DEF SeenInFiles
<1> QED
  BY <1>1, SeenSame

\* The call of the only client returns.
LEMMA ReplyShows ==
  ASSUME FsInv, OneClient, NEW r, Plain', Return(TheClient, r)
  PROVE  ReplyOf' = [ReplyOf EXCEPT ![TheClient] = r]
<1>1. \A c \in Clients : result'[c].reply = r /\ c = TheClient
  BY TheOnlyClient DEF Return, FsInv
<1>2. ReplyOf' = [c \in Clients |-> r]
  BY <1>1, PlainViewNext
<1>3. ReplyOf \in [Clients -> {ReplyOf[c] : c \in Clients}] /\ DOMAIN ReplyOf = Clients
  BY DEF ReplyOf
<1> QED
  BY <1>1, <1>2, <1>3

\* The content of the file of a key is an entry of the map.
LEMMA EntryType ==
  ASSUME FsInv, NEW key \in Keys
  PROVE  LET content == file[key[1]][key[2].stem]
         IN  /\ content \in Contents
             /\ content.is = "data" =>
                  /\ FileEntry(key) # Abstract!NoEntry
                  /\ content.value \in Values /\ content.value # "none"
                  /\ content.expires_at \in Nat \cup {Never}
                  /\ FileEntry(key) = [value |-> content.value,
                                       expires_at |-> content.expires_at]
             /\ content.is # "data" => FileEntry(key) = Abstract!NoEntry
<1> DEFINE content == file[key[1]][key[2].stem]
<1>1. key[1] \in Namespaces /\ key[2].stem \in Stems
  BY KeyType
<1>2. content \in Contents
  BY <1>1 DEF FsInv, FilesOK, Files
<1>3. CASE content.is = "data"
  <2>1. content \in Datas
    BY <1>2, <1>3, ContentKinds
  <2>2. content.value \in Values
    BY <1>1, <1>3, WrittenIsValue DEF FsInv, FilesOK
  <2>3. content.value # "none"
    BY <2>2, StoreAssumption
  <2>4. content.expires_at \in Nat \cup {Never}
    BY <2>1 DEF Datas
  <2>5. FileEntry(key) = [value |-> content.value, expires_at |-> content.expires_at]
    BY <1>3 DEF FileEntry, Entry
  <2>6. FileEntry(key) # Abstract!NoEntry
    BY <2>3, <2>5 DEF Abstract!NoEntry
  <2> QED
    BY <1>2, <1>3, <2>2, <2>3, <2>4, <2>5, <2>6
<1>4. CASE content.is # "data"
  BY <1>2, <1>4 DEF FileEntry, Entry, Abstract!NoEntry
<1> QED
  BY <1>3, <1>4

LEMMA InitShows == ASSUME OneClient PROVE Init => Abstract!Init
<1> SUFFICES ASSUME Init PROVE Abstract!Init
  OBVIOUS
<1>1. Plain
  BY TheOnlyClient DEF Init, Plain, Idle
<1>2. \A key \in Keys : FileEntry(key) = Abstract!NoEntry
  BY KeyType DEF Init, FileEntry, Entry, Absent, Abstract!NoEntry
<1>3. \A c \in Clients : result[c].reply = "none"
  BY DEF Init, NoResult
<1>4. StoreOf = [key \in Keys |-> Abstract!NoEntry] /\ ReplyOf = [c \in Clients |-> "none"]
  BY <1>1, <1>2, <1>3, PlainView DEF SeenInFiles
<1> QED
  BY <1>4 DEF Init, Abstract!Init, StoreOf, ReplyOf

\* The operations of the map, on what it sees of the files.
LEMMA GetShows ==
  ASSUME NEW c \in Clients, NEW k \in Keys, UNCHANGED <<now, StoreOf>>,
         ReplyOf' = [ReplyOf EXCEPT ![c] =
           IF Abstract!Visible(StoreOf[k]) THEN StoreOf[k].value ELSE "none"]
  PROVE  Abstract!Next
<1>1. Abstract!Get(c)
  BY DEF Abstract!Get, Abstract!Return, Abstract!Visible, StoreOf, ReplyOf
<1> QED
  BY <1>1 DEF Abstract!Next

LEMMA SetShows ==
  ASSUME NEW c \in Clients, NEW k \in Keys, NEW v \in Values, now' = now,
         StoreOf' = [StoreOf EXCEPT ![k] = [value |-> v, expires_at |-> Never]],
         ReplyOf' = [ReplyOf EXCEPT ![c] = "ok"]
  PROVE  Abstract!Next
<1>1. Abstract!Set(c)
  BY DEF Abstract!Set, Abstract!Return, Abstract!Done, StoreOf, ReplyOf
<1> QED
  BY <1>1 DEF Abstract!Next

LEMMA DelShows ==
  ASSUME NEW c \in Clients, NEW k \in Keys, now' = now,
         StoreOf' = [StoreOf EXCEPT ![k] = Abstract!NoEntry],
         ReplyOf' = [ReplyOf EXCEPT ![c] = "ok"]
  PROVE  Abstract!Next
<1>1. Abstract!Del(c)
  BY DEF Abstract!Del, Abstract!Return, Abstract!Done, Abstract!NoEntry, StoreOf, ReplyOf
<1> QED
  BY <1>1 DEF Abstract!Next

LEMMA ExpireShows ==
  ASSUME NEW c \in Clients, NEW k \in Keys, NEW s \in Seconds, now \in Nat,
         now' = now, StoreOf[k] # Abstract!NoEntry,
         StoreOf' = [StoreOf EXCEPT ![k].expires_at = now + s],
         ReplyOf' = [ReplyOf EXCEPT ![c] = "ok"]
  PROVE  Abstract!Next
<1>1. 0 \in 0 .. 0 /\ now - 0 + s = now + s
  BY StoreAssumption
<1>2. StoreOf' = [StoreOf EXCEPT ![k].expires_at = now - 0 + s]
  BY <1>1
<1>3. \E d \in 0 .. 0 : StoreOf' = [StoreOf EXCEPT ![k].expires_at = now - d + s]
  BY <1>1, <1>2
<1>4. Abstract!Expire(c)
  BY <1>3 DEF Abstract!Expire, Abstract!Return, Abstract!Done, Abstract!NoEntry, StoreOf, ReplyOf
<1> QED
  BY <1>4 DEF Abstract!Next

LEMMA ExpireFailsShows ==
  ASSUME NEW c \in Clients, NEW k \in Keys, NEW s \in Seconds,
         UNCHANGED <<now, StoreOf>>, StoreOf[k] = Abstract!NoEntry,
         ReplyOf' = [ReplyOf EXCEPT ![c] = "error"]
  PROVE  Abstract!Next
<1>1. Abstract!Expire(c)
  BY DEF Abstract!Expire, Abstract!Return, Abstract!NoEntry, StoreOf, ReplyOf
<1> QED
  BY <1>1 DEF Abstract!Next

\* Every file operation is an operation of the map, or does not show.
LEMMA StepShows ==
  ASSUME FsInv, QuietInv, quiet, OneClient, FilesDiffer, NEW c \in Clients,
         Start(c) \/ Step(c)
  PROVE  Abstract!Next \/ UNCHANGED Abstract!vars
<1>1. c = TheClient
  BY TheOnlyClient
<1>2. /\ call = [d \in Clients |-> call[d]] /\ DOMAIN call = Clients
      /\ file \in [Namespaces -> [Files -> Contents]]
      /\ Marker \notin Stems /\ now \in Nat
  BY MarkerIsNoStem, NowType DEF FsInv, FilesOK
<1>3. call[c].step # "idle" =>
        /\ call[c] \in Calls /\ Dir(c) \in Namespaces /\ call[c].path \in Files
        /\ call[c].key \in Keys
  BY ActiveCall
<1>4. call[c].step # "idle" =>
        /\ call[c].path \in {Marker, call[c].key[2].stem}
        /\ call[c].op = "set" => <<call[c].key, call[c].data.value>> \in written
  <2>1. CallOK(c)
    BY DEF FsInv
  <2> QED
    BY <2>1 DEF CallOK, Idle
<1> DEFINE key == call[c].key
<1>5. (UNCHANGED file \/ \E content : file' = [file EXCEPT ![Dir(c)][Marker] = content])
        /\ call[c].step # "idle" => \A k \in Keys : FileEntry(k)' = FileEntry(k)
  BY <1>3, MarkerHides
<1>6. UNCHANGED file => \A k \in Keys : FileEntry(k)' = FileEntry(k)
  BY DEF FileEntry
<1>7. CASE Start(c)
  <2>1. Plain /\ UNCHANGED <<now, result, file>>
    BY <1>1, <1>7 DEF Start, Begin, Plain, Idle
  <2>2. call'[c].step = "metadata"
    BY <1>2, <1>7 DEF Start, Begin
  <2> QED
    BY <1>1, <1>6, <2>1, <2>2, PlainStep DEF Plain
<1>8. ASSUME call[c].step \in {"metadata", "metadata_again"}, WithPath(c),
             UNCHANGED <<now, file>>
      PROVE  UNCHANGED Abstract!vars
  <2>1. /\ call'[c].step \in {"open", "remove", "read"}
        /\ call'[c].op = call[c].op
        /\ call'[c].step = "open" => call[c].op = "set"
    BY <1>2, <1>3, <1>8 DEF WithPath, Calls
  <2>2. UNCHANGED result
    BY <1>8 DEF WithPath
  <2> QED
    BY <1>1, <1>6, <1>8, <2>1, <2>2, PlainStep DEF Plain
<1>9. CASE Metadata(c)
  <2>1. call[c].step = "metadata" /\ UNCHANGED <<now, file>>
    BY <1>9 DEF Metadata
  <2>2. CASE call' = [call EXCEPT ![c].step = "create_dir"] /\ UNCHANGED result
    <3>1. call'[c].step = "create_dir"
      BY <1>2, <1>3, <2>1, <2>2 DEF Calls
    <3> QED
      BY <1>1, <1>6, <2>1, <2>2, <3>1, PlainStep DEF Plain
  <2> QED
    BY <1>8, <1>9, <2>1, <2>2 DEF Metadata
<1>10. CASE CreateDir(c)
  <2>1. /\ call[c].step = "create_dir" /\ UNCHANGED <<now, file, result>>
        /\ call' = [call EXCEPT ![c].step = "marker_time"]
    BY <1>10 DEF CreateDir
  <2>2. call'[c].step = "marker_time"
    BY <1>2, <1>3, <2>1 DEF Calls
  <2> QED
    BY <1>1, <1>6, <2>1, <2>2, PlainStep DEF Plain
<1>19. CASE MarkerTime(c)
  <2>1. /\ call[c].step = "marker_time" /\ UNCHANGED <<now, file, result>>
        /\ call' = [call EXCEPT ![c].step = "open", ![c].stamp = now]
    BY <1>19 DEF MarkerTime
  <2>2. call'[c].path = Marker
    BY <1>2, <1>3, <2>1, ActivePath DEF Calls
  <2> QED
    BY <1>1, <1>6, <2>1, <2>2, PlainStep DEF Plain
<1>11. CASE Open(c)
  <2>1. /\ call[c].step = "open" /\ UNCHANGED <<now, result>>
        /\ file' = [file EXCEPT ![Dir(c)][call[c].path] = Empty]
        /\ call' = [call EXCEPT ![c].step = "write", ![c].linked = TRUE,
                               ![c].old = File(c)]
    BY <1>11 DEF Open, QuietInv, UseOK
  <2>2. /\ call'[c].step = "write" /\ call'[c].op = call[c].op
        /\ call'[c].path = call[c].path /\ call'[c].key = call[c].key
        /\ call'[c].data = call[c].data /\ call'[c].old = File(c)
    BY <1>2, <1>3, <2>1 DEF Calls
  <2>3. CASE call[c].path = Marker
    <3>1. Plain /\ Plain'
      BY <1>1, <2>2, <2>3 DEF Plain
    <3>2. \A k \in Keys : FileEntry(k)' = FileEntry(k)
      BY <1>5, <2>1, <2>3
    <3> QED
      BY <2>1, <3>1, <3>2, PlainStep
  <2>4. CASE call[c].path # Marker
    <3>1. call[c].path = key[2].stem /\ key \in Keys
      BY <1>3, <1>4, <2>1, <2>4
    <3>2. \A k \in Keys : FileEntry(k)' = IF k = key THEN Entry(Empty) ELSE FileEntry(k)
      BY <2>1, <3>1, EntryShows DEF Dir
    <3>3. CASE call[c].op = "expire"
      <4>1. Expiring /\ Expiring'
        BY <1>1, <2>1, <2>2, <2>4, <3>3 DEF Expiring, Writing
      <4> DEFINE entry == Entry(call[c].data)
      <4>2. /\ StoreOf = [k \in Keys |-> IF key = k THEN entry ELSE FileEntry(k)]
            /\ ReplyOf = [d \in Clients |-> "ok"]
        BY <1>1, <4>1, ExpiringView DEF SeenExpiring
      <4>3. /\ StoreOf' = [k \in Keys |-> IF key = k THEN entry ELSE FileEntry(k)']
            /\ ReplyOf' = [d \in Clients |-> "ok"]
        BY <1>1, <2>2, <4>1, ExpiringViewNext DEF SeenExpiring
      <4>4. StoreOf' = StoreOf
        BY <3>2, <4>2, <4>3
      <4> QED
        BY <2>1, <4>2, <4>3, <4>4, SeenSame
    <3>4. CASE call[c].op # "expire"
      <4>1. /\ Plain /\ Writing' /\ ~Expiring' /\ call'[TheClient].step = "write"
        BY <1>1, <2>1, <2>2, <2>4, <3>4 DEF Plain, Expiring, Writing
      <4>2. /\ StoreOf = [k \in Keys |-> FileEntry(k)]
            /\ ReplyOf = [d \in Clients |-> result[d].reply]
        BY <4>1, PlainView DEF SeenInFiles
      <4>3. Entry(call'[c].old) = FileEntry(key)
        BY <2>2, <3>1 DEF FileEntry, File, Dir
      <4>4. /\ StoreOf' = [k \in Keys |-> IF key = k THEN FileEntry(key)
                                           ELSE FileEntry(k)']
            /\ ReplyOf' = [d \in Clients |-> result'[d].reply]
        BY <1>1, <2>2, <4>1, <4>3, SettingViewNext DEF SeenSetting
      <4>5. StoreOf' = StoreOf
        BY <3>2, <4>2, <4>4
      <4> QED
        BY <2>1, <4>2, <4>4, <4>5, SeenSame
    <3> QED
      BY <3>3, <3>4
  <2> QED
    BY <2>3, <2>4
<1>12. CASE WriteMarker(c)
  <2>1. /\ call[c].step = "write" /\ call[c].path = Marker
        /\ UNCHANGED <<now, result>>
        /\ call' = [call EXCEPT ![c].step = "metadata_again"]
        /\ \/ file' = file
           \/ file' = [file EXCEPT ![Dir(c)][Marker] = Data(call[c].stamp, Never)]
    BY <1>12 DEF WriteMarker
  <2>2. call'[c].step = "metadata_again"
    BY <1>2, <1>3, <2>1 DEF Calls
  <2>3. \A k \in Keys : FileEntry(k)' = FileEntry(k)
    BY <1>5, <2>1
  <2>4. Plain /\ Plain'
    BY <1>1, <2>1, <2>2 DEF Plain
  <2> QED
    BY <2>1, <2>3, <2>4, PlainStep
<1>13. CASE WriteValue(c)
  <2>1. /\ call[c].step = "write" /\ call[c].path # Marker /\ now' = now
        /\ call' = [call EXCEPT ![c] = Idle] /\ Return(c, "ok")
    BY <1>13 DEF WriteValue, Finish
  <2>2. call[c].linked /\ File(c) = Empty
    BY <2>1 DEF QuietInv, UseOK
  <2>3. file' = [file EXCEPT ![Dir(c)][call[c].path] = call[c].data]
    BY <1>13, <2>2 DEF WriteValue
  <2>4. call[c].path = key[2].stem /\ key \in Keys /\ call[c] \in Calls
    BY <1>3, <1>4, <2>1
  <2>5. \A k \in Keys :
          FileEntry(k)' = IF k = key THEN Entry(call[c].data) ELSE FileEntry(k)
    BY <2>3, <2>4, EntryShows DEF Dir
  <2>6. Plain'
    BY <1>1, <1>2, <2>1 DEF Plain, Idle
  <2>7. ReplyOf' = [ReplyOf EXCEPT ![c] = "ok"]
    BY <1>1, <2>1, <2>6, ReplyShows
  <2>8. StoreOf' = [k \in Keys |-> IF k = key THEN Entry(call[c].data)
                                   ELSE FileEntry(k)]
    BY <2>5, <2>6, PlainViewNext DEF SeenInFiles
  <2>9. CASE call[c].op = "expire"
    <3>1. Expiring
      BY <1>1, <2>1, <2>9 DEF Expiring, Writing
    <3>2. /\ StoreOf = [k \in Keys |-> IF key = k THEN Entry(call[c].data)
                                       ELSE FileEntry(k)]
          /\ ReplyOf = [d \in Clients |-> "ok"]
      BY <1>1, <3>1, ExpiringView DEF SeenExpiring
    <3>3. StoreOf' = StoreOf
      BY <2>8, <3>2
    <3>4. ReplyOf' = ReplyOf
      BY <2>7, <3>2
    <3> QED
      BY <2>1, <3>3, <3>4, SeenSame
  <2>10. CASE call[c].op # "expire"
    <3>1. Writing /\ ~Expiring
      BY <1>1, <2>1, <2>10 DEF Expiring, Writing
    <3>2. StoreOf = [k \in Keys |-> IF key = k THEN Entry(call[c].old)
                                    ELSE FileEntry(k)]
      BY <1>1, <2>1, <3>1, SettingView DEF SeenSetting
    <3>3. call[c].op = "set" /\ call[c].data.expires_at = Never
      BY <2>1, <2>10 DEF QuietInv, UseOK
    <3>4. PICK v \in Values : v = call[c].data.value
      <4>1. <<key, call[c].data.value>> \in written
        BY <1>4, <2>1, <3>3
      <4> QED
        BY <4>1 DEF FsInv
    <3>5. Entry(call[c].data) = [value |-> v, expires_at |-> Never]
      BY <2>4, <3>3, <3>4 DEF Entry, Calls, Datas
    <3>6. StoreOf' = [StoreOf EXCEPT ![key] = [value |-> v, expires_at |-> Never]]
      BY <2>8, <3>2, <3>5
    <3> QED
      BY <2>1, <2>4, <2>7, <3>6, SetShows
  <2> QED
    BY <2>9, <2>10
<1>14. CASE MetadataAgain(c)
  <2>1. call[c].step = "metadata_again" /\ UNCHANGED <<now, file>> /\ WithPath(c)
    BY <1>14 DEF MetadataAgain, QuietInv, UseOK
  <2> QED
    BY <1>8, <2>1
<1>15. ASSUME call[c].step \in {"read", "remove"}
       PROVE  /\ key \in Keys /\ call[c].path = key[2].stem /\ Plain
              /\ StoreOf = [k \in Keys |-> FileEntry(k)]
              /\ File(c) = file[key[1]][key[2].stem]
  <2>1. key \in Keys /\ call[c].path = key[2].stem
    BY <1>3, <1>4, <1>15, ActivePath
  <2>2. Plain
    BY <1>1, <1>15 DEF Plain
  <2> QED
    BY <2>1, <2>2, PlainView DEF SeenInFiles, File, Dir
<1>16. CASE GetReads(c)
  <2> DEFINE entry == FileEntry(key)
             seen  == IF Abstract!Visible(entry) THEN entry.value ELSE "none"
  <2>1. /\ call[c].step = "read" /\ UNCHANGED <<now, file>>
        /\ call' = [call EXCEPT ![c] = Idle]
    BY <1>16 DEF GetReads, Finish
  <2>2. key \in Keys /\ StoreOf = [k \in Keys |-> FileEntry(k)]
        /\ File(c) = file[key[1]][key[2].stem] /\ call[c].path = key[2].stem
    BY <1>15, <2>1
  <2>3. File(c) = Absent \/ File(c).is = "data"
    <3>1. key[1] \in Namespaces /\ key[2].stem \in Stems
      BY <2>2, KeyType
    <3>2. ~ \E d \in Clients : WrittenBy(d, key[1], key[2].stem)
      BY <1>1, <2>1, TheOnlyClient DEF WrittenBy
    <3> QED
      BY <2>2, <3>1, <3>2 DEF QuietInv, WholeOK
  <2>4. Return(c, seen)
    <3>1. CASE File(c) = Absent
      <4>1. Return(c, "none")
        BY <1>16, <3>1 DEF GetReads, Finish, Absent
      <4>2. entry = Abstract!NoEntry
        BY <2>2, <3>1, EntryType, ContentKinds
      <4> QED
        BY <4>1, <4>2 DEF Abstract!Visible
    <3>2. CASE File(c).is = "data"
      <4>1. /\ entry # Abstract!NoEntry
            /\ File(c).expires_at \in Nat \cup {Never}
            /\ entry = [value |-> File(c).value, expires_at |-> File(c).expires_at]
        BY <2>2, <3>2, EntryType
      <4>2. Abstract!Visible(entry) <=> ~is_expired(File(c))
        BY <1>2, <4>1 DEF Abstract!Visible, is_expired, Never
      <4>3. Return(c, IF is_expired(File(c)) THEN "none" ELSE File(c).value)
        BY <1>16, <3>2 DEF GetReads, Finish
      <4> QED
        BY <4>1, <4>2, <4>3
    <3> QED
      BY <2>3, <3>1, <3>2
  <2>5. Plain'
    BY <1>1, <1>2, <2>1 DEF Plain, Idle
  <2>6. ReplyOf' = [ReplyOf EXCEPT ![c] = seen]
    <3> HIDE DEF seen
    <3> QED
      BY <1>1, <2>4, <2>5, ReplyShows
  <2>7. UNCHANGED StoreOf
    BY <1>6, <2>1, <2>2, <2>5, PlainViewNext DEF SeenInFiles
  <2>8. StoreOf[key] = entry
    BY <2>2
  <2> QED
    BY <2>1, <2>2, <2>6, <2>7, <2>8, GetShows
<1>17. CASE ExpireReads(c)
  <2>1. call[c].step = "read" /\ UNCHANGED <<now, file>> /\ call[c].op = "expire"
    BY <1>17 DEF ExpireReads
  <2>2. /\ key \in Keys /\ StoreOf = [k \in Keys |-> FileEntry(k)]
        /\ File(c) = file[key[1]][key[2].stem] /\ call[c].path = key[2].stem
        /\ call[c].path # Marker /\ call[c] \in Calls
    BY <1>3, <1>15, <2>1, ActivePath
  <2>3. CASE File(c).is # "data" /\ Finish(c, "error")
    <3>1. Plain' /\ Return(c, "error")
      BY <1>1, <1>2, <2>3 DEF Plain, Idle, Finish
    <3>2. ReplyOf' = [ReplyOf EXCEPT ![c] = "error"]
      BY <1>1, <3>1, ReplyShows
    <3>3. UNCHANGED StoreOf
      BY <1>6, <2>1, <2>2, <3>1, PlainViewNext DEF SeenInFiles
    <3>4. StoreOf[key] = Abstract!NoEntry
      BY <2>2, <2>3, EntryType
    <3>5. call[c].seconds \in Seconds
      BY <2>2 DEF Calls
    <3> QED
      BY <2>1, <2>2, <3>2, <3>3, <3>4, <3>5, ExpireFailsShows
  <2>4. CASE /\ File(c).is = "data" /\ UNCHANGED result
             /\ call' = [call EXCEPT ![c].step = "open",
                  ![c].data = set_lifetime(File(c), call[c].seconds)]
    <3>1. PICK s \in Seconds : s = call[c].seconds
      BY <2>2 DEF Calls
    <3>2. /\ call'[c].step = "open" /\ call'[c].op = "expire"
          /\ call'[c].path = call[c].path /\ call'[c].key = call[c].key
          /\ call'[c].data = Data(File(c).value, now + s)
      BY <1>2, <2>1, <2>2, <2>4, <3>1 DEF Calls, set_lifetime
    <3>3. Expiring'
      BY <1>1, <2>2, <3>2 DEF Expiring, Writing
    <3>4. Entry(call'[c].data) = [value |-> File(c).value, expires_at |-> now + s]
      BY <3>2 DEF Entry, Data
    <3>5. /\ StoreOf' = [k \in Keys |-> IF key = k THEN Entry(call'[c].data)
                                         ELSE FileEntry(k)']
          /\ ReplyOf' = [d \in Clients |-> "ok"]
      BY <1>1, <3>2, <3>3, ExpiringViewNext DEF SeenExpiring
    <3>6. /\ StoreOf[key] # Abstract!NoEntry
          /\ StoreOf[key] = [value |-> File(c).value, expires_at |-> File(c).expires_at]
      BY <2>2, <2>4, EntryType
    <3>7. StoreOf' = [StoreOf EXCEPT ![key].expires_at = now + s]
      <4> DEFINE entry == [value |-> File(c).value, expires_at |-> now + s]
      <4>1. [StoreOf[key] EXCEPT !.expires_at = now + s] = entry
        BY <3>6
      <4>2. StoreOf' = [k \in Keys |-> IF key = k THEN entry ELSE FileEntry(k)]
        BY <1>6, <2>1, <3>4, <3>5
      <4>3. StoreOf' = [StoreOf EXCEPT ![key] = entry]
        <5> HIDE DEF entry
        <5> QED
          BY <2>2, <4>2
      <4> QED
        BY <4>1, <4>3
    <3>8. ReplyOf' = [ReplyOf EXCEPT ![c] = "ok"]
      BY <1>1, <3>5, TheOnlyClient DEF ReplyOf
    <3> QED
      BY <1>2, <2>1, <2>2, <3>6, <3>7, <3>8, ExpireShows
  <2> QED
    BY <1>17, <2>3, <2>4 DEF ExpireReads
<1>18. CASE DelRemoves(c)
  <2>1. /\ call[c].step = "remove" /\ now' = now /\ Return(c, "ok")
        /\ call'[c] = Idle
        /\ file' = [file EXCEPT ![Dir(c)][call[c].path] = Absent]
    BY <1>2, <1>18 DEF DelRemoves, Unlinked
  <2>2. key \in Keys /\ StoreOf = [k \in Keys |-> FileEntry(k)]
        /\ call[c].path = key[2].stem
    BY <1>15, <2>1
  <2>3. \A k \in Keys : FileEntry(k)' = IF k = key THEN Entry(Absent) ELSE FileEntry(k)
    BY <2>1, <2>2, EntryShows DEF Dir
  <2>4. Entry(Absent) = Abstract!NoEntry
    BY DEF Entry, Absent, Abstract!NoEntry
  <2>5. Plain'
    BY <1>1, <2>1 DEF Plain, Idle
  <2>6. ReplyOf' = [ReplyOf EXCEPT ![c] = "ok"]
    BY <1>1, <2>1, <2>5, ReplyShows
  <2>7. StoreOf' = [StoreOf EXCEPT ![key] = Abstract!NoEntry]
    BY <2>2, <2>3, <2>4, <2>5, PlainViewNext DEF SeenInFiles
  <2> QED
    BY <2>1, <2>2, <2>6, <2>7, DelShows
<1> QED
  BY <1>7, <1>9, <1>10, <1>11, <1>12, <1>13, <1>14, <1>16, <1>17, <1>18, <1>19
     DEF Step

\* Until a session is removed or the process dies, the store of a client that
\* is alone behaves like the map with timeouts of SessionStore, for any keys
\* whose files differ and any values, timeouts and lifetime: the marker, the
\* truncated file, the read before the write of expire() and a collector that
\* finds nothing to remove do not show (fs.rs, gc.rs).
THEOREM Refinement ==
  ASSUME OneClient, FilesDiffer PROVE Spec => ImplementsStore
<1>1. FsInv /\ QuietInv /\ [Next]_vars =>
        (quiet' => Abstract!Next \/ UNCHANGED Abstract!vars)
  <2> SUFFICES ASSUME FsInv, QuietInv, [Next]_vars, quiet'
               PROVE  Abstract!Next \/ UNCHANGED Abstract!vars
    OBVIOUS
  <2>1. CASE \E c \in Clients : Start(c) \/ Step(c)
    <3>1. quiet
      BY <2>1, OnlyClients
    <3> QED
      BY <2>1, <3>1, StepShows
  <2>2. CASE GcStep \/ UNCHANGED vars
    <3>1. UNCHANGED <<now, file, call, result>>
      BY <2>2 DEF GcStep, collect, GcReadRoot, GcReadMarker, GcReadDir, GcRemove,
           GcRemoveFails, GcRemoveDir, GcDone, vars
    <3>2. UNCHANGED <<StoreOf, ReplyOf>>
      BY <3>1 DEF StoreOf, ReplyOf, Stored, Expiring, Writing
    <3> QED
      BY <3>1, <3>2, SeenSame
  <2>3. CASE Tick
    <3>1. now' = now + 1 /\ UNCHANGED <<file, call, result>>
      BY <2>3 DEF Tick
    <3>2. Abstract!Tick
      BY <3>1 DEF Abstract!Tick, Stored, Expiring, Writing
    <3> QED
      BY <3>2 DEF Abstract!Next
  <2> QED
    BY <2>1, <2>2, <2>3 DEF Next, Crash
<1>2. OneAtATime
  BY TheOnlyClient
<1> QED
  BY <1>1, <1>2, InitQuiet, NextQuiet, InitShows, Invariance, PTL
     DEF Spec, ImplementsStore
=============================================================================
