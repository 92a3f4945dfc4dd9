---------------------------- MODULE FsSessionStore ----------------------------
(***************************************************************************)
(* The file system session store (carapax-session/src/store/fs.rs, with    *)
(* store/data.rs) and its garbage collector (gc.rs), over a file system    *)
(* shared by the handlers of concurrent dispatches. One action is one file *)
(* system operation: tokio_fs::write opens (and truncates) the file first  *)
(* and writes to it later; a file removed in between takes the write with  *)
(* it; two writers that both opened it write over each other.              *)
(*                                                                         *)
(* A namespace is a directory with a marker that holds its creation time.  *)
(* A key name is a stem and an extension, and with_extension("json") makes *)
(* the file name from the stem alone.                                      *)
(***************************************************************************)
EXTENDS Integers

CONSTANTS
  Clients,     \* concurrent users of the store
  Namespaces,
  Names,       \* key names, records with fields stem and ext
  Values,
  Seconds,     \* timeouts given to expire()
  Lifetime,    \* SessionLifetime::Duration in seconds, or Forever
  Forever,     \* SessionLifetime::Forever
  Checks,      \* the builds: TRUE checks integer overflow, FALSE wraps around
  Crashes,     \* the process may die
  Ops,         \* the operations each client uses
  MaxTime      \* bound: last second of the clock

Marker == ".__created"

Stems == {name.stem : name \in Names}

Keys == Namespaces \X Names

Never == -1

ASSUME StoreAssumption ==
  /\ Seconds \subseteq Nat
  /\ Lifetime \in Nat \cup {Forever}
  /\ Checks \subseteq BOOLEAN
  /\ Crashes \in BOOLEAN
  /\ Marker \notin Stems
  /\ Values \cap {"none", "ok", "error"} = {}
  /\ Ops \in [Clients -> SUBSET {"get", "set", "expire", "del"}]
  /\ MaxTime \in Nat

VARIABLES
  now,      \* SystemTime::now(), in seconds
  dirs,     \* namespaces that have a directory
  file,     \* what each file of each namespace holds
  call,     \* the operation each client is running
  result,   \* what its last operation returned
  gc,       \* the garbage collector
  born,     \* history: when each directory was made
  written,  \* history: pairs <<key, value>> given to set()
  quiet     \* history: no crash yet, and no session removed

vars == <<now, dirs, file, call, result, gc, born, written, quiet>>
history == <<born, written, quiet>>

\* Contents of a file. Empty and Corrupt are not JSON, nor a number.
Absent     == [is |-> "absent"]
Empty      == [is |-> "empty"]
Corrupt    == [is |-> "corrupt"]
Data(v, e) == [is |-> "data", value |-> v, expires_at |-> e]

Idle == [op |-> "idle", step |-> "idle"]

NoResult == [op |-> "none", key |-> "none", reply |-> "none"]

NoCollect ==
  [step |-> "waiting", now |-> 0, todo |-> {}, ns |-> "none", timestamp |-> 0,
   files |-> {}]

\* Stands for 2^64: larger than any time of the clock.
U64 == 65536

-----------------------------------------------------------------------------
(* store/data.rs                                                           *)

is_expired_early(data) == data.expires_at # Never /\ data.expires_at <= now

is_expired(data) == data.expires_at # Never /\ data.expires_at < now

set_lifetime(data, seconds) == Data(data.value, now + seconds)

-----------------------------------------------------------------------------
(* The clients: get, set, expire and del                                   *)

Dir(c)  == call[c].key[1]
File(c) == file[Dir(c)][call[c].path]

Return(c, r) ==
  result' = [result EXCEPT
    ![c] = [op |-> call[c].op, key |-> call[c].key, reply |-> r]]

\* What the others hold open of a file that is removed is lost.
Unlinked(ns, x) ==
  [c \in Clients |->
    IF call[c].step = "write" /\ Dir(c) = ns /\ call[c].path = x
    THEN [call[c] EXCEPT !.linked = FALSE]
    ELSE call[c]]

Finish(c, r) ==
  /\ call' = [call EXCEPT ![c] = Idle]
  /\ Return(c, r)

file_name_of_any(name) == CHOOSE stem \in Stems : TRUE

file_name(name) == name.stem

\* key_to_path is done: the operation proper starts.
WithPath(c) ==
  /\ call' = [call EXCEPT
       ![c].path = file_name(call[c].key[2]),
       ![c].step = CASE call[c].op = "set" -> "open"
                     [] call[c].op = "del" -> "remove"
                     [] OTHER -> "read"]
  /\ UNCHANGED result

Begin(c, op, key, v, s) ==
  /\ call' = [call EXCEPT ![c] =
       [op |-> op, key |-> key, step |-> "metadata", path |-> Marker,
        data |-> Data(v, Never), stamp |-> 0, seconds |-> s, old |-> Absent,
        linked |-> FALSE]]
  /\ written' = IF op = "set" THEN written \cup {<<key, v>>} ELSE written
  /\ UNCHANGED <<now, dirs, file, result, gc, born, quiet>>

\* Only the arguments an operation has are varied.
Start(c) ==
  /\ call[c] = Idle
  /\ \E op \in Ops[c], key \in Keys, v \in Values, s \in Seconds :
       /\ op # "set" => v = CHOOSE w \in Values : TRUE
       /\ op # "expire" => s = CHOOSE t \in Seconds : TRUE
       /\ Begin(c, op, key, v, s)

Metadata_no_marker(c) ==
  /\ call[c].step = "metadata"
  /\ dirs' = dirs \cup {Dir(c)}
  /\ WithPath(c)
  /\ UNCHANGED <<now, file, gc, history>>

\* key_to_path: the directory is there, or it has to be made.
Metadata(c) ==
  /\ call[c].step = "metadata"
  /\ \/ Dir(c) \in dirs /\ WithPath(c)
     \/ /\ Dir(c) \notin dirs
        /\ call' = [call EXCEPT ![c].step = "create_dir"]
        /\ UNCHANGED result
  /\ UNCHANGED <<now, dirs, file, gc, history>>

\* create_dir_all, which does not mind a directory that is there.
CreateDir(c) ==
  /\ call[c].step = "create_dir"
  /\ dirs' = dirs \cup {Dir(c)}
  /\ born' = IF Dir(c) \in dirs THEN born ELSE [born EXCEPT ![Dir(c)] = now]
  /\ call' = [call EXCEPT ![c].step = "marker_time"]
  /\ UNCHANGED <<now, file, result, gc, written, quiet>>

\* The time for the marker, which may be later than that of the directory.
MarkerTime(c) ==
  /\ call[c].step = "marker_time"
  /\ call' = [call EXCEPT ![c].step = "open", ![c].stamp = now]
  /\ UNCHANGED <<now, dirs, file, result, gc, history>>

\* fs::write, of the marker or of a value: create or truncate the file.
Open(c) ==
  /\ call[c].step = "open"
  /\ \/ /\ Dir(c) \in dirs
        /\ file' = [file EXCEPT ![Dir(c)][call[c].path] = Empty]
        /\ call' = [call EXCEPT ![c].step = "write", ![c].linked = TRUE,
                               ![c].old = File(c)]
        /\ UNCHANGED result
     \/ Dir(c) \notin dirs /\ Finish(c, "error") /\ UNCHANGED file
  /\ UNCHANGED <<now, dirs, gc, history>>

\* fs::write: the bytes, at the start of the file. Of a longer content that
\* another writer put there the end stays; times have all the same length.
WriteMarker(c) ==
  /\ call[c].step = "write"
  /\ call[c].path = Marker
  /\ file' = IF call[c].linked
             THEN [file EXCEPT ![Dir(c)][Marker] = Data(call[c].stamp, Never)]
             ELSE file
  /\ call' = [call EXCEPT ![c].step = "metadata_again"]
  /\ UNCHANGED <<now, dirs, result, gc, history>>

WriteValue(c) ==
  /\ call[c].step = "write"
  /\ call[c].path # Marker
  /\ \E content \in {call[c].data} \cup
         (IF File(c) = Empty THEN {} ELSE {Corrupt}) :
       file' = IF call[c].linked
               THEN [file EXCEPT ![Dir(c)][call[c].path] = content]
               ELSE file
  /\ Finish(c, "ok")
  /\ UNCHANGED <<now, dirs, gc, history>>

MetadataAgain(c) ==
  /\ call[c].step = "metadata_again"
  /\ IF Dir(c) \in dirs THEN WithPath(c) ELSE Finish(c, "error")
  /\ UNCHANGED <<now, dirs, file, gc, history>>

GetReads(c) ==
  /\ call[c].step = "read"
  /\ call[c].op = "get"
  /\ Finish(c, CASE File(c).is = "absent" -> "none"
                 [] File(c).is = "data" ->
                      IF is_expired(File(c)) THEN "none" ELSE File(c).value
                 [] OTHER -> "error")
  /\ UNCHANGED <<now, dirs, file, gc, history>>

ExpireReads(c) ==
  /\ call[c].step = "read"
  /\ call[c].op = "expire"
  /\ \/ /\ File(c).is = "data"
        /\ call' = [call EXCEPT ![c].step = "open",
                  ![c].data = set_lifetime(File(c), call[c].seconds)]
        /\ UNCHANGED result
     \/ File(c).is # "data" /\ Finish(c, "error")
  /\ UNCHANGED <<now, dirs, file, gc, history>>

DelRemoves(c) ==
  /\ call[c].step = "remove"
  /\ file' = [file EXCEPT ![Dir(c)][call[c].path] = Absent]
  /\ call' = [Unlinked(Dir(c), call[c].path) EXCEPT ![c] = Idle]
  /\ Return(c, "ok")
  /\ UNCHANGED <<now, dirs, gc, history>>

-----------------------------------------------------------------------------
(* The garbage collector: spawn_gc calls collect() at each interval; an    *)
(* error ends the collect and is logged.                                   *)

collect ==
  /\ gc.step = "waiting"
  /\ Lifetime # Forever
  /\ gc' = [gc EXCEPT !.step = "read_root", !.now = now]
  /\ UNCHANGED <<now, dirs, file, call, result, history>>

GcReadRoot ==
  /\ gc.step = "read_root"
  /\ gc' = [gc EXCEPT !.step = "next", !.todo = dirs]
  /\ UNCHANGED <<now, dirs, file, call, result, history>>

\* now - timestamp >= lifetime, on unsigned integers.
is_old_too_soon(stamp) == (gc.now + 1 - stamp) % U64 >= Lifetime

is_old(stamp) == (gc.now - stamp) % U64 >= Lifetime

GcReadMarker ==
  /\ gc.step = "next"
  /\ \E ns \in gc.todo, checks \in Checks :
       LET marker == file[ns][Marker]
       IN  gc' = IF marker.is # "data" THEN NoCollect
                 ELSE IF checks /\ marker.value > gc.now
                   THEN [NoCollect EXCEPT !.step = "panicked"]
                 ELSE IF is_old(marker.value)
                   THEN [gc EXCEPT !.step = "read_dir", !.ns = ns,
                                   !.timestamp = marker.value]
                 ELSE [gc EXCEPT !.todo = @ \ {ns}]
  /\ UNCHANGED <<now, dirs, file, call, result, history>>

GcReadDir ==
  /\ gc.step = "read_dir"
  /\ gc' = [gc EXCEPT !.step = "remove",
              !.files = {x \in Stems \cup {Marker} : file[gc.ns][x] # Absent}]
  /\ UNCHANGED <<now, dirs, file, call, result, history>>

GcRemove(x) ==
  /\ gc.step = "remove"
  /\ x \in gc.files
  /\ file[gc.ns][x] # Absent
  /\ file' = [file EXCEPT ![gc.ns][x] = Absent]
  /\ call' = Unlinked(gc.ns, x)
  /\ gc' = [gc EXCEPT !.files = @ \ {x}]
  /\ quiet' = FALSE
  /\ UNCHANGED <<now, dirs, result, born, written>>

GcRemoveFails ==
  /\ gc.step = "remove"
  /\ \E x \in gc.files : file[gc.ns][x] = Absent
  /\ gc' = NoCollect
  /\ UNCHANGED <<now, dirs, file, call, result, history>>

GcRemoveDir_forced ==
  /\ gc.step = "remove"
  /\ gc.files = {}
  /\ dirs' = dirs \ {gc.ns}
  /\ gc' = [gc EXCEPT !.step = "next", !.todo = @ \ {gc.ns}]
  /\ UNCHANGED <<now, file, call, result, history>>

\* remove_dir fails when there is a file again.
GcRemoveDir ==
  /\ gc.step = "remove"
  /\ gc.files = {}
  /\ \/ /\ \A x \in Stems \cup {Marker} : file[gc.ns][x] = Absent
        /\ dirs' = dirs \ {gc.ns}
        /\ gc' = [gc EXCEPT !.step = "next", !.todo = @ \ {gc.ns}]
     \/ /\ \E x \in Stems \cup {Marker} : file[gc.ns][x] # Absent
        /\ gc' = NoCollect
        /\ UNCHANGED dirs
  /\ UNCHANGED <<now, file, call, result, history>>

GcDone ==
  /\ gc.step = "next"
  /\ gc.todo = {}
  /\ gc' = NoCollect
  /\ UNCHANGED <<now, dirs, file, call, result, history>>

-----------------------------------------------------------------------------

Tick ==
  /\ now < MaxTime
  /\ now' = now + 1
  /\ UNCHANGED <<dirs, file, call, result, gc, history>>

\* The process dies and is started again; the files stay as they are.
Crash ==
  /\ Crashes
  /\ call' = [c \in Clients |-> Idle]
  /\ gc' = NoCollect
  /\ quiet' = FALSE
  /\ UNCHANGED <<now, dirs, file, result, born, written>>

Init ==
  /\ now = 0
  /\ dirs = {}
  /\ file = [ns \in Namespaces |-> [x \in Stems \cup {Marker} |-> Absent]]
  /\ call = [c \in Clients |-> Idle]
  /\ result = [c \in Clients |-> NoResult]
  /\ gc = NoCollect
  /\ born = [ns \in Namespaces |-> 0]
  /\ written = {}
  /\ quiet = TRUE

Step(c) ==
  \/ Metadata(c)
  \/ CreateDir(c)
  \/ MarkerTime(c)
  \/ Open(c)
  \/ WriteMarker(c)
  \/ WriteValue(c)
  \/ MetadataAgain(c)
  \/ GetReads(c)
  \/ ExpireReads(c)
  \/ DelRemoves(c)

GcStep ==
  \/ collect
  \/ GcReadRoot
  \/ GcReadMarker
  \/ GcReadDir
  \/ \E x \in Stems \cup {Marker} : GcRemove(x)
  \/ GcRemoveFails
  \/ GcRemoveDir
  \/ GcDone

Next ==
  \/ \E c \in Clients : Start(c) \/ Step(c)
  \/ GcStep
  \/ Tick
  \/ Crash

Spec == Init /\ [][Next]_vars

\* The runtime drives every operation that was started, the interval of the
\* garbage collector keeps firing, and time passes.
FairSpec ==
  /\ Spec
  /\ \A c \in Clients : WF_vars(Step(c))
  /\ WF_vars(GcStep)
  /\ WF_vars(Tick)

-----------------------------------------------------------------------------
(* Properties                                                              *)

TypeOK ==
  /\ now \in 0 .. MaxTime
  /\ dirs \subseteq Namespaces
  /\ \A ns \in Namespaces, x \in Stems \cup {Marker} :
       /\ file[ns][x].is \in {"absent", "empty", "corrupt", "data"}
       /\ file[ns][x] # Absent => ns \in dirs
  /\ \A c \in Clients :
       /\ call[c].op \in Ops[c] \cup {"idle"}
       /\ result[c].reply \in Values \cup {"none", "ok", "error"}
  /\ gc.todo \subseteq Namespaces
  /\ gc.files \subseteq Stems \cup {Marker}
  /\ written \subseteq Keys \X Values

\* Was set() given this value for a name with this stem?
WrittenTo(ns, stem, v) ==
  \E name \in Names : name.stem = stem /\ <<<<ns, name>>, v>> \in written

\* get() returns only a value that set() was given for the same key, or for
\* one that with_extension leaves the same file (fs.rs, key_to_path), however
\* the operations of several dispatches, the collector and crashes mix.
OnlyWritten ==
  \A c \in Clients :
    result[c].reply \in Values =>
      WrittenTo(result[c].key[1], result[c].key[2].stem, result[c].reply)

\* The collector removes files only of sessions whose directory is at least
\* Lifetime old, unless it read a marker later than its clock, whose age wraps
\* around in a build without overflow checks (fs.rs, collect). The marker may
\* be later although the directory is not: its time is taken after the
\* directory is made (key_to_path). For one client at a time: of two that make
\* a session at once, one may write its marker much later, to the directory of
\* the next session.
YoungKept ==
  [][\A x \in Stems \cup {Marker} :
       GcRemove(x) =>
         \/ now - born[gc.ns] >= Lifetime
         \/ FALSE \in Checks /\ gc.timestamp > gc.now]_vars

\* A directory that is in use gets its marker: without it no collect gets
\* past the directory.
MarkerWritten ==
  \A ns \in Namespaces : ns \in dirs ~> file[ns][Marker].is = "data"

TheClient == CHOOSE c \in Clients : TRUE

Entry(content) ==
  IF content.is = "data"
  THEN [value |-> content.value, expires_at |-> content.expires_at]
  ELSE [value |-> "none", expires_at |-> Never]

Writing ==
  /\ call[TheClient].step \in {"open", "write"}
  /\ call[TheClient].path # Marker

Expiring == Writing /\ call[TheClient].op = "expire"

\* The entry of a key, for one client: expire() takes effect when it reads
\* the file and the clock, set() when it has written the file.
Stored(key) ==
  CASE Expiring /\ call[TheClient].key = key -> Entry(call[TheClient].data)
    [] Writing /\ ~Expiring /\ call[TheClient].step = "write"
         /\ call[TheClient].key = key -> Entry(call[TheClient].old)
    [] OTHER -> Entry(file[key[1]][file_name(key[2])])

Abstract == INSTANCE SessionStore WITH
  store <- [key \in Keys |-> Stored(key)],
  clock <- now,
  reply <- [c \in Clients |-> IF Expiring THEN "ok" ELSE result[c].reply],
  Delay <- 0,
  Ends  <- FALSE,
  Fails <- FALSE

\* Operations that do not overlap behave like a map with timeouts until a
\* session is removed or the process dies: the marker, the truncated file, the
\* read before the write of expire() and a collector that finds nothing to
\* remove do not show.
ImplementsStore ==
  /\ Abstract!Init
  /\ [][quiet' => [Abstract!Next]_Abstract!vars]_vars

=============================================================================
