# Verification of tg-rs

TLA+ models of tg-rs, TLC runs that check them on small instances, and TLAPS
proofs of what matters most for every value of the constants. Paths are
relative to `src/` of the repository; a definition keeps the name of the code
it stands for where TLA+ allows it. `PROJECT.json` gives the lines of each
definition, the hazards of the code at their lines, and the properties that
cover them.

## The system

| part | code | state | operations |
|---|---|---|---|
| Long polling | `tgbot/src/handler/poll.rs`, `mod.rs` | `State` (buffered, running, idling), options with the offset, `should_retry` | `poll`, `new`, `options`, `should_retry`, `handle_updates` |
| Webhook | `tgbot/src/handler/webhook.rs` | path, bounded queue, processor | `make_service`, `call`, `put_on_a_queue`, the processor |
| Dispatcher | `carapax/src/dispatcher.rs`, `app.rs`, `handler/mod.rs` | handlers, error strategy; per update a queue position, a handler future, a context | `handle`, `DispatcherFuture::poll`, `HandlerWrapper::handle` |
| File system sessions | `carapax-session/src/store/fs.rs`, `data.rs`, `gc.rs` | directories with a marker, JSON files, lifetime | `get`, `set`, `expire`, `del`, `collect`, `spawn_gc` |
| Redis sessions | `carapax-session/src/store/redis.rs` | hashes in Redis | the same, by HGET, HSET, HLEN, EXPIRE, HDEL |
| Handlers | `carapax-access`, `carapax-ratelimit`, `carapax-session`, `carapax-i18n`, `carapax/src/handler` | rules; budgets; a store; translators; commands | one `handle` each, over a shared `Context` |
| Updates | `tgbot/src/types/update.rs`, `types/message`, `types/chat` | none | JSON to `Update`, `Message`, `Text`, `Chat`; `get_user`, `get_chat_id` |
| Requests | `tgbot/src/methods`, `types`, `request`, `executor`, `api.rs` | a builder per call | 64 methods with their setters, media groups, inline results, keyboards, passport errors; `Api::execute` |

How they interact. Telegram gives updates either in answers to `getUpdates`
or by requests to the webhook. Both sources parse JSON and call
`UpdateHandler::handle`; in a carapax `App` that is `Dispatcher::handle`, which
calls the first handler in the caller's task and spawns the rest of the
dispatch. Handlers of concurrent dispatches share what they are built from:
the limiter, the session store and the `Api`. The garbage collector of the
file store is a task of its own over the same files. A handler calls methods of
the Bot API, each of which becomes one HTTP request.

What is hard: calls that fail before or after Telegram has acted on them,
requests of a dead process that arrive late, a process death at any step,
handlers that panic, dispatches that interleave, file operations or Redis
commands of several clients and a collector that mix, full queues, offsets in
UTF-16 units that cut a text, and facts that are written down twice by hand
(names of attachments, tags and keys of variants, kinds of passport elements).

## Modules

**UpdateDelivery** is the promise of long polling: updates in order, none
skipped, Telegram forgets only what the handler was given.

**UpdatesStream** is long polling. An action is one turn of the loop in
`Stream::poll` (`SendRequest`, `GotUpdates`, `GotErrorRetry`, `GotErrorEnd`,
`YieldUpdate`, `BufferDrained`, `DelayElapsed`, `DelayFails`), one call of the handler
(`HandleUpdate`, the step of `for_each` between two polls), or a step of the
outside: Telegram creates an update, answers, floods, or the call fails with
or without Telegram having acted on it; time passes; `Restart` kills the
process at any point and makes a new stream, while a request it had sent may
still arrive (`LateRequest`). Updates are identified by their position, a batch
is what `getUpdates` documents, a timer that fails ends the stream for good
("Timer errors are unrecoverable"), and one update that cannot be deserialized
spoils its whole answer, as `Api::execute` parses it at once.

**Webhook** is the hyper service: connections, the four refusals (405, 404,
400, 500), the bounded queue, the processor that calls the handler one update
at a time and dies with it when it panics. Telegram posts an update until it is
answered 200, possibly over several connections; connections break at any
point; the process dies.

**Dispatcher** is `Dispatcher::handle` and `DispatcherFuture::poll` for any
number of updates at a time, one action per arm of the match. Handlers are the
bot's code: they accept an update or not (`HandlerWrapper`), resolve at any
time to Continue, Stop or an error, or panic in the call or in the future.

**BotApp** composes UpdatesStream and Dispatcher as `App::run` does: each
module is used as it is, `Deliver` and `DeliverPanics` are the steps they take
together (`for_each` calling `Dispatcher::handle`), every other step belongs to
one of them. For the stream an update is handled when its dispatch is spawned;
a process that dies afterwards loses the dispatch, and nothing in the code
promises more.

**SessionStore** is the trait as a map with timeouts, with a reply per client.
The trait says of a value whose time is over that it is deleted; here it is
hidden, which is what both stores do. A constant each says how long a timeout
may be late, whether sessions may end and whether calls may fail, since the two
stores differ there; a call that fails may have had its effect or not.

**FsSessionStore** is the store on files, one action per file operation.
`Metadata`, `CreateDir`, `MarkerTime`, `Open`, `WriteMarker`, `MetadataAgain`
are `key_to_path`, which makes the directory before it reads the clock for the
marker; `Open` and `WriteValue` are `fs::write`, which truncates before
it writes; `GetReads`, `ExpireReads`, `DelRemoves` are the operations; the
`Gc*` actions are `collect`. A file that is removed while it is open takes the
pending write with it; two writers that both opened a file may leave a mixture
(`Corrupt`). The subtraction of times wraps or panics as the build decides
(`Checks`). A key name is a stem and an extension, of which the file name
keeps the stem.

**RedisSessionStore** is the store on Redis, one action per command: `Get` and
`Del` are whole operations; `SetHlen`, `SetHset`, `SetExpire` are `set`, and
`ExpireHget`, `ExpireHset` are `expire`. A call may fail at any command,
the first and the last included, before Redis has run it (`Fail`) or after it
(`Fail` at the next command, `Answers` of the last); Redis ends a hash at its
deadline (`Ended`).

**TelegramUpdate** is what tgbot makes of the JSON of an update, as operators:
whether it parses (`UpdateParses`) and what it becomes (`Update`). It holds
every hand-written conversion: the order of data fields in
`Message::from_raw`, captions and their entities, forward fields, chats by
type, texts as sequences of UTF-16 units with `Text::parse` and its bounds, whose sum
wraps around, or panics (`UpdateOverflows`).

**UpdateHandlers** EXTENDS it with the handlers that come with carapax, in the
order a bot chains them: `Access`, `Limit`, `Session`, `I18n`, `Commands`,
`TextHandler`, one action per `handle`; `Receive`
and `ReceivePanics` are the parsing before them. A bot is a configuration (rules,
limit, translators, commands) with the updates it gets. The limiter is a budget
per key that a quiet period fills again.

**BotMethods**, **RequestObjects**, **RequestForms** and **PassportElements**
are the data that requests are made of, as operators: what each of the 64
methods' constructors and setters give, the objects of inline mode and
keyboards, forms with uploaded files, and the elements of Telegram Passport
with the errors about them.

**ApiClient** EXTENDS them with one call from beginning to end: the caller
builds an object, a media group or a passport error (`NewObject`, `SetKey`,
`StartGroup`, `AddItem`, `AddItemWithThumb`, `ReportError`), then the method with
its setters (`Construct`, `Setter`, `EditMedia`, `SendGroup`, `UseObject`),
`Execute` makes and sends the request, Telegram answers, refuses, returns
garbage or nothing (`Answer`, `Lost`), and `Receive` is `Response::deserialize`
and the rest of `Api::execute`.

The MC modules give the constants values; the Proofs modules hold the theorems.

## Runs

| run | instance | shows |
|---|---|---|
| polling | 3 updates, limits 2 and 1, waits 0 and 2, the handler may panic on the third, fair | NoGap, ConfirmedHandled, NoRedelivery, FloodRespected, StreamInv (the inductive invariant), UpdateDelivery is implemented; EventuallyHandled: a stream that retries hands over every update before the third once the process stops dying, unless the timer of a delay fails |
| polling_unparsable | 2 updates, the second is bad, fair | violated: the good update before it is never handed over |
| bot_app | 2 updates, 1 handler that may refuse, fail, panic or never answer, both strategies, fair | ConfirmedBegun, BegunInOrder, OneDispatch, PollingSurvives, AppInv; DeliveryGoesOn: no dispatch holds up delivery |
| dispatcher | 2 updates, 3 handlers, every combination of accepted updates, one update whose handlers may never answer, fair | Gated, Accounted, PanicContained, DispatchInv; Independent: the other dispatch ends all the same |
| webhook | 2 updates, 2 connections, queue of 2, the handler may panic on either, fair | AckedKept, OrderKept, WebhookInv; EventuallyHandled: when connections and process stay up and the processor is alive time and again, every update is handled, or was lost with a processor that died |
| fs_store | 2 clients, one sets and the other reads, expires and deletes; 3 key names, two with a common stem; time stands still; fair | OnlyWritten, MarkerWritten |
| fs_collect | 1 client with every operation, timeouts 0 and 1, the collector, crashes, both builds, a lifetime of 2, seconds 0 to 3 | TypeOK, YoungKept, and SessionStore is implemented until a session is removed or the process dies |
| fs_orphan | 1 client, fair | violated: a directory without marker is never removed |
| redis_store | 2 clients with every operation, 2 key names, 2 seconds | TypeOK, LifetimeKept, NotCutShort, and SessionStore is implemented but for the write-back of expire() |
| update_handlers | 4 bots: one gets updates of every kind with every data field, every set of forward fields and a command at every place of a text; three use up the budgets of users, chats and a list | TypeOK, OnlyPollsPanic, SessionsSeparate, BudgetsSeparate, ArgumentsWhole |
| requests | every method with up to two setters, media groups of 1 to 4 items of uploaded and linked files and thumbs, every object with up to two setters, every passport element with every error | AnswerRead, AttachmentsResolve, ErrorsMatchElements, ReadAsMeant |
| requests_administrators | administrators with the rights of their kind of chat | violated: getChatMember and getChatAdministrators fail |

Bounds. Three updates are the least for which a batch is cut by a limit, a
second batch follows and something is left for a crash to lose; two waits tell
"at once" from "later". Two connections and a queue of two make senders wait,
since an update may be posted again after its connection broke. Two updates and
one handler let one dispatch run while the next update is fetched in bot_app;
what several handlers of a dispatch do to each other is in the run dispatcher,
where two dispatches show every pairwise interleaving and share nothing but
`alive`. Two clients and one namespace have every race over one directory or
hash; a second namespace only adds independent files. In fs_store one client
writes and the other does the rest, which has each race of two operations but
that of two set() calls, and those of the collector are in fs_collect with one
client: what both leave out is in the proofs, which are for any number of
clients. In fs_collect a lifetime of 2 and the seconds 0 to 3
let a session grow old and a new one be young, and let the marker of a session
that is still young be later than the collector's clock; in redis_store the clock has one tick, enough for a hash to end
while a call is under way and to be made again. Two setters show every pair of
fields of a builder; setters only assign, so a third has nothing to meet (the proofs have any
number).
A media group takes 2 to 3 items here, 2 to 10 in the code: groups of 1 to 4 have
the least, the most, too few and too many.
`USize` of 2^8 stands for 2^64 and `U64` of 2^16 for 2^64 of the clock: both are
only compared with lengths and times that are far smaller.

Deadlock is checked except for the dispatcher, which is done when every
update is.

## Fairness

Polling: the executor polls a woken task (`WF` on `Poll`), time passes, and a
server that is asked for ever answers once (`SF` on `ServerAnswers`); the
property assumes that the process dies finitely often. Webhook: the executor
runs connections and processor, senders that wait for the queue are woken in
turn (`SF` on `Send`), and Telegram keeps posting what was not accepted; again
crashes and disconnections end. BotApp: as for polling, and nothing is assumed
of dispatches and handlers. Dispatcher: spawned tasks are polled, and handlers
resolve except for the updates in `Stuck`. File store: started operations go
on, the collector's interval keeps firing, time passes. The other modules
state safety only: a Redis or HTTP call may take for ever, and the code sets no
timeout for either.

## Proofs

All are for every value of the constants, under the named assumptions beside
them, which TLC evaluates as well.

- `UpdatesStreamProofs`: `StreamInv` is inductive (`Invariance`). It says where
  the updates between the server and the handler are: a running call asks from
  `offset + 1`, answer and buffer are consecutive and start right after what was
  handed over, a late request asks for nothing beyond what is handled. NoGap and
  ConfirmedHandled are not inductive without it, since the step that breaks
  them is taken long after the one that built the wrong request. `NeverSkips`,
  `NeverLoses`, `NeverRepeats`, `WaitsOutFloods` follow, and `Refinement`:
  every step is a step of UpdateDelivery or a stutter.
- `BotAppProofs`: every step of the App is a step of its stream or a stutter
  (`AppIsItsStream`), so StreamInv carries over; `Linked` adds that what the
  stream counts as handled is what was spawned and that dispatched and given
  updates are the same. It is assumed that any update may make the first handler
  panic (`AppAssumption`). ConfirmedBegun alone is not inductive: that an update
  was spawned is known at the hand-over, that it is confirmed only calls later.
- `DispatcherProofs`: `DispatchInv` relates the history of a dispatch to its
  queue position and future; `HandlersAreGated` follows: no handler runs after
  one that stopped the update, for any number of handlers; and
  `DispatchesAreAccounted` and `PanicsAreContained`, the second by adding that
  the dispatch which ended delivery takes no more steps.
- `WebhookProofs`: `WebhookInv` says that a 200 is pending or received only for
  updates that are safe (handled, queued or known lost) and that ahead of
  every queued update is all that was acknowledged when it was first posted;
  `AcknowledgedIsKept` and `OrderIsKept` follow.
- `FsSessionStoreProofs`: `FsInv` says that every file is in a directory that is
  there, that a file a client has open and nobody removed is there, and that a
  value in a file, or in the hands of a client about to write it, was given to
  set() for a name with that stem. The last part is what makes
  `ReadsAreWritten` (OnlyWritten) inductive: expire() carries a value from a read
  to a write that may be many steps of others later. `TypeCorrect` needs
  all of it for "no file without its directory". `YoungSessionsStay` (YoungKept)
  adds `AgeInv`: the time in a marker is not earlier than that of the directory,
  and a session the collector is about to remove is old, or its marker is later
  than the collector's clock. It assumes one client (`OneAtATime`), because with two it is false
  (see below). `Refinement` (ImplementsStore): for one client, every file
  operation is a step of SessionStore or a stutter until a session is removed or
  the process dies. `QuietInv` says what a call may rely on until then: its
  directory stays, a file it opened is its own and empty, every other file of a
  key has a whole value, and the collector finds the marker before it removes
  anything. The map is not always in the files: from the truncation to the write
  it is in the call, and from the read of expire() on the answer is known. The
  proof has a lemma for each of the two and shows the one operation that is
  seen per call. Besides `OneClient` it assumes that no two key names share a
  file (`FilesDiffer`): without either the code does not implement the map (see
  below).
- `RedisSessionStoreProofs`: `RedisInv` bounds what calls under way hold and
  says that a hash with a deadline got it after it was made. From it
  `NeverCutShort`, `LifetimesAreKept` (of a hash without deadline some set() has
  still to send EXPIRE, or it is in `untimed`) and `Refinement`: every command
  is a step of SessionStore, a stutter, or the write-back of expire() over a
  changed value, for any number of clients.
- `UpdateHandlersProofs`: `HandlersInv` says that what is in the Context was
  made from the update under way, and that whoever used a budget had a parsed
  update with that key. `SessionsAreSeparate` rests on a lemma that the names
  of sessions differ (`NamesDiffer`), by the four shapes that signs give a name;
  it assumes that ids are integers (`IntegerIds`). `BudgetsAreSeparate`
  assumes that a username belongs to one chat or user (`NamesAreUnique`), as
  Telegram has it. `OnlyPollsMayPanic` and `ArgumentsAreWhole` follow an update
  through TelegramUpdate: the kind that was chosen is a field that is there and
  has parsed, its first command was read from the very text that get_text finds,
  within its bounds, and so a command that is not empty ends where a character
  does and the rest of the text starts there. They assume of texts and entities
  what JSON and Telegram guarantee (`TextsFit`: halves of surrogate pairs stand
  next to each other, texts are shorter than half of usize, offsets and
  lengths are integers of any sign). "The first that is there" is a minimum,
  which the lemma `LeastOne` takes from the well-foundedness of `<`.
- `ApiClientProofs`: `StageInv` is the order of a call (`Stages`): no draft,
  request or reply before its time and nothing left of the call before. On top
  of it, one invariant per property:
  - `AttachmentsAreFound` (AttachmentsResolve) for groups of any size and bounds:
    a group that has counted n files has given out the names of the numbers
    below n only, each to one file, so a name that is added hides none. It
    assumes that different numbers are formatted differently, and unlike any
    text field (`NumbersDiffer`), since TLA+ defines no decimal notation.
  - `ErrorsAreAboutFields` (ErrorsMatchElements): the constructors of error.rs and
    the fields of element.rs agree, row by row, whatever fields arrived.
  - `ObjectsAreReadAsMeant` (ReadAsMeant) for any number of setters: what a struct
    requires is there from its constructor on, and of two structs with one tag
    where the first may come to have all that the second requires, the first
    requires more (`ToldApart`). The run has two setters only.
  - `AnswersReachTheCaller` (AnswerRead): for every method, constructor and
    setter the Response type reads what Telegram documents as the answer. It
    assumes `RightsSent \subseteq {"all"}`, that administrators come with every
    right; otherwise it is false, which requests_administrators shows.

Only model-checked: liveness (EventuallyHandled, DeliveryGoesOn, Independent,
MarkerWritten), which TLAPS does not cover under fairness. ToString and
SelectSeq are opaque to the prover: the first is assumed to tell numbers apart
as above, the second counts quotes in `QuotesMatch`, which no proof looks into.
For several clients neither ImplementsStore nor YoungKept of the file store
holds, so there is nothing more to prove of them.

## Where code and docs disagree

Three have a run that ends in a counterexample: `polling_unparsable`,
`fs_orphan`, `requests_administrators`. Others were met while modelling, and the
properties name them as exceptions or the model shows them:

- `UpdatesStream::options` does not reach the first request (`poll.rs:115`);
  `error_timeout` is never read (`poll.rs:60`).
- The context of an update is not destroyed when the next one is processed
  (`handler/mod.rs:35`): dispatches are concurrent (`dispatcher.rs:43`).
- expire() of either store writes back what it read and so undoes a set() or
  del() in between (`fs.rs:146`, `redis.rs:163`; the exception in
  ImplementsStore of RedisSessionStore); a later expire() shows a value again
  whose time was over, which `store/mod.rs:37` says is deleted.
- `get()` of a file being written fails (`fs.rs:133`), and key names with the
  same stem share a file (`fs.rs:68`; the exception in OnlyWritten).
- A session whose marker is later than the clock that collect() read has a
  negative age: with overflow checks the collector panics, without them it
  removes the session (`fs.rs:181`; the exception in YoungKept). The time of the
  marker is read after the directory is made (`fs.rs:76`, `fs.rs:79`), so the
  directory itself need not be later than that clock. Of two clients that make a session
  at once, one may write its marker, with its earlier time, to the directory of
  the next session (`fs.rs:84`), which then looks old.
- The first set() of two clients, or one that fails after HSET, leaves a hash
  without a lifetime (`redis.rs:115`; the exceptions in LifetimeKept).
- A poll update panics in the session handler (`session.rs:104`; the exception in
  OnlyPollsPanic), and a negative length of an entity passes the bounds check
  and makes the sum in `command.rs:86` overflow. A length near the largest i64
  makes the sum in `text.rs:35` overflow: the update is rejected, or the task
  that parses it panics.
- An animation with a thumb writes two keys `thumb` into one object
  (`input_media/animation.rs:31`; the exception in AttachmentsResolve).

## Not modelled

- `Config`, proxies, TLS and `Api::spawn`: values handed to hyper and tokio once.
- The libraries: hyper's connections, the queue behind the webhook (a bounded
  queue here), the GCRA algorithm of the rate limiter (a budget per period),
  gettext, regex (a pattern is the set of texts it matches), shellwords (whether
  quotes match), Redis (its commands), and `anymap` behind `Context`.
- Structs whose conversion serde derives, and fields nothing looks at: they have
  no control flow. The accessors and conversions of the types that are only
  read are therefore partly covered.
- I/O errors of the file system other than a missing file or directory.
- The webhook as the source of a BotApp: Webhook has its handler take an update
  or panic, which is what `Dispatcher::handle` does to its caller.
- What a panic in parsing (`ReceivePanics`) does to long polling or to a
  connection of the webhook: there an update that cannot be read is refused,
  and `Restart` or `Disconnect` may come at any step.
- A key function or a policy of the user's own: any handler of Dispatcher.
- Telegram lowering its update identifiers after a week, and a negative
  `retry_after` (`poll.rs:58`): the server sends neither here.
- Examples and prelude.
