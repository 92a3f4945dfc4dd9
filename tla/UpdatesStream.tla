---------------------------- MODULE UpdatesStream ----------------------------
(***************************************************************************)
(* Long polling: tgbot/src/handler/poll.rs, driven by handle_updates() of  *)
(* tgbot/src/handler/mod.rs, calling getUpdates of the Telegram server.    *)
(*                                                                         *)
(* One action is one turn of the loop in Stream::poll, one step of the     *)
(* for_each() that drives it, or one step of the server and the network,   *)
(* which are external and modelled from the doc comments of GetUpdates     *)
(* (tgbot/src/methods/updates.rs): an update is identified by its position *)
(* in the sequence of all updates, a call with offset o forgets the        *)
(* updates below o and returns the next ones. Durations count Ticks.       *)
(***************************************************************************)
EXTENDS Integers, Sequences

CONSTANTS
  MaxUpdates,           \* bound: updates Telegram creates
  DefaultLimit,         \* DEFAULT_LIMIT
  DefaultErrorTimeout,  \* DEFAULT_ERROR_TIMEOUT
  Limit,                \* limit given to UpdatesStream::options
  RetryAfters,          \* values of retry_after Telegram may answer with
  Unparsable,           \* updates the library cannot deserialize
  Poison                \* updates on which UpdateHandler::handle may panic

ASSUME StreamAssumption ==
  /\ MaxUpdates \in Nat
  /\ DefaultLimit \in Nat \ {0}
  /\ DefaultErrorTimeout \in Nat
  /\ Limit \in Nat \ {0}
  /\ RetryAfters \subseteq Nat
  /\ Unparsable \subseteq Nat
  /\ Poison \subseteq Nat

VARIABLES
  created,      \* Telegram: identifier of the newest update
  confirmed,    \* Telegram: updates 1 .. confirmed are forgotten
  late,         \* requests of processes that died, still on the network
  state,        \* UpdatesStream.state; "Ended" and "TimerFailed" when
                \* nobody polls it again
  buffered,     \* the queue of State::BufferedResults
  taken,        \* update poll() returned, not yet given to the handler, or 0
  request,      \* the getUpdates call inside State::Running
  wire,         \* how far that call has got
  answer,       \* what it resolved to
  idle,         \* ticks left in State::Idling
  offset,       \* options.offset
  shouldRetry,  \* UpdatesStream.should_retry
  retryIn,      \* history: ticks Telegram still wants this process to wait
  given,        \* history: updates this process gave its handler
  handled       \* history: updates some handler took without a panic

serverVars == <<created, confirmed, late>>
streamVars == <<state, buffered, taken, idle, offset, shouldRetry>>
callVars   == <<request, wire, answer>>
history    == <<retryIn, given, handled>>
vars == <<serverVars, streamVars, callVars, history>>

Larger(a, b)  == IF a >= b THEN a ELSE b
Smaller(a, b) == IF a <= b THEN a ELSE b

\* The answers a call can resolve to: a list of updates, an error that
\* carries retry_after, and every other error.
NoAnswer       == [kind |-> "none", ids |-> <<>>, after |-> 0]
Received(ids)  == [kind |-> "updates", ids |-> ids, after |-> 0]
Flood(seconds) == [kind |-> "flood", ids |-> <<>>, after |-> seconds]
Failure        == [kind |-> "failure", ids |-> <<>>, after |-> 0]

-----------------------------------------------------------------------------
(* Helpers of poll.rs                                                      *)

make_request(off, limit) == [offset |-> off + 1, limit |-> limit]

\* options.offset after update id: kept as the last identifier seen, or, in
\* the mutants, as the next one to ask for, or not moved at all.
NewOffset_next(off, id) == Larger(off, id + 1)

NewOffset_unmoved(off, id) == off

NewOffset(off, id) == Larger(off, id)

\* How long switch_to_idle sleeps for an error; options.error_timeout is
\* never read.
IdleTime_no_retry_after(err) == DefaultErrorTimeout

IdleTime(err) == IF err.kind = "flood" THEN err.after ELSE DefaultErrorTimeout

switch_to_request ==
  /\ state' = "Running"
  /\ request' = make_request(offset, Limit)
  /\ wire' = "built"
  /\ answer' = NoAnswer
  /\ buffered' = <<>>
  /\ idle' = 0

switch_to_idle(err) ==
  /\ state' = "Idling"
  /\ idle' = IdleTime(err)
  /\ wire' = "none"
  /\ answer' = NoAnswer
  /\ UNCHANGED <<buffered, request>>

switch_to_buffered_reversed(ids) ==
  /\ state' = "BufferedResults"
  /\ buffered' = [i \in 1 .. Len(ids) |-> ids[Len(ids) + 1 - i]]
  /\ wire' = "none"
  /\ answer' = NoAnswer
  /\ UNCHANGED <<idle, request>>

switch_to_buffered(ids) ==
  /\ state' = "BufferedResults"
  /\ buffered' = ids
  /\ wire' = "none"
  /\ answer' = NoAnswer
  /\ UNCHANGED <<idle, request>>

\* The whole answer is deserialized at once: one bad update spoils it.
Deserializes(ans) ==
  /\ ans.kind = "updates"
  /\ \A i \in DOMAIN ans.ids : ans.ids[i] \notin Unparsable

-----------------------------------------------------------------------------
(* Telegram and the network                                                *)

CreateUpdate ==
  /\ created < MaxUpdates
  /\ created' = created + 1
  /\ UNCHANGED <<confirmed, late, streamVars, callVars, history>>

\* A call with offset o confirms what is below o.
ConfirmedBy(req) == Larger(confirmed, req.offset - 1)

\* The first updates above c, at most limit of them; none when the long
\* poll times out.
Batch(c, limit) == [i \in 1 .. Smaller(limit, created - c) |-> c + i]

ServerAnswers ==
  /\ wire = "sent"
  /\ confirmed' = ConfirmedBy(request)
  /\ answer' = Received(Batch(confirmed', request.limit))
  /\ wire' = "answered"
  /\ UNCHANGED <<created, late, streamVars, request, history>>

\* An error answer that carries retry_after.
ServerFloods ==
  /\ wire = "sent"
  /\ \E seconds \in RetryAfters :
       /\ answer' = Flood(seconds)
       /\ retryIn' = seconds
  /\ wire' = "answered"
  /\ UNCHANGED <<serverVars, streamVars, request, given, handled>>

\* The call fails, before or after the server has seen it.
CallFails ==
  /\ wire = "sent"
  /\ confirmed' \in {confirmed, ConfirmedBy(request)}
  /\ answer' = Failure
  /\ wire' = "answered"
  /\ UNCHANGED <<created, late, streamVars, request, history>>

\* The server receives what a dead process had sent.
LateRequest ==
  \E req \in late :
    /\ confirmed' = ConfirmedBy(req)
    /\ late' = late \ {req}
    /\ UNCHANGED <<created, streamVars, callVars, history>>

Countdown(n) == IF n > 0 THEN n - 1 ELSE 0

Tick ==
  /\ idle > 0 \/ retryIn > 0
  /\ idle' = Countdown(idle)
  /\ retryIn' = Countdown(retryIn)
  /\ UNCHANGED <<serverVars, state, buffered, taken, offset, shouldRetry,
                 callVars, given, handled>>

-----------------------------------------------------------------------------
(* Stream::poll                                                            *)

\* State::Running, first poll of the call: it goes out on the network.
SendRequest ==
  /\ state = "Running"
  /\ wire = "built"
  /\ wire' = "sent"
  /\ UNCHANGED <<serverVars, streamVars, request, answer, history>>

\* State::Running, Ok(Ready(items))
GotUpdates ==
  /\ state = "Running"
  /\ wire = "answered"
  /\ Deserializes(answer)
  /\ switch_to_buffered(answer.ids)
  /\ UNCHANGED <<serverVars, taken, offset, shouldRetry, history>>

\* State::Running, Err(err) with should_retry
GotErrorRetry ==
  /\ state = "Running"
  /\ wire = "answered"
  /\ ~Deserializes(answer)
  /\ shouldRetry
  /\ switch_to_idle(answer)
  /\ UNCHANGED <<serverVars, taken, offset, shouldRetry, history>>

\* State::Running, Err(err) without should_retry: poll returns the error,
\* for_each() stops and nobody polls the stream again.
GotErrorEnd ==
  /\ state = "Running"
  /\ wire = "answered"
  /\ ~Deserializes(answer)
  /\ ~shouldRetry
  /\ state' = "Ended"
  /\ wire' = "none"
  /\ answer' = NoAnswer
  /\ UNCHANGED <<serverVars, buffered, taken, idle, offset, shouldRetry,
                 request, history>>

\* State::BufferedResults, pop_front() gives an update
YieldUpdate ==
  /\ state = "BufferedResults"
  /\ taken = 0
  /\ buffered # <<>>
  /\ taken' = Head(buffered)
  /\ buffered' = Tail(buffered)
  /\ offset' = NewOffset(offset, Head(buffered))
  /\ UNCHANGED <<serverVars, state, idle, shouldRetry, callVars, history>>

\* State::BufferedResults, pop_front() gives None
BufferDrained ==
  /\ state = "BufferedResults"
  /\ taken = 0
  /\ buffered = <<>>
  /\ switch_to_request
  /\ UNCHANGED <<serverVars, taken, offset, shouldRetry, history>>

\* State::Idling, the delay has elapsed. The mutant returns without polling
\* the new call, so that nothing wakes the task again.
DelayElapsed_unpolled ==
  /\ state = "Idling"
  /\ idle = 0
  /\ state' = "Running"
  /\ UNCHANGED <<serverVars, buffered, taken, idle, offset, shouldRetry,
                 callVars, history>>

DelayElapsed ==
  /\ state = "Idling"
  /\ idle = 0
  /\ switch_to_request
  /\ UNCHANGED <<serverVars, taken, offset, shouldRetry, history>>

\* State::Idling, the delay itself fails: poll returns its error, with
\* should_retry too ("Timer errors are unrecoverable").
DelayFails ==
  /\ state = "Idling"
  /\ state' = "TimerFailed"
  /\ UNCHANGED <<serverVars, buffered, taken, idle, offset, shouldRetry,
                 callVars, history>>

-----------------------------------------------------------------------------
(* handle_updates(): for_each() gives the handler what poll() returned     *)
(* before it polls again.                                                  *)

\* A panic unwinds through for_each(): stream and queue are gone, and the
\* handler has not taken the update.
HandleUpdate_survives(panics) ==
  /\ taken # 0
  /\ given' = given \cup {taken}
  /\ handled' = IF panics THEN handled ELSE handled \cup {taken}
  /\ taken' = 0
  /\ UNCHANGED <<serverVars, state, buffered, idle, offset, shouldRetry,
                 callVars, retryIn>>

HandleUpdate(panics) ==
  /\ taken # 0
  /\ given' = given \cup {taken}
  /\ handled' = IF panics THEN handled ELSE handled \cup {taken}
  /\ taken' = 0
  /\ state' = IF panics THEN "Ended" ELSE state
  /\ buffered' = IF panics THEN <<>> ELSE buffered
  /\ UNCHANGED <<serverVars, idle, offset, shouldRetry, callVars, retryIn>>

-----------------------------------------------------------------------------
(* The process dies, at any moment, and is started again: a new stream is  *)
(* made by UpdatesStream::new, which builds the first request from the     *)
(* default options; UpdatesStream::options comes after it.                 *)

FirstRequest_skips == make_request(1, DefaultLimit)

FirstRequest == make_request(0, DefaultLimit)

Restart ==
  /\ late' = IF wire = "sent" THEN late \cup {request} ELSE late
  /\ state' = "Running"
  /\ buffered' = <<>>
  /\ taken' = 0
  /\ request' = FirstRequest
  /\ wire' = "built"
  /\ answer' = NoAnswer
  /\ idle' = 0
  /\ offset' = 0
  /\ retryIn' = 0
  /\ given' = {}
  /\ UNCHANGED <<created, confirmed, shouldRetry, handled>>

Init ==
  /\ created = 0
  /\ confirmed = 0
  /\ late = {}
  /\ state = "Running"
  /\ buffered = <<>>
  /\ taken = 0
  /\ request = FirstRequest
  /\ wire = "built"
  /\ answer = NoAnswer
  /\ idle = 0
  /\ offset = 0
  /\ shouldRetry \in BOOLEAN
  /\ retryIn = 0
  /\ given = {}
  /\ handled = {}

StreamPoll ==
  \/ SendRequest
  \/ GotUpdates
  \/ GotErrorRetry
  \/ GotErrorEnd
  \/ YieldUpdate
  \/ BufferDrained
  \/ DelayElapsed
  \/ DelayFails

Panics(update) == {FALSE} \cup {x \in {TRUE} : update \in Poison}

Poll == StreamPoll \/ \E panics \in Panics(taken) : HandleUpdate(panics)

Environment ==
  \/ CreateUpdate
  \/ ServerAnswers
  \/ ServerFloods
  \/ CallFails
  \/ LateRequest
  \/ Tick

Next == Poll \/ Environment \/ Restart

Spec == Init /\ [][Next]_vars

\* The executor polls a woken task again; time passes; and a server that is
\* asked again and again answers one day.
FairSpec ==
  /\ Spec
  /\ WF_vars(Poll)
  /\ WF_vars(Tick)
  /\ SF_vars(ServerAnswers)

-----------------------------------------------------------------------------
(* Properties                                                              *)

Requests == [offset : Nat \ {0}, limit : Nat \ {0}]

Answers == [kind : {"none", "updates", "flood", "failure"},
            ids : Seq(Nat \ {0}), after : Nat]

\* The type of every variable of the stream, the network and the server.
TypeOK ==
  /\ created \in Nat
  /\ confirmed \in Nat
  /\ late \subseteq Requests
  /\ state \in {"Running", "BufferedResults", "Idling", "Ended",
               "TimerFailed"}
  /\ buffered \in Seq(Nat \ {0})
  /\ taken \in Nat
  /\ request \in Requests
  /\ wire \in {"none", "built", "sent", "answered"}
  /\ answer \in Answers
  /\ idle \in Nat
  /\ offset \in Nat
  /\ shouldRetry \in BOOLEAN
  /\ retryIn \in Nat
  /\ given \subseteq Nat \ {0}
  /\ handled \subseteq Nat \ {0}

\* No update is skipped: when the handler has been given an update, it has
\* been given every earlier one (poll.rs: the offset only follows what poll
\* returned, and the queue is popped in the order of the answer).
NoGap == \A id \in handled : 1 .. id \subseteq handled

\* Telegram never forgets an update that no handler took, whatever requests
\* are lost, late or repeated, whenever the process dies, and also when the
\* handler panics (poll.rs: the next request is built only when the queue is
\* drained; mod.rs: a panic ends the stream before it can ask for more).
ConfirmedHandled == 1 .. confirmed \subseteq handled

\* One process never gives its handler the same update twice, in spite of
\* retried calls (poll.rs: a retry asks from the offset already reached).
NoRedelivery ==
  /\ \A i \in DOMAIN buffered : buffered[i] \notin given
  /\ taken \notin given

\* After an answer with retry_after no call is made before that time has
\* passed (poll.rs, switch_to_idle).
FloodRespected == wire \in {"built", "sent"} => retryIn = 0

\* Polling implements the delivery promise: in order, none skipped, none
\* confirmed before it is handled.
Delivery == INSTANCE UpdateDelivery

ImplementsDelivery == Delivery!Spec

\* A stream that retries, in a process that stops dying and whose timers
\* work, gives the handler every update it can deserialize, up to the first
\* on which the handler may panic (poll.rs: other errors only lead through
\* Idling to a new call). Limit has to differ from DefaultLimit, or else a
\* retry at offset 0 is also a Restart step.
EventuallyHandled ==
  <>[][~Restart]_vars =>
    \A id \in {i \in 1 .. MaxUpdates \ Unparsable :
                   Poison \cap 1 .. i = {}} :
      (shouldRetry /\ created >= id)
        ~> (id \in handled \/ state = "TimerFailed")

-----------------------------------------------------------------------------
(* The inductive invariant behind the safety properties: where, between    *)
(* the server and the handler, the updates not yet handled can be.         *)

\* A batch holds consecutive updates, all of them created, beyond the
\* offset, and every earlier update is handled or about to be.
WellPlaced(ids) ==
  \A i \in 1 .. Len(ids) :
    /\ ids[i] = ids[1] + (i - 1)
    /\ offset < ids[i]
    /\ ids[i] <= created
    /\ 1 .. (ids[1] - 1) \subseteq handled \cup {taken}

ServerInv ==
  /\ handled \subseteq 1 .. created
  /\ \A req \in late : 1 .. (req.offset - 1) \subseteq handled

CallInv ==
  /\ state = "Running" <=> wire # "none"
  /\ state = "Running" => request.offset = offset + 1
  /\ wire # "answered" => answer = NoAnswer
  /\ answer.kind # "flood" => answer.after = 0
  /\ WellPlaced(answer.ids)

OffsetInv ==
  /\ state # "Ended" => 1 .. offset \subseteq handled \cup {taken}
  /\ \A id \in given : id <= offset /\ id # taken
  /\ WellPlaced(buffered)

TakenInv ==
  taken # 0 =>
    /\ state = "BufferedResults"
    /\ taken = offset
    /\ taken <= created

FloodInv ==
  CASE state = "Idling" -> retryIn <= idle
    [] state = "Running" /\ wire = "answered" -> retryIn <= answer.after
    [] state \in {"Ended", "TimerFailed"} -> TRUE
    [] OTHER -> retryIn = 0

\* Everything that is true between two steps of the stream: it holds at the
\* start and every step keeps it (poll.rs as a whole).
StreamInv ==
  /\ TypeOK
  /\ NoGap
  /\ ConfirmedHandled
  /\ ServerInv
  /\ CallInv
  /\ OffsetInv
  /\ TakenInv
  /\ FloodInv
=============================================================================
