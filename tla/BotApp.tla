-------------------------------- MODULE BotApp --------------------------------
(***************************************************************************)
(* A carapax App on long polling (App::run of carapax/src/app.rs):         *)
(* handle_updates() gives what UpdatesStream yields to Dispatcher::handle, *)
(* which calls the first handler in the task that polls the stream and     *)
(* spawns the rest. An update is handled, for the stream, when its         *)
(* dispatch is spawned. Both components are used as they are; what is new  *)
(* is where they meet.                                                     *)
(***************************************************************************)
EXTENDS UpdatesStream

CONSTANTS N, Stuck  \* of Dispatcher

\* The first handler may panic on any update.
ASSUME AppAssumption == Poison = 1 .. MaxUpdates

VARIABLES
  errorStrategy, accepts, alive, task, current, future, verdict,
  begun  \* history: updates for which some process spawned a dispatch

Dispatch == INSTANCE Dispatcher WITH Updates <- 1 .. MaxUpdates

dispatcher == <<errorStrategy, accepts, alive, task, current, future, verdict>>
appVars == <<vars, dispatcher, begun>>

-----------------------------------------------------------------------------

\* What is running after a call of Dispatcher::handle has been begun.
Begin == begun' = begun \cup {u \in 1 .. MaxUpdates : task'[u] = "spawned"}

\* for_each() calls Dispatcher::handle, which returns once the dispatch is
\* spawned; the mutant would wait for its end.
Deliver_waits ==
  /\ \A u \in 1 .. MaxUpdates : task[u] # "spawned"
  /\ HandleUpdate(FALSE)
  /\ Dispatch!Handle(taken)
  /\ Begin

Deliver ==
  /\ HandleUpdate(FALSE)
  /\ Dispatch!Handle(taken)
  /\ Begin

\* The first handler panics in its call, inside for_each(): the stream is
\* gone, and no dispatch is spawned.
DeliverPanics_caught ==
  /\ HandleUpdate(FALSE)
  /\ Dispatch!HandlePanics(taken)
  /\ Begin

DeliverPanics ==
  /\ HandleUpdate(TRUE)
  /\ Dispatch!HandlePanics(taken)
  /\ Begin

\* The process dies with every dispatch it runs.
RestartApp ==
  /\ Restart
  /\ alive' = TRUE
  /\ task' = [u \in 1 .. MaxUpdates |-> "none"]
  /\ current' = [u \in 1 .. MaxUpdates |-> 0]
  /\ future' = [u \in 1 .. MaxUpdates |-> "None"]
  /\ verdict' = [u \in 1 .. MaxUpdates |->
                  [h \in Dispatch!Handlers |-> "untried"]]
  /\ UNCHANGED <<errorStrategy, accepts, begun>>

AppInit ==
  /\ Init
  /\ Dispatch!Init
  /\ begun = {}

StreamStep == (StreamPoll \/ Environment) /\ UNCHANGED <<dispatcher, begun>>

DispatchStep(u) == Dispatch!Poll(u) /\ UNCHANGED <<vars, begun>>

HandlerStep(u) ==
  /\ Dispatch!Resolve(u) \/ Dispatch!PollPanics(u)
  /\ UNCHANGED <<vars, begun>>

AppNext ==
  \/ StreamStep
  \/ Deliver
  \/ DeliverPanics
  \/ \E u \in 1 .. MaxUpdates : DispatchStep(u) \/ HandlerStep(u)
  \/ RestartApp

AppSpec == AppInit /\ [][AppNext]_appVars

\* The task that polls the stream, time and the server, as in UpdatesStream.
\* Nothing is assumed of dispatches and handlers.
FairAppSpec ==
  /\ AppSpec
  /\ WF_appVars((StreamPoll /\ UNCHANGED <<dispatcher, begun>>)
                  \/ Deliver \/ DeliverPanics)
  /\ WF_appVars(Tick /\ UNCHANGED <<dispatcher, begun>>)
  /\ SF_appVars(ServerAnswers /\ UNCHANGED <<dispatcher, begun>>)

-----------------------------------------------------------------------------
(* Properties                                                              *)

\* Telegram forgets an update only when a dispatch of it was spawned, though
\* handlers panic and processes die (handle_updates, Dispatcher::handle). A
\* process that dies after that loses the dispatch.
ConfirmedBegun == 1 .. confirmed \subseteq begun

\* Dispatches begin in the order of the updates, without gaps (handle_updates
\* gives the handler one update after the other).
BegunInOrder == \A u \in begun : 1 .. (u - 1) \subseteq begun

\* One process dispatches an update once, also when calls are repeated, and
\* in its task for that update nothing else (Dispatcher::handle, poll.rs).
OneDispatch ==
  /\ taken # 0 => task[taken] = "none"
  /\ \A u \in 1 .. MaxUpdates : task[u] = "spawned" => u \in given

\* Nothing but a panic of the first handler in its call, or a timer that
\* fails, ends the polling of a stream that retries: not an error, a panic or
\* a stop in a dispatch (Dispatcher::handle spawns what is left of it).
PollingSurvives == shouldRetry => (state = "Ended" <=> ~alive)

\* A dispatch that never ends does not hold up the updates after it, while
\* the timer works (Dispatcher::handle returns at once).
DeliveryGoesOn ==
  <>[][~Restart]_vars =>
    \A u \in 1 .. MaxUpdates \ Unparsable :
      (shouldRetry /\ created >= u)
        ~> (u \in begun \/ ~alive \/ state = "TimerFailed")
-----------------------------------------------------------------------------
(* Where the two components agree: the inductive invariant                 *)

\* What the stream counts as handled is what was spawned, and this process
\* has dispatched exactly what its stream gave it.
Linked ==
  /\ begun = handled
  /\ task \in [1 .. MaxUpdates ->
                {"none", "spawned", "finished", "failed", "panicked"}]
  /\ created <= MaxUpdates
  /\ \A u \in 1 .. MaxUpdates :
       /\ task[u] # "none" => u \in given
       /\ task[u] = "spawned" => u \in begun

\* Stream and dispatches agree between any two steps of the App
\* (handle_updates and Dispatcher::handle).
AppInv == StreamInv /\ Linked /\ PollingSurvives
=============================================================================
