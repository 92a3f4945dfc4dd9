------------------------------ MODULE Dispatcher ------------------------------
(***************************************************************************)
(* The dispatcher of a carapax App (carapax/src/dispatcher.rs): every      *)
(* update gets a task of its own, which runs the handlers of the App one   *)
(* after the other. HandlerWrapper (carapax/src/handler/mod.rs) skips a    *)
(* handler whose input cannot be made from the update. The handlers are    *)
(* the bot's own code: their futures resolve at any time, to any result,   *)
(* and may panic when they are called or when they are polled.             *)
(***************************************************************************)
EXTENDS Naturals

CONSTANTS
  Updates,   \* updates the dispatcher is given
  N,         \* number of handlers added to the App
  Stuck      \* updates some handler of which may never resolve

ASSUME DispatcherAssumption ==
  /\ N \in Nat
  /\ Stuck \subseteq Updates

Handlers == 1 .. N

Results == {"Continue", "Stop", "Error"}

VARIABLES
  errorStrategy,  \* Dispatcher.error_strategy
  accepts,        \* pairs <<update, handler>> for which from_update is Some
  alive,          \* the task that gives updates to Dispatcher::handle
  task,           \* the spawned DispatcherFuture
  current,        \* HandlersQueue.current: the handlers fetched so far
  future,         \* DispatcherFuture.handler, with what it resolved to
  verdict         \* history: how each handler ended, "untried" before

vars == <<errorStrategy, accepts, alive, task, current, future, verdict>>

App == <<errorStrategy, accepts>>

-----------------------------------------------------------------------------
(* switch_to_next_handler: fetch the next handler, if any, and call it.    *)

Fetch(u) == current' = [current EXCEPT ![u] = @ + 1]

Record(u, h, v) == verdict' = [verdict EXCEPT ![u][h] = v]

\* HandlerWrapper::handle: None from from_update counts as Continue.
Refuse(u, h) ==
  /\ <<u, h>> \notin accepts
  /\ future' = [future EXCEPT ![u] = "Continue"]
  /\ Record(u, h, "refused")

Call(u, h) ==
  /\ <<u, h>> \in accepts
  /\ future' = [future EXCEPT ![u] = "Pending"]
  /\ Record(u, h, "called")

NoMoreHandlers(u) ==
  /\ current[u] >= N
  /\ future' = [future EXCEPT ![u] = "None"]
  /\ UNCHANGED verdict

switch_to_next_handler(u) ==
  /\ Fetch(u)
  /\ \/ NoMoreHandlers(u)
     \/ current[u] < N /\ Refuse(u, current[u] + 1)
     \/ current[u] < N /\ Call(u, current[u] + 1)

\* The same, when the handler panics in its handle(): the task that made the
\* call unwinds.
next_handler_panics(u) ==
  /\ current[u] < N
  /\ <<u, current[u] + 1>> \in accepts
  /\ Fetch(u)
  /\ Record(u, current[u] + 1, "Panic")
  /\ task' = [task EXCEPT ![u] = "panicked"]
  /\ UNCHANGED future

-----------------------------------------------------------------------------
(* Dispatcher::handle: DispatcherFuture::new calls the first handler, in   *)
(* the task of the caller; only then is the future spawned.                *)

Handle(u) ==
  /\ alive
  /\ task[u] = "none"
  /\ task' = [task EXCEPT ![u] = "spawned"]
  /\ switch_to_next_handler(u)
  /\ UNCHANGED <<App, alive>>

HandlePanics(u) ==
  /\ alive
  /\ task[u] = "none"
  /\ next_handler_panics(u)
  /\ alive' = FALSE
  /\ UNCHANGED App

-----------------------------------------------------------------------------
(* DispatcherFuture::poll, one turn of its loop per action                 *)

\* The result of the handler lets the next one run.
GoesOn_after_stop(u) ==
  \/ future[u] \in {"Continue", "Stop"}
  \/ future[u] = "Error" /\ errorStrategy = "Ignore"

GoesOn_after_error(u) == future[u] \in {"Continue", "Error"}

GoesOn(u) ==
  \/ future[u] = "Continue"
  \/ future[u] = "Error" /\ errorStrategy = "Ignore"

PollNext_in_turn(u) ==
  /\ task[u] = "spawned"
  /\ \A v \in Updates \ {u} : future[v] # "Pending"
  /\ GoesOn(u)
  /\ switch_to_next_handler(u)
  /\ UNCHANGED <<App, alive, task>>

PollNext(u) ==
  /\ task[u] = "spawned"
  /\ GoesOn(u)
  /\ switch_to_next_handler(u)
  /\ UNCHANGED <<App, alive, task>>

PollNextPanics_in_caller(u) ==
  /\ task[u] = "spawned"
  /\ GoesOn(u)
  /\ next_handler_panics(u)
  /\ alive' = FALSE
  /\ UNCHANGED App

PollNextPanics(u) ==
  /\ task[u] = "spawned"
  /\ GoesOn(u)
  /\ next_handler_panics(u)
  /\ UNCHANGED <<App, alive>>

PollStop(u) ==
  /\ task[u] = "spawned"
  /\ future[u] = "Stop"
  /\ future' = [future EXCEPT ![u] = "None"]
  /\ UNCHANGED <<App, alive, task, current, verdict>>

PollAbort(u) ==
  /\ task[u] = "spawned"
  /\ future[u] = "Error"
  /\ errorStrategy = "Abort"
  /\ task' = [task EXCEPT ![u] = "failed"]
  /\ UNCHANGED <<App, alive, current, future, verdict>>

PollReady(u) ==
  /\ task[u] = "spawned"
  /\ future[u] = "None"
  /\ task' = [task EXCEPT ![u] = "finished"]
  /\ UNCHANGED <<App, alive, current, future, verdict>>

\* The handler's future panics when it is polled.
PollPanics(u) ==
  /\ task[u] = "spawned"
  /\ future[u] = "Pending"
  /\ task' = [task EXCEPT ![u] = "panicked"]
  /\ Record(u, current[u], "Panic")
  /\ UNCHANGED <<App, alive, current, future>>

\* The handler's future resolves.
Resolve(u) ==
  /\ task[u] = "spawned"
  /\ future[u] = "Pending"
  /\ \E result \in Results :
       /\ future' = [future EXCEPT ![u] = result]
       /\ Record(u, current[u], result)
  /\ UNCHANGED <<App, alive, task, current>>

-----------------------------------------------------------------------------

Init ==
  /\ errorStrategy \in {"Ignore", "Abort"}
  /\ accepts \in SUBSET (Updates \X Handlers)
  /\ alive = TRUE
  /\ task = [u \in Updates |-> "none"]
  /\ current = [u \in Updates |-> 0]
  /\ future = [u \in Updates |-> "None"]
  /\ verdict = [u \in Updates |-> [h \in Handlers |-> "untried"]]

Poll(u) ==
  \/ PollNext(u)
  \/ PollNextPanics(u)
  \/ PollStop(u)
  \/ PollAbort(u)
  \/ PollReady(u)

Next ==
  \E u \in Updates :
    \/ Handle(u)
    \/ HandlePanics(u)
    \/ Poll(u)
    \/ Resolve(u)
    \/ PollPanics(u)

Spec == Init /\ [][Next]_vars

\* The executor polls every woken task; a handler that is not stuck answers.
FairSpec ==
  /\ Spec
  /\ \A u \in Updates : WF_vars(Poll(u))
  /\ \A u \in Updates \ Stuck : WF_vars(Resolve(u))

-----------------------------------------------------------------------------
(* Properties                                                              *)

Verdicts == Results \cup {"untried", "refused", "called", "Panic"}

Ended == {"finished", "failed", "panicked"}

TypeOK ==
  /\ errorStrategy \in {"Ignore", "Abort"}
  /\ accepts \subseteq Updates \X Handlers
  /\ alive \in BOOLEAN
  /\ task \in [Updates -> {"none", "spawned"} \cup Ended]
  /\ current \in [Updates -> Nat]
  /\ future \in [Updates -> Results \cup {"None", "Pending"}]
  /\ verdict \in [Updates -> [Handlers -> Verdicts]]

\* What a handler has to answer for the next one to run.
Passes(v) ==
  \/ v \in {"refused", "Continue"}
  \/ v = "Error" /\ errorStrategy = "Ignore"

\* A handler runs only when every handler before it let the update pass, so
\* that an access or rate limit handler guards the ones added after it
\* (DispatcherFuture::poll).
Gated ==
  \A u \in Updates : \A h \in Handlers :
    verdict[u][h] # "untried" => \A g \in 1 .. (h - 1) : Passes(verdict[u][g])

\* A dispatch succeeds only when a handler stopped it or all of them let the
\* update pass, and fails only by an error that the strategy does not ignore
\* (DispatcherFuture::poll).
Accounted ==
  \A u \in Updates :
    /\ task[u] = "finished" =>
         \/ \E h \in Handlers : verdict[u][h] = "Stop"
         \/ \A h \in Handlers : Passes(verdict[u][h])
    /\ task[u] = "failed" =>
         /\ errorStrategy = "Abort"
         /\ \E h \in Handlers : verdict[u][h] = "Error"

\* Only the first handler can bring down the source of updates: a panic of
\* any later one stays inside its dispatch (Dispatcher::handle).
PanicContained ==
  alive \/ \E u \in Updates : N > 0 /\ verdict[u][1] = "Panic"

\* A dispatch whose handlers answer comes to its end, also when a handler of
\* another update never does (Dispatcher::handle spawns each of them).
Independent ==
  \A u \in Updates \ Stuck : task[u] = "spawned" ~> task[u] \in Ended

\* How the history of a dispatch agrees with its queue and its future.
Consistent(u) ==
  /\ task[u] = "none" => current[u] = 0
  /\ \A h \in Handlers :
       /\ h > current[u] => verdict[u][h] = "untried"
       /\ h < current[u] => Passes(verdict[u][h])
  /\ current[u] \in Handlers /\ task[u] = "spawned" =>
       CASE future[u] = "Continue" ->
              verdict[u][current[u]] \in {"Continue", "refused"}
         [] future[u] = "None" -> verdict[u][current[u]] = "Stop"
         [] OTHER -> future[u] = "Pending"
                       \/ verdict[u][current[u]] = future[u]
  /\ current[u] \notin Handlers /\ task[u] = "spawned" =>
       current[u] = N + 1 /\ future[u] = "None"

\* Everything a turn of the loop relies on: handlers beyond current are
\* untried, the ones before it passed, and the future is the current one's.
DispatchInv == TypeOK /\ \A u \in Updates : Consistent(u)
=============================================================================
