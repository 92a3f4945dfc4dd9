----------------------------- MODULE BotAppProofs -----------------------------
(***************************************************************************)
(* Proofs about BotApp, for any number of updates and handlers, any limit  *)
(* and any answers of the server. The App takes only steps of its stream,  *)
(* so the invariant of UpdatesStreamProofs carries over.                   *)
(***************************************************************************)
EXTENDS BotApp, UpdatesStreamProofs

Statuses == {"none", "spawned", "finished", "failed", "panicked"}

-----------------------------------------------------------------------------
(* What a step of the dispatcher does to its tasks                         *)

LEMMA HandleSpawns ==
  ASSUME NEW u \in 1 .. MaxUpdates, Dispatch!Handle(u)
  PROVE  /\ task' = [task EXCEPT ![u] = "spawned"]
         /\ alive' = alive
  BY DEF Dispatch!Handle

LEMMA HandlePanicsSpawnsNothing ==
  ASSUME NEW u \in 1 .. MaxUpdates, Dispatch!HandlePanics(u)
  PROVE  /\ task' = [task EXCEPT ![u] = "panicked"]
         /\ alive' = FALSE
  BY DEF Dispatch!HandlePanics, Dispatch!next_handler_panics

LEMMA DispatchOnlyEnds ==
  ASSUME Linked, NEW u \in 1 .. MaxUpdates,
         DispatchStep(u) \/ HandlerStep(u)
  PROVE  /\ task' \in [1 .. MaxUpdates -> Statuses]
         /\ alive' = alive
         /\ \A v \in 1 .. MaxUpdates :
              /\ task'[v] # "none" => task[v] # "none"
              /\ task'[v] = "spawned" => task[v] = "spawned"
<1>1. PICK s \in Statuses \ {"none", "spawned"} :
        /\ alive' = alive
        /\ task[u] = "spawned"
        /\ task' = task \/ task' = [task EXCEPT ![u] = s]
  <2>1. CASE Dispatch!PollNext(u)
    BY <2>1 DEF Dispatch!PollNext, Statuses
  <2>2. CASE Dispatch!PollNextPanics(u)
    BY <2>2 DEF Dispatch!PollNextPanics, Dispatch!next_handler_panics, Statuses
  <2>3. CASE Dispatch!PollStop(u)
    BY <2>3 DEF Dispatch!PollStop, Statuses
  <2>4. CASE Dispatch!PollAbort(u)
    BY <2>4 DEF Dispatch!PollAbort, Statuses
  <2>5. CASE Dispatch!PollReady(u)
    BY <2>5 DEF Dispatch!PollReady, Statuses
  <2>6. CASE Dispatch!Resolve(u)
    BY <2>6 DEF Dispatch!Resolve, Statuses
  <2>7. CASE Dispatch!PollPanics(u)
    BY <2>7 DEF Dispatch!PollPanics, Statuses
  <2> QED
    BY <2>1, <2>2, <2>3, <2>4, <2>5, <2>6, <2>7
    DEF DispatchStep, HandlerStep, Dispatch!Poll
<1> QED
  BY <1>1 DEF Linked, Statuses

-----------------------------------------------------------------------------
(* Steps of the App as steps of its stream                                 *)

LEMMA TakenIsCreated ==
  ASSUME StreamInv, Linked, taken # 0
  PROVE  /\ taken \in 1 .. MaxUpdates
         /\ state = "BufferedResults"
         /\ task[taken] = "none"
<1>1. taken \in 1 .. MaxUpdates /\ state = "BufferedResults"
  BY StreamAssumption DEF StreamInv, TypeOK, TakenInv, Linked
<1>2. taken \notin given
  BY DEF StreamInv, OffsetInv
<1> QED
  BY <1>1, <1>2 DEF Linked

LEMMA StreamStepsOnly ==
  ASSUME AppInv, [AppNext]_appVars PROVE [Next]_vars
<1>1. CASE Deliver
  BY <1>1 DEF Deliver, Next, Poll, Panics
<1>2. CASE DeliverPanics
  <2>1. taken \in Poison
    BY <1>2, TakenIsCreated, AppAssumption
    DEF DeliverPanics, HandleUpdate, AppInv
  <2> QED
    BY <1>2, <2>1 DEF DeliverPanics, Next, Poll, Panics
<1> QED
  BY <1>1, <1>2
  DEF AppNext, StreamStep, DispatchStep, HandlerStep, RestartApp, Next, Poll,
      appVars

-----------------------------------------------------------------------------
(* The inductive invariant                                                 *)

LEMMA AppInitInv == ASSUME AppInit PROVE AppInv
<1>1. StreamInv
  BY InitInv DEF AppInit
<1>2. Linked
  BY StreamAssumption DEF AppInit, Init, Dispatch!Init, Linked
<1>3. PollingSurvives
  BY DEF AppInit, Init, Dispatch!Init, PollingSurvives
<1> QED
  BY <1>1, <1>2, <1>3 DEF AppInv

\* The steps of the stream that touch neither handler nor dispatches.
LEMMA StreamStepFrame ==
  ASSUME AppInv, StreamStep
  PROVE  /\ UNCHANGED <<dispatcher, begun, handled, given, shouldRetry>>
         /\ created' <= MaxUpdates
         /\ state = "Ended" => state' = "Ended"
         /\ state' = "Ended" => state = "Ended" \/ ~shouldRetry
<1> USE DEF AppInv, StreamInv, TypeOK, Linked
<1>1. UNCHANGED <<dispatcher, begun>>
  BY DEF StreamStep
<1>2. CASE CreateUpdate
  BY <1>1, <1>2, StreamAssumption
  DEF CreateUpdate, streamVars, callVars, history
<1>3. CASE ServerAnswers \/ ServerFloods \/ CallFails \/ LateRequest \/ Tick
  BY <1>1, <1>3
  DEF ServerAnswers, ServerFloods, CallFails, LateRequest, Tick,
      serverVars, streamVars, callVars, history
<1>4. CASE SendRequest \/ GotUpdates \/ GotErrorRetry \/ GotErrorEnd
  BY <1>1, <1>4
  DEF SendRequest, GotUpdates, GotErrorRetry, GotErrorEnd, switch_to_buffered,
      switch_to_idle, serverVars, streamVars, history
<1>5. CASE YieldUpdate \/ BufferDrained \/ DelayElapsed \/ DelayFails
  BY <1>1, <1>5
  DEF YieldUpdate, BufferDrained, DelayElapsed, DelayFails,
      switch_to_request, serverVars, callVars, history
<1> QED
  BY <1>1, <1>2, <1>3, <1>4, <1>5 DEF StreamStep, StreamPoll, Environment

LEMMA AppNextLinked ==
  ASSUME AppInv, [AppNext]_appVars PROVE Linked' /\ PollingSurvives'
<1> USE DEF AppInv, Linked, PollingSurvives
<1>1. CASE StreamStep
  <2>1. /\ UNCHANGED <<task, alive, begun, handled, given, shouldRetry>>
        /\ created' <= MaxUpdates
    BY <1>1, StreamStepFrame DEF dispatcher
  <2>2. Linked'
    BY <2>1
  <2>3. /\ state = "Ended" => state' = "Ended"
        /\ state' = "Ended" => state = "Ended" \/ ~shouldRetry
    BY <1>1, StreamStepFrame
  <2>4. PollingSurvives'
    BY <2>1, <2>3, Zenon
  <2> QED
    BY <2>2, <2>4
<1>2. CASE Deliver
  <2>1. /\ taken # 0
        /\ handled' = handled \cup {taken} /\ given' = given \cup {taken}
        /\ UNCHANGED <<created, state, shouldRetry>>
    BY <1>2 DEF Deliver, HandleUpdate, serverVars
  <2>2. taken \in 1 .. MaxUpdates
    BY <2>1, TakenIsCreated
  <2>3. task' = [task EXCEPT ![taken] = "spawned"] /\ alive' = alive
    BY <1>2, <2>2, HandleSpawns DEF Deliver
  <2>4. begun' = begun \cup {taken}
    BY <1>2, <2>2, <2>3 DEF Deliver, Begin
  <2> QED
    BY <2>1, <2>2, <2>3, <2>4
<1>3. CASE DeliverPanics
  <2>1. /\ taken # 0
        /\ handled' = handled /\ given' = given \cup {taken}
        /\ state' = "Ended"
        /\ UNCHANGED <<created, shouldRetry>>
    BY <1>3 DEF DeliverPanics, HandleUpdate, serverVars
  <2>2. taken \in 1 .. MaxUpdates
    BY <2>1, TakenIsCreated
  <2>3. task' = [task EXCEPT ![taken] = "panicked"] /\ alive' = FALSE
    BY <1>3, <2>2, HandlePanicsSpawnsNothing DEF DeliverPanics
  <2>4. begun' = begun
    BY <1>3, <2>2, <2>3 DEF DeliverPanics, Begin
  <2> QED
    BY <2>1, <2>2, <2>3, <2>4
<1>4. ASSUME NEW u \in 1 .. MaxUpdates, DispatchStep(u) \/ HandlerStep(u)
      PROVE  Linked' /\ PollingSurvives'
  <2>1. UNCHANGED <<vars, begun>>
    BY <1>4 DEF DispatchStep, HandlerStep
  <2> QED
    BY <1>4, <2>1, DispatchOnlyEnds
    DEF vars, serverVars, streamVars, callVars, history, Statuses
<1>5. CASE RestartApp
  BY <1>5 DEF RestartApp, Restart
<1>6. CASE UNCHANGED appVars
  BY <1>6
  DEF appVars, dispatcher, vars, serverVars, streamVars, callVars, history
<1> QED
  BY <1>1, <1>2, <1>3, <1>4, <1>5, <1>6 DEF AppNext

LEMMA AppNextInv == ASSUME AppInv, [AppNext]_appVars PROVE AppInv'
  BY StreamStepsOnly, NextInv, AppNextLinked DEF AppInv

\* Stream and dispatches always agree.
THEOREM AppInvariance == AppSpec => []AppInv
  BY AppInitInv, AppNextInv, PTL DEF AppSpec

-----------------------------------------------------------------------------
(* What follows                                                            *)

\* An App on long polling behaves like its stream, whatever the handlers do:
\* each theorem about the stream holds of the App (App::run).
THEOREM AppIsItsStream == AppSpec => Spec
<1>1. AppInit => Init
  BY DEF AppInit
<1>2. AppInv /\ [AppNext]_appVars => [Next]_vars
  BY StreamStepsOnly
<1> QED
  BY <1>1, <1>2, AppInvariance, PTL DEF AppSpec, Spec

\* No update is forgotten by Telegram before its dispatch was spawned.
THEOREM ConfirmedIsBegun == AppSpec => []ConfirmedBegun
<1>1. AppInv => ConfirmedBegun
  BY DEF AppInv, StreamInv, ConfirmedHandled, Linked, ConfirmedBegun
<1> QED
  BY <1>1, AppInvariance, PTL

\* Dispatches begin in the order of the updates, without gaps.
THEOREM BeginsInOrder == AppSpec => []BegunInOrder
<1>1. AppInv => BegunInOrder
  <2>1. SUFFICES ASSUME AppInv, NEW u \in begun
                 PROVE  1 .. (u - 1) \subseteq begun
    BY DEF BegunInOrder
  <2>2. u \in Nat /\ 1 .. u \subseteq begun
    BY <2>1 DEF AppInv, StreamInv, TypeOK, NoGap, Linked
  <2> QED
    BY <2>2
<1> QED
  BY <1>1, AppInvariance, PTL

\* A process dispatches an update once.
THEOREM DispatchesOnce == AppSpec => []OneDispatch
<1>1. AppInv => OneDispatch
  BY TakenIsCreated DEF AppInv, Linked, OneDispatch
<1> QED
  BY <1>1, AppInvariance, PTL

\* Only a panic of the first handler in its call ends a stream that retries.
THEOREM PollingOutlivesDispatches == AppSpec => []PollingSurvives
  BY AppInvariance, PTL DEF AppInv
=============================================================================
