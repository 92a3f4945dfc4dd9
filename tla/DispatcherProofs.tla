--------------------------- MODULE DispatcherProofs ---------------------------
(***************************************************************************)
(* Proofs about Dispatcher, for any set of updates, any number of handlers *)
(* and any choice of the updates each handler accepts.                     *)
(***************************************************************************)
EXTENDS Dispatcher, TLAPS

-----------------------------------------------------------------------------
(* Types                                                                   *)

LEMMA InitType == ASSUME Init PROVE TypeOK
  BY DispatcherAssumption DEF Init, TypeOK, Handlers, Verdicts, Results, Ended

LEMMA RecordType ==
  ASSUME TypeOK, NEW u \in Updates, NEW h, NEW v \in Verdicts, Record(u, h, v)
  PROVE  verdict' \in [Updates -> [Handlers -> Verdicts]]
<1>1. verdict[u] \in [Handlers -> Verdicts]
  BY DEF TypeOK
<1>2. [verdict[u] EXCEPT ![h] = v] \in [Handlers -> Verdicts]
  BY <1>1
<1> QED
  BY <1>2 DEF TypeOK, Record

LEMMA SwitchType ==
  ASSUME TypeOK, NEW u \in Updates, switch_to_next_handler(u)
  PROVE  /\ current' \in [Updates -> Nat]
         /\ future' \in [Updates -> Results \cup {"None", "Pending"}]
         /\ verdict' \in [Updates -> [Handlers -> Verdicts]]
<1>1. current' \in [Updates -> Nat]
  BY DEF TypeOK, switch_to_next_handler, Fetch
<1>2. CASE NoMoreHandlers(u)
  BY <1>1, <1>2 DEF TypeOK, NoMoreHandlers
<1>3. CASE Refuse(u, current[u] + 1)
  <2>1. verdict' \in [Updates -> [Handlers -> Verdicts]]
    BY <1>3, RecordType DEF Refuse, Verdicts
  <2> QED
    BY <1>1, <1>3, <2>1 DEF TypeOK, Refuse, Results
<1>4. CASE Call(u, current[u] + 1)
  <2>1. verdict' \in [Updates -> [Handlers -> Verdicts]]
    BY <1>4, RecordType DEF Call, Verdicts
  <2> QED
    BY <1>1, <1>4, <2>1 DEF TypeOK, Call
<1> QED
  BY <1>2, <1>3, <1>4 DEF switch_to_next_handler

LEMMA PanicType ==
  ASSUME TypeOK, NEW u \in Updates, next_handler_panics(u)
  PROVE  /\ task' \in [Updates -> {"none", "spawned"} \cup Ended]
         /\ current' \in [Updates -> Nat]
         /\ future' = future
         /\ verdict' \in [Updates -> [Handlers -> Verdicts]]
<1>1. verdict' \in [Updates -> [Handlers -> Verdicts]]
  BY RecordType DEF next_handler_panics, Verdicts
<1>2. current' \in [Updates -> Nat]
  BY DEF TypeOK, next_handler_panics, Fetch
<1>3. task' \in [Updates -> {"none", "spawned"} \cup Ended]
  BY DEF TypeOK, next_handler_panics, Ended
<1> QED
  BY <1>1, <1>2, <1>3 DEF next_handler_panics

LEMMA NextType == ASSUME TypeOK, [Next]_vars PROVE TypeOK'
<1>1. CASE UNCHANGED vars
  BY <1>1 DEF vars, TypeOK
<1>2. ASSUME NEW u \in Updates, Handle(u) PROVE TypeOK'
  BY <1>2, SwitchType DEF TypeOK, Handle, App
<1>3. ASSUME NEW u \in Updates, HandlePanics(u) PROVE TypeOK'
  BY <1>3, PanicType DEF TypeOK, HandlePanics, App
<1>4. ASSUME NEW u \in Updates, PollNext(u) PROVE TypeOK'
  BY <1>4, SwitchType DEF TypeOK, PollNext, App
<1>5. ASSUME NEW u \in Updates, PollNextPanics(u) PROVE TypeOK'
  BY <1>5, PanicType DEF TypeOK, PollNextPanics, App
<1>6. ASSUME NEW u \in Updates, PollStop(u) PROVE TypeOK'
  BY <1>6 DEF TypeOK, PollStop, App
<1>7. ASSUME NEW u \in Updates, PollAbort(u) PROVE TypeOK'
  BY <1>7 DEF TypeOK, PollAbort, App, Ended
<1>8. ASSUME NEW u \in Updates, PollReady(u) PROVE TypeOK'
  BY <1>8 DEF TypeOK, PollReady, App, Ended
<1>9. ASSUME NEW u \in Updates, Resolve(u) PROVE TypeOK'
  <2>1. verdict' \in [Updates -> [Handlers -> Verdicts]]
    BY <1>9, RecordType DEF Resolve, Verdicts
  <2> QED
    BY <1>9, <2>1 DEF TypeOK, Resolve, App
<1>10. ASSUME NEW u \in Updates, PollPanics(u) PROVE TypeOK'
  <2>1. verdict' \in [Updates -> [Handlers -> Verdicts]]
    BY <1>10, RecordType DEF PollPanics, Verdicts
  <2> QED
    BY <1>10, <2>1 DEF TypeOK, PollPanics, App, Ended
<1> QED
  BY <1>1, <1>2, <1>3, <1>4, <1>5, <1>6, <1>7, <1>8, <1>9, <1>10
  DEF Next, Poll

-----------------------------------------------------------------------------
(* The inductive invariant, update by update                               *)

LEMMA InitInv == ASSUME Init PROVE DispatchInv
  BY InitType, DispatcherAssumption DEF Init, DispatchInv, Consistent, Handlers

\* Fetching keeps the handlers behind and before current as they were.
LEMMA Fetched ==
  ASSUME TypeOK, NEW u \in Updates, Consistent(u),
         task[u] = "none" \/ (GoesOn(u) /\ task[u] = "spawned")
  PROVE  \A h \in 1 .. current[u] : h \in Handlers =>
           Passes(verdict[u][h])
  BY DispatcherAssumption DEF TypeOK, Consistent, GoesOn, Handlers, Passes

LEMMA SwitchConsistent ==
  ASSUME TypeOK, NEW u \in Updates, Consistent(u),
         task[u] = "none" \/ (GoesOn(u) /\ task[u] = "spawned"),
         switch_to_next_handler(u), task'[u] = "spawned",
         UNCHANGED errorStrategy
  PROVE  Consistent(u)'
<1> DEFINE h0 == current[u] + 1
<1>1. /\ current[u] \in Nat /\ N \in Nat
      /\ current'[u] = h0
      /\ current[u] <= N
  BY DispatcherAssumption
  DEF TypeOK, switch_to_next_handler, Fetch, Consistent, GoesOn, Handlers
<1>2. \A h \in Handlers : h < h0 => Passes(verdict[u][h])
  BY <1>1, Fetched DEF Handlers
<1>3. \A v : Passes(v)' <=> Passes(v)
  BY DEF Passes
<1>4. CASE NoMoreHandlers(u)
  <2>1. h0 = N + 1 /\ future'[u] = "None" /\ verdict' = verdict
    BY <1>1, <1>4 DEF NoMoreHandlers, TypeOK
  <2> QED
    BY <1>1, <1>2, <1>3, <2>1 DEF Consistent, Handlers
<1>5. CASE current[u] < N /\ (Refuse(u, h0) \/ Call(u, h0))
  <2>1. h0 \in Handlers
    BY <1>1, <1>5 DEF Handlers
  <2>2. \A h \in Handlers : h # h0 => verdict'[u][h] = verdict[u][h]
    BY <1>5, <2>1 DEF Refuse, Call, Record, TypeOK
  <2>3. \/ future'[u] = "Continue" /\ verdict'[u][h0] = "refused"
        \/ future'[u] = "Pending"
    BY <1>5, <2>1 DEF Refuse, Call, Record, TypeOK
  <2>4. \A h \in Handlers : h > current[u] => verdict[u][h] = "untried"
    BY DEF Consistent
  <2>5. \A h \in Handlers :
          /\ h > h0 => verdict'[u][h] = "untried"
          /\ h < h0 => Passes(verdict[u][h])'
    BY <1>1, <1>2, <1>3, <2>2, <2>4 DEF Handlers
  <2> QED
    BY <1>1, <2>1, <2>3, <2>5 DEF Consistent
<1> QED
  BY <1>4, <1>5 DEF switch_to_next_handler

LEMMA PanicConsistent ==
  ASSUME TypeOK, NEW u \in Updates, Consistent(u),
         task[u] = "none" \/ (GoesOn(u) /\ task[u] = "spawned"),
         next_handler_panics(u), UNCHANGED errorStrategy
  PROVE  Consistent(u)'
<1> DEFINE h0 == current[u] + 1
<1>1. /\ current[u] \in Nat /\ N \in Nat
      /\ current'[u] = h0 /\ h0 \in Handlers
      /\ task'[u] = "panicked"
  BY DispatcherAssumption DEF TypeOK, next_handler_panics, Fetch, Handlers
<1>2. \A h \in Handlers : h < h0 => Passes(verdict[u][h])
  BY <1>1, Fetched DEF Handlers
<1>3. \A v : Passes(v)' <=> Passes(v)
  BY DEF Passes
<1>4. \A h \in Handlers : h # h0 => verdict'[u][h] = verdict[u][h]
  BY <1>1 DEF next_handler_panics, Record, TypeOK
<1>5. \A h \in Handlers : h > current[u] => verdict[u][h] = "untried"
  BY DEF Consistent
<1>6. \A h \in Handlers :
        /\ h > h0 => verdict'[u][h] = "untried"
        /\ h < h0 => Passes(verdict[u][h])'
  BY <1>1, <1>2, <1>3, <1>4, <1>5 DEF Handlers
<1> QED
  BY <1>1, <1>6 DEF Consistent

LEMMA OthersConsistent ==
  ASSUME NEW v \in Updates, Consistent(v), UNCHANGED errorStrategy,
         task'[v] = task[v], current'[v] = current[v],
         future'[v] = future[v], verdict'[v] = verdict[v]
  PROVE  Consistent(v)'
  BY DEF Consistent, Passes

\* A dispatch that ends, or stops, keeps its history.
LEMMA EndConsistent ==
  ASSUME NEW u \in Updates, Consistent(u), UNCHANGED errorStrategy,
         task'[u] \notin {"none", "spawned"},
         current'[u] = current[u], verdict'[u] = verdict[u]
  PROVE  Consistent(u)'
  BY DEF Consistent, Passes

LEMMA StopConsistent ==
  ASSUME TypeOK, NEW u \in Updates, Consistent(u), PollStop(u)
  PROVE  Consistent(u)'
  BY DEF TypeOK, PollStop, App, Consistent, Passes

\* Only the verdict of the current handler changes when its future resolves
\* or panics.
LEMMA ResolveConsistent ==
  ASSUME TypeOK, NEW u \in Updates, Consistent(u),
         task[u] = "spawned", future[u] = "Pending",
         UNCHANGED <<errorStrategy, current>>,
         NEW v, Record(u, current[u], v),
         \/ task'[u] = "panicked"
         \/ v \in Results /\ future'[u] = v /\ task'[u] = task[u]
  PROVE  Consistent(u)'
<1>1. current[u] \in Handlers /\ current[u] \in Nat
  BY DEF TypeOK, Consistent
<1>2. /\ verdict'[u][current[u]] = v
      /\ \A h \in Handlers : h # current[u] => verdict'[u][h] = verdict[u][h]
  BY <1>1 DEF TypeOK, Record
<1>3. \A h \in Handlers : /\ h > current[u] => verdict'[u][h] = "untried"
                          /\ h < current[u] => Passes(verdict[u][h])'
  BY <1>1, <1>2 DEF Consistent, Passes, Handlers
<1>4. CASE task'[u] = "panicked"
  BY <1>1, <1>3, <1>4 DEF Consistent
<1>5. CASE v \in Results /\ future'[u] = v /\ task'[u] = task[u]
  <2>1. CASE v = "Continue"
    BY <1>1, <1>2, <1>3, <1>5, <2>1 DEF Consistent
  <2>2. CASE v \in {"Stop", "Error"}
    BY <1>1, <1>2, <1>3, <1>5, <2>2 DEF Consistent
  <2> QED
    BY <1>5, <2>1, <2>2 DEF Results
<1> QED
  BY <1>4, <1>5

LEMMA NextInv == ASSUME DispatchInv, [Next]_vars PROVE DispatchInv'
<1> USE DEF DispatchInv
<1>0. TypeOK'
  BY NextType
<1>1. CASE UNCHANGED vars
  BY <1>0, <1>1, OthersConsistent DEF vars
<1>2. SUFFICES ASSUME NEW u \in Updates,
                      \/ Handle(u) \/ HandlePanics(u) \/ Poll(u)
                      \/ Resolve(u) \/ PollPanics(u)
               PROVE  DispatchInv'
  BY <1>1 DEF Next
<1>3. UNCHANGED errorStrategy
  BY <1>2
  DEF Handle, HandlePanics, Poll, PollNext, PollNextPanics, PollStop,
      PollAbort, PollReady, Resolve, PollPanics, App
<1>4. ASSUME NEW v \in Updates, v # u PROVE Consistent(v)'
  <2>1. /\ task'[v] = task[v] /\ current'[v] = current[v]
        /\ future'[v] = future[v] /\ verdict'[v] = verdict[v]
    BY <1>2, <1>4
    DEF TypeOK, Handle, HandlePanics, Poll, PollNext, PollNextPanics,
        PollStop, PollAbort, PollReady, Resolve, PollPanics,
        switch_to_next_handler, next_handler_panics, NoMoreHandlers, Refuse,
        Call, Fetch, Record
  <2> QED
    BY <1>3, <1>4, <2>1, OthersConsistent
<1>5. Consistent(u)'
  <2>1. CASE Handle(u)
    <3>1. task[u] = "none" /\ task' = [task EXCEPT ![u] = "spawned"]
      BY <2>1, Zenon DEF Handle
    <3>2. switch_to_next_handler(u)
      BY <2>1, Zenon DEF Handle
    <3>3. task'[u] = "spawned"
      BY <3>1 DEF TypeOK
    <3>4. task[u] = "none" \/ (GoesOn(u) /\ task[u] = "spawned")
      BY <3>1, Zenon
    <3> QED
      BY <1>3, <3>2, <3>3, <3>4, SwitchConsistent
  <2>2. CASE HandlePanics(u)
    <3>1. task[u] = "none" /\ next_handler_panics(u)
      BY <2>2, Zenon DEF HandlePanics
    <3>2. task[u] = "none" \/ (GoesOn(u) /\ task[u] = "spawned")
      BY <3>1, Zenon
    <3> QED
      BY <1>3, <3>1, <3>2, PanicConsistent
  <2>3. CASE PollNext(u)
    BY <1>3, <2>3, SwitchConsistent DEF PollNext
  <2>4. CASE PollNextPanics(u)
    BY <1>3, <2>4, PanicConsistent DEF PollNextPanics
  <2>5. CASE PollStop(u)
    BY <2>5, StopConsistent
  <2>6. CASE PollAbort(u) \/ PollReady(u)
    BY <1>3, <2>6, EndConsistent DEF PollAbort, PollReady, TypeOK
  <2>7. CASE Resolve(u)
    <3>1. PICK result \in Results :
            /\ future' = [future EXCEPT ![u] = result]
            /\ Record(u, current[u], result)
      BY <2>7 DEF Resolve
    <3>2. future'[u] = result
      BY <3>1 DEF TypeOK
    <3> QED
      BY <1>3, <2>7, <3>1, <3>2, ResolveConsistent DEF Resolve
  <2>8. CASE PollPanics(u)
    <3>1. task'[u] = "panicked"
      BY <2>8 DEF PollPanics, TypeOK
    <3> QED
      BY <1>3, <2>8, <3>1, ResolveConsistent DEF PollPanics
  <2> QED
    BY <1>2, <2>1, <2>2, <2>3, <2>4, <2>5, <2>6, <2>7, <2>8 DEF Poll
<1> QED
  BY <1>0, <1>4, <1>5

LEMMA Invariance == Spec => []DispatchInv
  BY InitInv, NextInv, PTL DEF Spec

-----------------------------------------------------------------------------
(* Safety                                                                  *)

\* Every variable of the dispatcher keeps its type.
THEOREM TypeCorrect == Spec => []TypeOK
  BY InitType, NextType, PTL DEF Spec

\* No handler runs before every earlier one let the update pass: what an
\* access or rate limit handler rejects reaches no handler behind it.
THEOREM HandlersAreGated == Spec => []Gated
<1>1. ASSUME DispatchInv PROVE Gated
  <2> SUFFICES ASSUME NEW u \in Updates, NEW h \in Handlers,
                      verdict[u][h] # "untried", NEW g \in 1 .. (h - 1)
               PROVE  Passes(verdict[u][g])
    BY DEF Gated
  <2>1. h <= current[u] /\ current[u] \in Nat
    BY <1>1 DEF DispatchInv, Consistent, TypeOK, Handlers
  <2>2. g \in Handlers /\ g < current[u]
    BY <2>1, DispatcherAssumption DEF Handlers
  <2> QED
    BY <1>1, <2>2 DEF DispatchInv, Consistent
<1> QED
  BY <1>1, Invariance, PTL

\* A dispatch ends without an error, with an error, or not at all, as its
\* handlers made it: no step changes the verdicts of one that has ended.
AccountedFor(u) ==
  /\ task[u] = "finished" =>
       \/ \E h \in Handlers : verdict[u][h] = "Stop"
       \/ \A h \in Handlers : Passes(verdict[u][h])
  /\ task[u] = "failed" =>
       /\ errorStrategy = "Abort"
       /\ \E h \in Handlers : verdict[u][h] = "Error"

LEMMA EndAccounted ==
  ASSUME DispatchInv, NEW u \in Updates, PollAbort(u) \/ PollReady(u)
  PROVE  AccountedFor(u)'
<1> USE DEF DispatchInv
<1>1. Consistent(u) /\ verdict' = verdict /\ errorStrategy' = errorStrategy
  BY DEF PollAbort, PollReady, App
<1>2. CASE PollAbort(u)
  <2>1. task'[u] = "failed" /\ task[u] = "spawned" /\ future[u] = "Error"
    BY <1>2 DEF PollAbort, TypeOK
  <2>2. current[u] \in Handlers /\ verdict[u][current[u]] = "Error"
    BY <1>1, <2>1 DEF Consistent
  <2> QED
    BY <1>1, <1>2, <2>1, <2>2 DEF AccountedFor, PollAbort
<1>3. CASE PollReady(u)
  <2>1. task'[u] = "finished" /\ task[u] = "spawned" /\ future[u] = "None"
    BY <1>3 DEF PollReady, TypeOK
  <2>2. CASE current[u] \in Handlers
    BY <1>1, <2>1, <2>2 DEF AccountedFor, Consistent
  <2>3. CASE current[u] \notin Handlers
    <3>1. \A h \in Handlers : Passes(verdict[u][h])
      BY <1>1, <2>1, <2>3, DispatcherAssumption DEF Consistent, Handlers
    <3> QED
      BY <1>1, <2>1, <3>1 DEF AccountedFor, Passes
  <2> QED
    BY <2>2, <2>3
<1> QED
  BY <1>2, <1>3

LEMMA NextAccounted ==
  ASSUME DispatchInv, [Next]_vars, NEW v \in Updates, AccountedFor(v)
  PROVE  AccountedFor(v)'
<1> USE DEF DispatchInv
<1>1. CASE UNCHANGED vars
  BY <1>1 DEF vars, AccountedFor, Passes
<1>2. ASSUME NEW u \in Updates,
             \/ Handle(u) \/ HandlePanics(u) \/ Poll(u)
             \/ Resolve(u) \/ PollPanics(u)
      PROVE  AccountedFor(v)'
  <2>1. UNCHANGED errorStrategy
    BY <1>2
    DEF Handle, HandlePanics, Poll, PollNext, PollNextPanics, PollStop,
        PollAbort, PollReady, Resolve, PollPanics, App
  <2>2. CASE v # u
    <3>1. task'[v] = task[v] /\ verdict'[v] = verdict[v]
      BY <1>2, <2>2
      DEF TypeOK, Handle, HandlePanics, Poll, PollNext, PollNextPanics,
          PollStop, PollAbort, PollReady, Resolve, PollPanics,
          switch_to_next_handler, next_handler_panics, NoMoreHandlers,
          Refuse, Call, Record
    <3> QED
      BY <2>1, <3>1 DEF AccountedFor, Passes
  <2>3. CASE v = u /\ (PollAbort(u) \/ PollReady(u))
    BY <2>3, EndAccounted
  <2>4. CASE v = u /\ ~(PollAbort(u) \/ PollReady(u))
    <3>1. task'[v] \in {"spawned", "panicked"}
      BY <1>2, <2>4
      DEF TypeOK, Handle, HandlePanics, Poll, PollNext, PollNextPanics,
          PollStop, Resolve, PollPanics, next_handler_panics
    <3> QED
      BY <3>1 DEF AccountedFor
  <2> QED
    BY <2>2, <2>3, <2>4
<1> QED
  BY <1>1, <1>2 DEF Next

\* A dispatch succeeds, or fails, only for a reason among its handlers.
THEOREM DispatchesAreAccounted == Spec => []Accounted
<1>1. Init => Accounted
  BY DEF Init, Accounted
<1>2. DispatchInv /\ Accounted /\ [Next]_vars => Accounted'
  <2>1. Accounted <=> \A v \in Updates : AccountedFor(v)
    BY DEF Accounted, AccountedFor
  <2>2. Accounted' <=> \A v \in Updates : AccountedFor(v)'
    BY DEF Accounted, AccountedFor
  <2> QED
    BY <2>1, <2>2, NextAccounted
<1> QED
  BY <1>1, <1>2, Invariance, PTL DEF Spec

\* PanicContained, with what makes it inductive: that dispatch takes no more
\* steps.
PanicFinal ==
  alive \/ \E u \in Updates :
             N > 0 /\ verdict[u][1] = "Panic" /\ task[u] = "panicked"

LEMMA NextPanicFinal ==
  ASSUME DispatchInv, PanicFinal, [Next]_vars, alive' # TRUE
  PROVE  PanicFinal'
<1> USE DEF DispatchInv
<1>1. CASE alive
  <2>1. PICK u \in Updates : HandlePanics(u)
    BY <1>1
    DEF TypeOK, Next, vars, Handle, Poll, PollNext, PollNextPanics, PollStop,
        PollAbort, PollReady, Resolve, PollPanics
  <2>2. current[u] = 0 /\ N > 0 /\ 1 \in Handlers
    BY <2>1, DispatcherAssumption
    DEF HandlePanics, next_handler_panics, Consistent, Handlers, TypeOK
  <2>3. verdict'[u][1] = "Panic" /\ task'[u] = "panicked"
    BY <2>1, <2>2 DEF HandlePanics, next_handler_panics, Record, TypeOK
  <2> QED
    BY <2>2, <2>3 DEF PanicFinal
<1>2. CASE ~alive
  <2>1. PICK u \in Updates :
          N > 0 /\ verdict[u][1] = "Panic" /\ task[u] = "panicked"
    BY <1>2 DEF PanicFinal
  <2>2. verdict'[u] = verdict[u] /\ task'[u] = task[u]
    BY <1>2, <2>1
    DEF TypeOK, Next, vars, Handle, HandlePanics, Poll, PollNext,
        PollNextPanics, PollStop, PollAbort, PollReady, Resolve, PollPanics,
        switch_to_next_handler, next_handler_panics, NoMoreHandlers, Refuse,
        Call, Record
  <2> QED
    BY <2>1, <2>2 DEF PanicFinal
<1> QED
  BY <1>1, <1>2

\* The task that delivers updates dies only by the first handler of one.
THEOREM PanicsAreContained == Spec => []PanicContained
<1>1. Init => PanicFinal
  BY DEF Init, PanicFinal
<1>2. DispatchInv /\ PanicFinal /\ [Next]_vars => PanicFinal'
  <2>1. CASE alive' = TRUE
    BY <2>1 DEF PanicFinal
  <2> QED
    BY <2>1, NextPanicFinal
<1>3. PanicFinal => PanicContained
  BY DEF PanicFinal, PanicContained
<1> QED
  BY <1>1, <1>2, <1>3, Invariance, PTL DEF Spec
=============================================================================
