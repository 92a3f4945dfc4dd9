------------------------ MODULE UpdatesStreamProofs ------------------------
(***************************************************************************)
(* Proofs about UpdatesStream, for every value of its constants: the       *)
(* inductive invariant StreamInv, the safety properties that follow from   *)
(* it, and that polling implements UpdateDelivery.                         *)
(***************************************************************************)
EXTENDS UpdatesStream, TLAPS

-----------------------------------------------------------------------------
(* Types                                                                   *)

LEMMA RequestType ==
  ASSUME NEW off \in Nat, NEW limit \in Nat \ {0}
  PROVE  make_request(off, limit) \in Requests
  BY DEF make_request, Requests

LEMMA AnswerTypes ==
  /\ NoAnswer \in Answers
  /\ Failure \in Answers
  /\ \A ids \in Seq(Nat \ {0}) : Received(ids) \in Answers
  /\ \A seconds \in Nat : Flood(seconds) \in Answers
  BY DEF NoAnswer, Failure, Received, Flood, Answers

LEMMA BatchType ==
  ASSUME NEW c \in Nat, NEW limit \in Nat, created \in Nat
  PROVE  /\ Batch(c, limit) \in Seq(Nat \ {0})
         /\ \A i \in 1 .. Len(Batch(c, limit)) :
              /\ Batch(c, limit)[i] = c + i
              /\ Batch(c, limit)[i] <= created
<1> DEFINE n == Smaller(limit, created - c)
<1>1. n \in Int /\ n <= created - c
  BY DEF Smaller
<1>2. CASE n <= 0
  <2>1. 1 .. n = {}
    BY <1>1, <1>2
  <2>2. Batch(c, limit) = <<>>
    BY <2>1 DEF Batch
  <2> QED
    BY <2>2
<1>3. CASE n > 0
  <2>1. /\ n \in Nat
        /\ Batch(c, limit) = [i \in 1 .. n |-> c + i]
    BY <1>1, <1>3 DEF Batch
  <2> QED
    BY <1>1, <2>1
<1> QED
  BY <1>1, <1>2, <1>3

LEMMA ConfirmedByType ==
  ASSUME NEW req \in Requests, confirmed \in Nat
  PROVE  ConfirmedBy(req) \in Nat
  BY DEF ConfirmedBy, Larger, Requests

LEMMA InitType == ASSUME Init PROVE TypeOK
  BY RequestType, AnswerTypes, StreamAssumption
  DEF Init, TypeOK, FirstRequest

LEMMA NextType == ASSUME TypeOK, [Next]_vars PROVE TypeOK'
<1> USE DEF TypeOK
<1>1. CASE CreateUpdate
  BY <1>1 DEF CreateUpdate, streamVars, callVars, history
<1>2. CASE ServerAnswers
  <2>1. confirmed' \in Nat
    BY <1>2, ConfirmedByType DEF ServerAnswers
  <2>2. answer' \in Answers
    BY <1>2, <2>1, BatchType, AnswerTypes DEF ServerAnswers, Requests
  <2> QED
    BY <1>2, <2>1, <2>2 DEF ServerAnswers, streamVars, history
<1>3. CASE ServerFloods
  BY <1>3, AnswerTypes, StreamAssumption
  DEF ServerFloods, serverVars, streamVars
<1>4. CASE CallFails
  BY <1>4, ConfirmedByType, AnswerTypes DEF CallFails, streamVars, history
<1>5. CASE LateRequest
  BY <1>5, ConfirmedByType DEF LateRequest, streamVars, callVars, history
<1>6. CASE Tick
  BY <1>6 DEF Tick, Countdown, serverVars, callVars
<1>7. CASE SendRequest
  BY <1>7 DEF SendRequest, serverVars, streamVars, history
<1>8. CASE GotUpdates
  BY <1>8, AnswerTypes
  DEF GotUpdates, switch_to_buffered, Answers, serverVars, history
<1>9. CASE GotErrorRetry
  BY <1>9, AnswerTypes, StreamAssumption
  DEF GotErrorRetry, switch_to_idle, IdleTime, Answers, serverVars, history
<1>10. CASE GotErrorEnd
  BY <1>10, AnswerTypes DEF GotErrorEnd, serverVars, history
<1>11. CASE YieldUpdate
  BY <1>11 DEF YieldUpdate, NewOffset, Larger, serverVars, callVars, history
<1>12. CASE BufferDrained
  BY <1>12, RequestType, AnswerTypes, StreamAssumption
  DEF BufferDrained, switch_to_request, serverVars, history
<1>13. CASE DelayElapsed
  BY <1>13, RequestType, AnswerTypes, StreamAssumption
  DEF DelayElapsed, switch_to_request, serverVars, history
<1>14. CASE DelayFails
  BY <1>14 DEF DelayFails, serverVars, callVars, history
<1>15. CASE \E panics \in Panics(taken) : HandleUpdate(panics)
  BY <1>15 DEF HandleUpdate, serverVars, callVars
<1>16. CASE Restart
  BY <1>16, RequestType, AnswerTypes, StreamAssumption
  DEF Restart, FirstRequest
<1>17. CASE UNCHANGED vars
  BY <1>17 DEF vars, serverVars, streamVars, callVars, history
<1> QED
  BY <1>1, <1>2, <1>3, <1>4, <1>5, <1>6, <1>7, <1>8, <1>9, <1>10, <1>11,
     <1>12, <1>13, <1>14, <1>15, <1>16, <1>17
  DEF Next, Poll, StreamPoll, Environment

\* Every variable keeps its type (the whole of poll.rs and its environment).
THEOREM TypeCorrect == Spec => []TypeOK
  BY InitType, NextType, PTL DEF Spec
-----------------------------------------------------------------------------
(* The inductive invariant                                                 *)

LEMMA EmptyWellPlaced ==
  ASSUME NEW ids \in Seq(Nat \ {0}), ids = <<>>
  PROVE  WellPlaced(ids)
  BY DEF WellPlaced

\* What the server returns follows what it has confirmed.
LEMMA BatchWellPlaced ==
  ASSUME TypeOK, NEW c \in Nat, NEW limit \in Nat,
         offset <= c, 1 .. c \subseteq handled
  PROVE  WellPlaced(Batch(c, limit))
<1> DEFINE ids == Batch(c, limit)
<1>1. /\ ids \in Seq(Nat \ {0})
      /\ \A i \in 1 .. Len(ids) : ids[i] = c + i /\ ids[i] <= created
  BY BatchType DEF TypeOK
<1> HIDE DEF ids
<1>2. Len(ids) \in Nat
  BY <1>1
<1>3. ASSUME NEW i \in 1 .. Len(ids)
      PROVE  ids[1] = c + 1
  BY <1>1, <1>2
<1>4. WellPlaced(ids)
  BY SMTT(30), <1>1, <1>2, <1>3 DEF WellPlaced, TypeOK
<1> QED
  BY <1>4 DEF ids

\* Confirming with a request whose earlier updates are handled is safe.
LEMMA ConfirmedBySafe ==
  ASSUME NEW req \in Requests, confirmed \in Nat, ConfirmedHandled,
         1 .. (req.offset - 1) \subseteq handled
  PROVE  /\ 1 .. ConfirmedBy(req) \subseteq handled
         /\ req.offset - 1 <= ConfirmedBy(req)
  BY DEF ConfirmedBy, Larger, ConfirmedHandled, Requests

\* The request of a running stream asks only for updates not yet handled.
LEMMA RequestSafe ==
  ASSUME StreamInv, state = "Running"
  PROVE  /\ taken = 0
         /\ request \in Requests
         /\ 1 .. (request.offset - 1) \subseteq handled
  BY DEF StreamInv, TypeOK, TakenInv, CallInv, OffsetInv

LEMMA TailElements ==
  ASSUME NEW b \in Seq(Nat \ {0}), b # <<>>
  PROVE  /\ Len(b) \in Nat \ {0}
         /\ Tail(b) \in Seq(Nat \ {0})
         /\ Len(Tail(b)) = Len(b) - 1
         /\ \A i \in 1 .. (Len(b) - 1) : Tail(b)[i] = b[i + 1]
  OBVIOUS

\* A queue of consecutive updates stays one when its head is popped.
LEMMA TailConsecutive ==
  ASSUME NEW b \in Seq(Nat \ {0}), b # <<>>, NEW last \in Nat,
         \A i \in 1 .. Len(b) : b[i] = b[1] + (i - 1) /\ b[i] <= last,
         NEW t, t = Tail(b), NEW i \in 1 .. Len(t)
  PROVE  /\ t[i] = t[1] + (i - 1)
         /\ b[1] < t[i]
         /\ t[i] <= last
         /\ t[1] = b[1] + 1
<1>1. /\ Len(b) \in Nat \ {0}
      /\ Len(t) = Len(b) - 1
      /\ \A k \in 1 .. (Len(b) - 1) : t[k] = b[k + 1]
  BY TailElements
<1>2. /\ i \in 1 .. (Len(b) - 1) /\ 1 \in 1 .. (Len(b) - 1)
      /\ 1 \in 1 .. Len(b) /\ 2 \in 1 .. Len(b) /\ i + 1 \in 1 .. Len(b)
  BY <1>1
<1>3. t[1] = b[2] /\ t[i] = b[i + 1]
  BY <1>1, <1>2
<1>4. b[1] \in Nat /\ b[2] = b[1] + 1 /\ b[i + 1] = b[1] + i
  BY <1>2
<1>5. b[i + 1] <= last
  BY <1>2
<1>6. i \in Nat \ {0}
  BY <1>1
<1>7. t[1] = b[1] + 1
  BY <1>3, <1>4
<1>8. t[i] = b[1] + i
  BY <1>3, <1>4
<1>9. t[i] <= last
  BY <1>3, <1>5
<1> QED
  BY SMTT(30), <1>4, <1>6, <1>7, <1>8, <1>9

LEMMA YieldWellPlaced ==
  ASSUME TypeOK, OffsetInv, TakenInv, YieldUpdate
  PROVE  WellPlaced(buffered)'
<1>1. /\ buffered \in Seq(Nat \ {0}) /\ buffered # <<>> /\ created \in Nat
      /\ buffered' = Tail(buffered) /\ taken' = buffered[1]
  BY DEF TypeOK, YieldUpdate
<1>2. \A i \in 1 .. Len(buffered) :
        buffered[i] = buffered[1] + (i - 1) /\ buffered[i] <= created
  BY DEF OffsetInv, WellPlaced
<1>3. /\ taken' \in Nat /\ offset < taken'
      /\ 1 .. (taken' - 1) \subseteq handled
  BY <1>1 DEF TypeOK, OffsetInv, WellPlaced, YieldUpdate
<1>4. /\ offset' = taken' /\ created' = created /\ handled' = handled
      /\ 1 .. taken' \subseteq handled' \cup {taken'}
  BY <1>3 DEF TypeOK, YieldUpdate, NewOffset, Larger, serverVars, history
<1>5. SUFFICES ASSUME NEW i \in 1 .. Len(buffered')
               PROVE  /\ buffered'[i] = buffered'[1] + (i - 1)
                      /\ offset' < buffered'[i]
                      /\ buffered'[i] <= created'
                      /\ 1 .. (buffered'[1] - 1) \subseteq
                           handled' \cup {taken'}
  BY DEF WellPlaced
<1>6. /\ buffered'[i] = buffered'[1] + (i - 1)
      /\ buffered[1] < buffered'[i]
      /\ buffered'[i] <= created
      /\ buffered'[1] = buffered[1] + 1
  BY <1>1, <1>2, TailConsecutive
<1>7. buffered'[1] - 1 = taken'
  BY SMTT(30), <1>1, <1>3, <1>6
<1> QED
  BY <1>1, <1>4, <1>6, <1>7

LEMMA InitInv == ASSUME Init PROVE StreamInv
<1>1. TypeOK
  BY InitType
<1>2. WellPlaced(answer.ids) /\ WellPlaced(buffered)
  BY EmptyWellPlaced, <1>1 DEF Init, NoAnswer, TypeOK
<1> QED
  BY <1>1, <1>2, StreamAssumption
  DEF Init, StreamInv, NoGap, ConfirmedHandled, ServerInv, CallInv, OffsetInv,
      TakenInv, FloodInv, FirstRequest, make_request, NoAnswer

LEMMA NextInv == ASSUME StreamInv, [Next]_vars PROVE StreamInv'
<1> USE DEF StreamInv
<1>0. TypeOK /\ TypeOK'
  BY NextType
<1>1. CASE CreateUpdate
  <2> USE <1>0, <1>1 DEF CreateUpdate, streamVars, callVars, history, TypeOK
  <2>1. NoGap' /\ ConfirmedHandled' /\ TakenInv' /\ FloodInv'
    BY DEF NoGap, ConfirmedHandled, TakenInv, FloodInv
  <2>2. ServerInv'
    BY DEF ServerInv
  <2>3. ASSUME NEW ids \in Seq(Nat \ {0}), WellPlaced(ids)
        PROVE  WellPlaced(ids)'
    BY <2>3 DEF WellPlaced
  <2>4. CallInv'
    BY <2>3 DEF CallInv, Answers
  <2>5. OffsetInv'
    BY <2>3 DEF OffsetInv
  <2> QED
    BY <2>1, <2>2, <2>4, <2>5
<1>2. CASE ServerAnswers
  <2> USE <1>0, <1>2 DEF ServerAnswers, streamVars, history, TypeOK
  <2>1. state = "Running"
    BY DEF CallInv
  <2>2. /\ ConfirmedHandled'
        /\ offset <= confirmed'
    BY <2>1, RequestSafe, ConfirmedBySafe DEF ConfirmedHandled, CallInv
  <2>3. WellPlaced(answer.ids)'
    <3>1. /\ answer'.ids = Batch(confirmed', request.limit)
          /\ request.limit \in Nat
      BY DEF Received, Requests
    <3>2. WellPlaced(Batch(confirmed', request.limit))
      BY <3>1, <2>2, BatchWellPlaced DEF ConfirmedHandled
    <3> QED
      BY <3>1, <3>2 DEF WellPlaced
  <2>4. NoGap' /\ ServerInv' /\ TakenInv' /\ OffsetInv'
    BY DEF NoGap, ServerInv, TakenInv, OffsetInv, WellPlaced
  <2>5. FloodInv'
    BY <2>1 DEF FloodInv, Received
  <2> QED
    BY <2>1, <2>2, <2>3, <2>4, <2>5 DEF CallInv, Received
<1>3. CASE ServerFloods
  <2> USE <1>0, <1>3 DEF ServerFloods, serverVars, streamVars, TypeOK
  <2>1. CallInv'
    BY DEF CallInv, Flood, WellPlaced
  <2>2. OffsetInv'
    BY DEF OffsetInv, WellPlaced
  <2>3. FloodInv'
    BY DEF FloodInv, Flood, CallInv
  <2> QED
    BY <2>1, <2>2, <2>3
    DEF NoGap, ConfirmedHandled, ServerInv, TakenInv
<1>4. CASE CallFails
  <2> USE <1>0, <1>4 DEF CallFails, streamVars, history, TypeOK
  <2>1. state = "Running"
    BY DEF CallInv
  <2>2. ConfirmedHandled'
    BY <2>1, RequestSafe, ConfirmedBySafe DEF ConfirmedHandled
  <2>3. WellPlaced(answer.ids)'
    BY DEF Failure, WellPlaced
  <2> QED
    BY <2>1, <2>2, <2>3
    DEF NoGap, ServerInv, TakenInv, CallInv, OffsetInv, WellPlaced, FloodInv,
        Failure
<1>5. CASE LateRequest
  <2> USE <1>0, <1>5
      DEF LateRequest, streamVars, callVars, history, TypeOK
  <2>1. ConfirmedHandled'
    BY ConfirmedBySafe DEF ServerInv, ConfirmedHandled
  <2> QED
    BY <2>1
    DEF NoGap, ServerInv, TakenInv, CallInv, OffsetInv, WellPlaced, FloodInv
<1>6. CASE Tick
  <2> USE <1>0, <1>6 DEF Tick, serverVars, callVars, TypeOK
  <2>1. FloodInv'
    BY DEF FloodInv, Countdown, Answers
  <2> QED
    BY <2>1
    DEF NoGap, ConfirmedHandled, ServerInv, TakenInv, CallInv, OffsetInv,
        WellPlaced
<1>7. CASE SendRequest
  <2> USE <1>0, <1>7
      DEF SendRequest, serverVars, streamVars, history, TypeOK
  <2> QED
    BY DEF NoGap, ConfirmedHandled, ServerInv, TakenInv, CallInv, OffsetInv,
           WellPlaced, FloodInv
<1>8. CASE GotUpdates
  <2> USE <1>0, <1>8
      DEF GotUpdates, switch_to_buffered, serverVars, history, TypeOK
  <2>1. taken = 0
    BY RequestSafe
  <2>2. CallInv'
    BY DEF CallInv, WellPlaced, NoAnswer
  <2>3. OffsetInv'
    BY <2>1 DEF OffsetInv, CallInv, WellPlaced
  <2>4. FloodInv'
    BY DEF FloodInv, CallInv, Deserializes
  <2> QED
    BY <2>1, <2>2, <2>3, <2>4
    DEF NoGap, ConfirmedHandled, ServerInv, TakenInv
<1>9. CASE GotErrorRetry
  <2> USE <1>0, <1>9
      DEF GotErrorRetry, switch_to_idle, serverVars, history, TypeOK
  <2>1. taken = 0
    BY RequestSafe
  <2>2. CallInv'
    BY DEF CallInv, WellPlaced, NoAnswer
  <2>3. OffsetInv'
    BY <2>1 DEF OffsetInv, WellPlaced
  <2>4. FloodInv'
    BY StreamAssumption DEF FloodInv, CallInv, IdleTime
  <2> QED
    BY <2>1, <2>2, <2>3, <2>4
    DEF NoGap, ConfirmedHandled, ServerInv, TakenInv
<1>10. CASE GotErrorEnd
  <2> USE <1>0, <1>10 DEF GotErrorEnd, serverVars, history, TypeOK
  <2>1. taken = 0
    BY RequestSafe
  <2>2. CallInv'
    BY DEF CallInv, WellPlaced, NoAnswer
  <2>3. OffsetInv'
    BY <2>1 DEF OffsetInv, WellPlaced
  <2> QED
    BY <2>1, <2>2, <2>3
    DEF NoGap, ConfirmedHandled, ServerInv, TakenInv, FloodInv
<1>11. CASE YieldUpdate
  <2> USE <1>0, <1>11
      DEF YieldUpdate, serverVars, callVars, history, TypeOK
  <2>1. /\ offset < Head(buffered)
        /\ Head(buffered) <= created
        /\ 1 .. (Head(buffered) - 1) \subseteq handled
    BY DEF OffsetInv, WellPlaced
  <2>2. offset' = taken'
    BY <2>1 DEF NewOffset, Larger
  <2>3. 1 .. offset' \subseteq handled \cup {taken'}
    BY <2>1, <2>2
  <2>4. WellPlaced(buffered)'
    BY <1>11, YieldWellPlaced
  <2>5. CallInv'
    BY DEF CallInv, WellPlaced, NoAnswer
  <2>6. OffsetInv'
    BY <2>1, <2>2, <2>3, <2>4 DEF OffsetInv
  <2> QED
    BY <2>1, <2>2, <2>5, <2>6
    DEF NoGap, ConfirmedHandled, ServerInv, TakenInv, FloodInv
<1>12. CASE BufferDrained
  <2> USE <1>0, <1>12
      DEF BufferDrained, switch_to_request, serverVars, history, TypeOK
  <2>1. CallInv'
    BY DEF CallInv, WellPlaced, NoAnswer, make_request
  <2>2. OffsetInv'
    BY DEF OffsetInv, WellPlaced
  <2> QED
    BY <2>1, <2>2
    DEF NoGap, ConfirmedHandled, ServerInv, TakenInv, FloodInv
<1>13. CASE DelayElapsed
  <2> USE <1>0, <1>13
      DEF DelayElapsed, switch_to_request, serverVars, history, TypeOK
  <2>1. CallInv'
    BY DEF CallInv, WellPlaced, NoAnswer, make_request
  <2>2. OffsetInv'
    BY DEF OffsetInv, WellPlaced
  <2>3. TakenInv'
    BY DEF TakenInv
  <2> QED
    BY <2>1, <2>2, <2>3 DEF NoGap, ConfirmedHandled, ServerInv, FloodInv
<1>14. CASE DelayFails
  <2> USE <1>0, <1>14
      DEF DelayFails, serverVars, callVars, history, TypeOK
  <2>1. CallInv' /\ OffsetInv'
    BY DEF CallInv, OffsetInv, WellPlaced
  <2>2. TakenInv'
    BY DEF TakenInv
  <2> QED
    BY <2>1, <2>2 DEF NoGap, ConfirmedHandled, ServerInv, FloodInv
<1>15. CASE \E panics \in Panics(taken) : HandleUpdate(panics)
  <2> PICK panics \in BOOLEAN : HandleUpdate(panics)
    BY <1>15 DEF Panics
  <2> USE <1>0 DEF HandleUpdate, serverVars, callVars, TypeOK
  <2>1. /\ state = "BufferedResults" /\ taken = offset /\ taken <= created
        /\ 1 .. taken \subseteq handled \cup {taken}
    BY DEF TakenInv, OffsetInv
  <2>2. NoGap' /\ ConfirmedHandled' /\ ServerInv'
    BY <2>1 DEF NoGap, ConfirmedHandled, ServerInv
  <2>3. CallInv'
    BY <2>1 DEF CallInv, WellPlaced, NoAnswer
  <2>4. OffsetInv'
    BY <2>1 DEF OffsetInv, WellPlaced
  <2> QED
    BY <2>1, <2>2, <2>3, <2>4 DEF TakenInv, FloodInv
<1>16. CASE Restart
  <2> USE <1>0, <1>16 DEF Restart, TypeOK
  <2>1. ServerInv'
    BY RequestSafe DEF ServerInv, CallInv
  <2>2. CallInv' /\ OffsetInv'
    BY DEF CallInv, OffsetInv, WellPlaced, NoAnswer, FirstRequest,
           make_request
  <2> QED
    BY <2>1, <2>2 DEF NoGap, ConfirmedHandled, TakenInv, FloodInv
<1>17. CASE UNCHANGED vars
  BY <1>0, <1>17
  DEF vars, serverVars, streamVars, callVars, history, NoGap,
      ConfirmedHandled, ServerInv, CallInv, OffsetInv, TakenInv, FloodInv,
      WellPlaced
<1> QED
  BY <1>1, <1>2, <1>3, <1>4, <1>5, <1>6, <1>7, <1>8, <1>9, <1>10, <1>11,
     <1>12, <1>13, <1>14, <1>15, <1>16, <1>17
  DEF Next, Poll, StreamPoll, Environment

\* Where the updates between Telegram and the handler are, at every step: the
\* requests under way, the answer and the buffer fit what was handed over
\* (State of poll.rs, make_request and the offset).
THEOREM Invariance == Spec => []StreamInv
  BY InitInv, NextInv, PTL DEF Spec

-----------------------------------------------------------------------------
(* Safety                                                                  *)

\* No update is skipped (poll.rs: queue order and offset).
THEOREM NeverSkips == Spec => []NoGap
  BY Invariance, PTL DEF StreamInv

\* Telegram never forgets an update that was not handled, whatever calls are
\* lost or late and whenever the process dies.
THEOREM NeverLoses == Spec => []ConfirmedHandled
  BY Invariance, PTL DEF StreamInv

\* One process gives its handler an update at most once.
THEOREM NeverRepeats == Spec => []NoRedelivery
<1>1. ASSUME StreamInv PROVE NoRedelivery
  <2> USE <1>1 DEF StreamInv, TypeOK
  <2>1. taken \notin given
    BY DEF OffsetInv
  <2>2. ASSUME NEW i \in DOMAIN buffered PROVE buffered[i] \notin given
    <3>1. offset < buffered[i] /\ buffered[i] \in Nat
      BY DEF OffsetInv, WellPlaced
    <3> QED
      BY <3>1 DEF OffsetInv
  <2> QED
    BY <2>1, <2>2 DEF NoRedelivery
<1> QED
  BY <1>1, Invariance, PTL

\* No call is made before the time of a retry_after has passed.
THEOREM WaitsOutFloods == Spec => []FloodRespected
<1>1. ASSUME StreamInv PROVE FloodRespected
  BY <1>1 DEF StreamInv, CallInv, FloodInv, FloodRespected
<1> QED
  BY <1>1, Invariance, PTL

-----------------------------------------------------------------------------
(* Refinement                                                              *)

LEMMA InitDelivers == ASSUME Init PROVE Delivery!Init
  BY DEF Init, Delivery!Init

LEMMA NextDelivers ==
  ASSUME StreamInv, StreamInv', [Next]_vars
  PROVE  [Delivery!Next]_(Delivery!vars)
<1> USE DEF StreamInv, TypeOK, Delivery!vars, Delivery!Next
<1>1. CASE CreateUpdate
  BY <1>1 DEF CreateUpdate, history, Delivery!Create
<1>2. CASE \E panics \in Panics(taken) : HandleUpdate(panics)
  <2>1. /\ taken \in 1 .. created
        /\ 1 .. (taken - 1) \subseteq handled
    BY <1>2 DEF HandleUpdate, TakenInv, OffsetInv
  <2> QED
    BY <1>2, <2>1 DEF HandleUpdate, serverVars, Delivery!Handle
<1>3. ASSUME UNCHANGED <<created, handled>>, confirmed' >= confirmed
      PROVE  [Delivery!Next]_(Delivery!vars)
  <2>1. CASE confirmed' = confirmed
    BY <1>3, <2>1
  <2>2. CASE confirmed' > confirmed
    <3>1. confirmed' \in 1 .. confirmed'
      BY <2>2
    <3>2. 1 .. confirmed' \subseteq handled /\ confirmed' \in 1 .. created
      BY <1>3, <3>1 DEF ConfirmedHandled, ServerInv
    <3> QED
      BY <1>3, <2>2, <3>2 DEF Delivery!Confirm
  <2> QED
    BY <1>3, <2>1, <2>2
<1>4. \A req \in Requests : ConfirmedBy(req) >= confirmed
  BY SMTT(30) DEF ConfirmedBy, Larger, Requests
<1>5. CASE ServerAnswers \/ CallFails \/ LateRequest
  BY <1>3, <1>4, <1>5
  DEF ServerAnswers, CallFails, LateRequest, history
<1>6. CASE ServerFloods \/ Tick \/ SendRequest \/ GotUpdates
  BY <1>6
  DEF ServerFloods, Tick, SendRequest, GotUpdates, serverVars, history
<1>7. CASE GotErrorRetry \/ GotErrorEnd \/ YieldUpdate
  BY <1>7 DEF GotErrorRetry, GotErrorEnd, YieldUpdate, serverVars, history
<1>8. CASE BufferDrained \/ DelayElapsed \/ DelayFails \/ Restart
  BY <1>8
  DEF BufferDrained, DelayElapsed, DelayFails, Restart, serverVars, history
<1>9. CASE UNCHANGED vars
  BY <1>9 DEF vars, serverVars, history
<1> QED
  BY <1>1, <1>2, <1>5, <1>6, <1>7, <1>8, <1>9 DEF Next, Poll, StreamPoll, Environment

\* Long polling keeps the promise of UpdateDelivery (poll.rs with the
\* getUpdates contract of methods/updates.rs).
THEOREM Refinement == Spec => ImplementsDelivery
<1>1. Init => Delivery!Init
  BY InitDelivers
<1>2. StreamInv /\ StreamInv' /\ [Next]_vars => [Delivery!Next]_(Delivery!vars)
  BY NextDelivers
<1> QED
  BY <1>1, <1>2, Invariance, PTL DEF Spec, ImplementsDelivery, Delivery!Spec

=============================================================================
