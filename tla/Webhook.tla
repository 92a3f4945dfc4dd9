-------------------------------- MODULE Webhook --------------------------------
(***************************************************************************)
(* Updates by webhook: tgbot/src/handler/webhook.rs, served by hyper from  *)
(* handle_updates() of tgbot/src/handler/mod.rs.                           *)
(*                                                                         *)
(* Telegram posts an update over one of its connections until it is        *)
(* answered with 200; others may send requests too. The service puts the   *)
(* update on a bounded queue and answers as soon as it is there; a task of *)
(* its own, the processor, takes the updates off the queue and calls the   *)
(* handler. hyper, the queue (lazy_queue) and Telegram are external: a     *)
(* first-in first-out queue, a connection that serves one request at a     *)
(* time and drops it when the peer goes away.                              *)
(***************************************************************************)
EXTENDS Naturals, Sequences

CONSTANTS
  Updates,      \* the updates Telegram has for the bot
  Connections,
  QueueSize,    \* QUEUE_SIZE
  Poison        \* updates on which UpdateHandler::handle may panic

ASSUME WebhookAssumption ==
  /\ QueueSize \in Nat \ {0}
  /\ Poison \subseteq Updates

Strays == {"wrong_method", "wrong_path", "garbage"}

ASSUME StrayAssumption == Updates \cap (Strays \cup {"none"}) = {}

VARIABLES
  conn,       \* the request each connection is serving, and how far it is
  queue,      \* updates on the queue
  processor,  \* the future made by LazyQueue::new
  acked,      \* Telegram: updates it got a 200 for
  handled,    \* history: updates the handler was called with
  lost,       \* history: updates on a queue whose process or processor died
  posted,     \* history: updates Telegram has posted
  seen        \* history: acked, when the update was first posted

vars == <<conn, queue, processor, acked, handled, lost, posted, seen>>

history == <<handled, lost, posted, seen>>

OnQueue == {queue[i] : i \in 1 .. Len(queue)}

Ahead(i) == {queue[j] : j \in 1 .. (i - 1)}

\* What is being done for a request of a connection.
At(stage, request, status) ==
  [stage |-> stage, request |-> request, status |-> status]

Closed == At("closed", "none", 0)
Open   == At("open", "none", 0)

Answered(request, status) == At("answered", request, status)

-----------------------------------------------------------------------------

\* The first connection starts the processor; in the mutant nothing does.
make_service_alone(c) ==
  /\ conn[c] = Closed
  /\ conn' = [conn EXCEPT ![c] = Open]
  /\ UNCHANGED <<queue, processor, acked, history>>

make_service(c) ==
  /\ conn[c] = Closed
  /\ conn' = [conn EXCEPT ![c] = Open]
  /\ processor' = IF processor = "new" THEN "running" ELSE processor
  /\ UNCHANGED <<queue, acked, history>>

\* WebhookService::call, by method and path.
call(c, request) ==
  /\ conn[c] = Open
  /\ conn' = [conn EXCEPT ![c] =
       CASE request = "wrong_method" -> Answered(request, 405)
         [] request = "wrong_path" -> Answered(request, 404)
         [] OTHER -> At("body", request, 0)]

Post(c, u) ==
  /\ u \notin acked
  /\ call(c, u)
  /\ posted' = posted \cup {u}
  /\ seen' = IF u \in posted THEN seen ELSE [seen EXCEPT ![u] = acked]
  /\ UNCHANGED <<queue, processor, acked, handled, lost>>

StrayRequest(c) ==
  /\ \E request \in Strays : call(c, request)
  /\ UNCHANGED <<queue, processor, acked, history>>

\* put_on_a_queue: the body is complete and parsed.
Body(c) ==
  /\ conn[c].stage = "body"
  /\ conn' = [conn EXCEPT ![c] =
       IF @.request = "garbage" THEN Answered(@.request, 400)
                                ELSE At("send", @.request, 0)]
  /\ UNCHANGED <<queue, processor, acked, history>>

\* put_on_a_queue: queue.send() waits while the queue is full. The mutant
\* does not wait.
Send_drops(c) ==
  /\ conn[c].stage = "send"
  /\ processor = "running"
  /\ conn' = [conn EXCEPT ![c] = Answered(@.request, 200)]
  /\ queue' = IF Len(queue) < QueueSize THEN Append(queue, conn[c].request)
                                        ELSE queue
  /\ UNCHANGED <<processor, acked, history>>

Send(c) ==
  /\ conn[c].stage = "send"
  /\ processor = "running"
  /\ Len(queue) < QueueSize
  /\ conn' = [conn EXCEPT ![c] = Answered(@.request, 200)]
  /\ queue' = Append(queue, conn[c].request)
  /\ UNCHANGED <<processor, acked, history>>

\* put_on_a_queue: the receiving end has been dropped.
SendFails(c) ==
  /\ conn[c].stage = "send"
  /\ processor = "dead"
  /\ conn' = [conn EXCEPT ![c] = Answered(@.request, 500)]
  /\ UNCHANGED <<queue, processor, acked, history>>

\* The response reaches the peer and the connection is free again.
Respond(c) ==
  /\ conn[c].stage = "answered"
  /\ conn' = [conn EXCEPT ![c] = Open]
  /\ acked' = IF conn[c].status = 200 THEN acked \cup {conn[c].request}
                                      ELSE acked
  /\ UNCHANGED <<queue, processor, history>>

\* The peer goes away, or gives up waiting: what was done for the request
\* stays done, and no response arrives.
Disconnect(c) ==
  /\ conn[c] # Closed
  /\ conn' = [conn EXCEPT ![c] = Closed]
  /\ UNCHANGED <<queue, processor, acked, history>>

\* The processor calls the handler with the first update (in the mutant the
\* newest); a panic of the handler takes the processor and what it had to do
\* with it.
Process_newest ==
  /\ processor = "running"
  /\ queue # <<>>
  /\ handled' = handled \cup {queue[Len(queue)]}
  /\ queue' = SubSeq(queue, 1, Len(queue) - 1)
  /\ UNCHANGED <<conn, processor, acked, lost, posted, seen>>

Process ==
  /\ processor = "running"
  /\ queue # <<>>
  /\ handled' = handled \cup {Head(queue)}
  /\ \/ /\ queue' = Tail(queue)
        /\ UNCHANGED <<processor, lost>>
     \/ /\ Head(queue) \in Poison
        /\ processor' = "dead"
        /\ queue' = <<>>
        /\ lost' = lost \cup OnQueue
  /\ UNCHANGED <<conn, acked, posted, seen>>

\* The process dies and is started again.
Restart ==
  /\ conn' = [c \in Connections |-> Closed]
  /\ queue' = <<>>
  /\ processor' = "new"
  /\ lost' = lost \cup OnQueue
  /\ UNCHANGED <<acked, handled, posted, seen>>

Init ==
  /\ conn = [c \in Connections |-> Closed]
  /\ queue = <<>>
  /\ processor = "new"
  /\ acked = {}
  /\ handled = {}
  /\ lost = {}
  /\ posted = {}
  /\ seen = [u \in Updates |-> {}]

Serve(c) ==
  \/ Body(c)
  \/ Send(c)
  \/ SendFails(c)
  \/ Respond(c)

Next ==
  \/ \E c \in Connections :
       \/ make_service(c)
       \/ \E u \in Updates : Post(c, u)
       \/ StrayRequest(c)
       \/ Serve(c)
       \/ Disconnect(c)
  \/ Process
  \/ Restart

Spec == Init /\ [][Next]_vars

\* The executor polls what it was given and wakes the senders that wait for
\* room in turn; Telegram connects and keeps posting what was not accepted.
FairSpec ==
  /\ Spec
  /\ WF_vars(Process)
  /\ \A c \in Connections :
       /\ WF_vars(make_service(c))
       /\ WF_vars(Body(c) \/ SendFails(c) \/ Respond(c))
       /\ SF_vars(Send(c))
  /\ \A u \in Updates : SF_vars(\E c \in Connections : Post(c, u))

-----------------------------------------------------------------------------
(* Properties                                                              *)

Stages == {"closed", "open", "body", "send", "answered"}

TypeOK ==
  /\ conn \in [Connections ->
       [stage : Stages, request : Updates \cup Strays \cup {"none"},
        status : {0, 200, 400, 404, 405, 500}]]
  /\ queue \in Seq(Updates)
  /\ processor \in {"new", "running", "dead"}
  /\ acked \subseteq Updates
  /\ handled \subseteq Updates
  /\ lost \subseteq Updates
  /\ posted \subseteq Updates
  /\ seen \in [Updates -> SUBSET Updates]

\* Where an update is not forgotten, or is known to have been lost.
Safe == handled \cup OnQueue \cup lost

\* What Telegram was told 200 for, and will not send again, is handled, on
\* the queue, or was on the queue of a process or a processor that died
\* (webhook.rs, put_on_a_queue answers after send() is done).
AckedKept == acked \subseteq Safe

\* An update that was acknowledged before another was first sent is handled
\* before it too, unless it was lost (webhook.rs: one queue for all
\* connections and one processor).
OrderKept ==
  \A u \in handled : seen[u] \subseteq handled \cup lost

\* An update that is acknowledged is handled before the next crash, however
\* many senders wait for room; and one that never is gets posted again. Only a
\* handler that panicked keeps that from happening, until the next start.
EventuallyHandled ==
  /\ <>[][~Restart /\ \A c \in Connections : ~Disconnect(c)]_vars
  /\ []<>(processor # "dead")
  =>
    \A u \in Updates : <>(u \in handled \cup lost)

-----------------------------------------------------------------------------
(* The inductive invariant behind them                                     *)

\* A request is answered 200 only for an update that is on the queue, or was.
AnsweredInv ==
  \A c \in Connections :
    /\ conn[c].status = 200 => conn[c].request \in Safe
    /\ conn[c].stage = "send" => conn[c].request \in Updates
    /\ conn[c].stage = "body" => conn[c].request \in Updates \cup {"garbage"}

\* Ahead of every update on the queue is what was acknowledged before it.
QueueInv ==
  \A i \in 1 .. Len(queue) :
    seen[queue[i]] \subseteq handled \cup lost \cup Ahead(i)

\* What was acknowledged when an update was first posted is safe, and an
\* update in a request, on the queue or handled has been posted.
SeenInv ==
  /\ \A u \in Updates : seen[u] \subseteq Safe
  /\ \A c \in Connections : conn[c].request \in Updates => conn[c].request \in posted
  /\ Safe \subseteq posted

\* All that is true between two steps of the service and its processor
\* (webhook.rs as a whole).
WebhookInv ==
  TypeOK /\ AckedKept /\ OrderKept /\ AnsweredInv /\ QueueInv /\ SeenInv
=============================================================================
