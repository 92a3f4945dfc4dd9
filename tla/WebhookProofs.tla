----------------------------- MODULE WebhookProofs -----------------------------
(***************************************************************************)
(* Proofs about Webhook, for any number of updates and connections and any *)
(* size of the queue. The inductive invariant is WebhookInv: an update may *)
(* be acknowledged only after it was answered with 200, which it is only   *)
(* after it was queued, and what was acknowledged before an update was     *)
(* posted is ahead of it on the queue.                                     *)
(***************************************************************************)
EXTENDS Webhook, TLAPS

\* Two facts about the two ends of a sequence of updates.
LEMMA AppendFacts ==
  ASSUME NEW q \in Seq(Updates), NEW u \in Updates
  PROVE  /\ Append(q, u) \in Seq(Updates)
         /\ Len(Append(q, u)) = Len(q) + 1
         /\ \A i \in 1 .. Len(q) : Append(q, u)[i] = q[i]
         /\ Append(q, u)[Len(q) + 1] = u
         /\ Len(q) \in Nat
  OBVIOUS

LEMMA TailFacts ==
  ASSUME NEW q \in Seq(Updates), q # <<>>
  PROVE  /\ Head(q) \in Updates
         /\ Head(q) = q[1]
         /\ Tail(q) \in Seq(Updates)
         /\ Len(q) \in Nat \ {0}
         /\ Len(Tail(q)) = Len(q) - 1
         /\ \A i \in 1 .. Len(Tail(q)) : Tail(q)[i] = q[i + 1]
  OBVIOUS

-----------------------------------------------------------------------------
(* The queue                                                               *)

LEMMA QueueType == TypeOK => OnQueue \subseteq Updates
  BY DEF TypeOK, OnQueue

\* Sending adds one update at the end.
LEMMA SendQueue ==
  ASSUME TypeOK, NEW c \in Connections, conn[c].request \in Updates, Send(c)
  PROVE  /\ queue' \in Seq(Updates)
         /\ OnQueue' = OnQueue \cup {conn[c].request}
         /\ Len(queue') = Len(queue) + 1
         /\ queue'[Len(queue) + 1] = conn[c].request
         /\ \A i \in 1 .. Len(queue) : queue'[i] = queue[i]
<1>1. /\ queue \in Seq(Updates)
      /\ queue' = Append(queue, conn[c].request)
  BY DEF TypeOK, Send
<1>2. /\ queue' \in Seq(Updates)
      /\ Len(queue) \in Nat
      /\ Len(queue') = Len(queue) + 1
      /\ queue'[Len(queue) + 1] = conn[c].request
      /\ \A i \in 1 .. Len(queue) : queue'[i] = queue[i]
  BY <1>1, AppendFacts
<1>3. 1 .. Len(queue') = 1 .. Len(queue) \cup {Len(queue) + 1}
  BY <1>2
<1>4. OnQueue' = {queue'[i] : i \in 1 .. Len(queue')}
  BY DEF OnQueue
<1>5. {queue'[i] : i \in 1 .. Len(queue)} = OnQueue
  BY <1>2 DEF OnQueue
<1> QED
  BY <1>2, <1>3, <1>4, <1>5

\* Taking the first update off leaves the others in their order.
LEMMA TailQueue ==
  ASSUME TypeOK, queue # <<>>, queue' = Tail(queue)
  PROVE  /\ queue' \in Seq(Updates)
         /\ Head(queue) \in Updates
         /\ Head(queue) = queue[1]
         /\ OnQueue \subseteq OnQueue' \cup {Head(queue)}
         /\ OnQueue' \subseteq OnQueue
         /\ Len(queue) \in Nat \ {0}
         /\ Len(queue') = Len(queue) - 1
         /\ \A i \in 1 .. Len(queue') : queue'[i] = queue[i + 1]
<1>1. queue \in Seq(Updates)
  BY DEF TypeOK
<1>2. /\ queue' \in Seq(Updates)
      /\ Head(queue) \in Updates
      /\ Head(queue) = queue[1]
      /\ Len(queue) \in Nat \ {0}
      /\ Len(queue') = Len(queue) - 1
      /\ \A i \in 1 .. Len(queue') : queue'[i] = queue[i + 1]
  BY <1>1, TailFacts
<1>3. ASSUME NEW i \in 1 .. Len(queue), i # 1
      PROVE  queue[i] \in OnQueue'
  <2>1. i - 1 \in 1 .. Len(queue') /\ queue'[i - 1] = queue[i]
    BY <1>2, <1>3
  <2> QED
    BY <2>1 DEF OnQueue
<1>4. OnQueue \subseteq OnQueue' \cup {Head(queue)}
  BY <1>2, <1>3 DEF OnQueue
<1>5. \A i \in 1 .. Len(queue') : i + 1 \in 1 .. Len(queue)
  BY <1>2
<1>6. OnQueue' \subseteq OnQueue
  BY <1>2, <1>5 DEF OnQueue
<1> QED
  BY <1>2, <1>4, <1>6

-----------------------------------------------------------------------------
(* Types                                                                   *)

LEMMA InitInv == Init => WebhookInv
<1> SUFFICES ASSUME Init PROVE WebhookInv
  OBVIOUS
<1>1. OnQueue = {} /\ Len(queue) = 0
  BY DEF Init, OnQueue
<1>2. TypeOK
  BY DEF Init, TypeOK, Closed, At, Stages
<1>3. AnsweredInv
  BY DEF Init, AnsweredInv, Closed, At
<1>4. SeenInv
  BY <1>1, StrayAssumption DEF Init, SeenInv, Closed, At, Safe
<1>5. QueueInv
  BY <1>1 DEF QueueInv
<1> QED
  BY <1>2, <1>3, <1>4, <1>5
  DEF Init, WebhookInv, AckedKept, OrderKept

Requests == Updates \cup Strays \cup {"none"}

Statuses == {0, 200, 400, 404, 405, 500}

ConnType == [Connections ->
  [stage : Stages, request : Requests, status : Statuses]]

LEMMA TypeStep ==
  ASSUME TypeOK, AnsweredInv, [Next]_vars
  PROVE  TypeOK'
<1> USE DEF ConnType, Requests, Statuses
<1>1. ASSUME NEW c \in Connections, make_service(c)
      PROVE  TypeOK'
  BY <1>1 DEF TypeOK, make_service, history, Open, At, Stages
<1>2. ASSUME NEW c \in Connections, NEW u \in Updates, Post(c, u)
      PROVE  TypeOK'
  <2>1. conn' \in ConnType
    BY <1>2 DEF TypeOK, Post, call, Answered, At, Stages, Strays
  <2>2. seen' \in [Updates -> SUBSET Updates]
    BY <1>2 DEF TypeOK, Post
  <2> QED
    BY <1>2, <2>1, <2>2 DEF TypeOK, Post
<1>3. ASSUME NEW c \in Connections, StrayRequest(c)
      PROVE  TypeOK'
  BY <1>3 DEF TypeOK, StrayRequest, call, Answered, At, Stages, Strays, history
<1>4. ASSUME NEW c \in Connections, Body(c)
      PROVE  TypeOK'
  BY <1>4 DEF TypeOK, Body, Answered, At, Stages, history
<1>5. ASSUME NEW c \in Connections, Send(c)
      PROVE  TypeOK'
  <2>1. queue' \in Seq(Updates)
    BY <1>5, SendQueue DEF AnsweredInv, Send
  <2>2. conn' \in ConnType
    BY <1>5 DEF TypeOK, Send, Answered, At, Stages
  <2> QED
    BY <1>5, <2>1, <2>2 DEF TypeOK, Send, history
<1>6. ASSUME NEW c \in Connections, SendFails(c)
      PROVE  TypeOK'
  BY <1>6 DEF TypeOK, SendFails, Answered, At, Stages, history
<1>7. ASSUME NEW c \in Connections, Respond(c)
      PROVE  TypeOK'
  <2>1. conn[c].status = 200 => conn[c].request \in Updates
    BY QueueType DEF AnsweredInv, Safe, TypeOK
  <2>2. acked' \subseteq Updates
    BY <1>7, <2>1 DEF TypeOK, Respond
  <2>3. conn' \in ConnType
    BY <1>7 DEF TypeOK, Respond, Open, At, Stages
  <2> QED
    BY <1>7, <2>2, <2>3 DEF TypeOK, Respond, history
<1>8. ASSUME NEW c \in Connections, Disconnect(c)
      PROVE  TypeOK'
  BY <1>8 DEF TypeOK, Disconnect, Closed, At, Stages, history
<1>9. CASE Process
  <2>1. Head(queue) \in Updates
    BY <1>9, TailFacts DEF TypeOK, Process
  <2>2. queue' \in Seq(Updates)
    <3>1. CASE queue' = <<>>
      BY <3>1
    <3>2. CASE queue' = Tail(queue)
      BY <1>9, <3>2, TailQueue DEF Process
    <3> QED
      BY <1>9, <3>1, <3>2 DEF Process
  <2>3. OnQueue \subseteq Updates
    BY QueueType
  <2> QED
    BY <1>9, <2>1, <2>2, <2>3 DEF TypeOK, Process
<1>10. CASE Restart
  BY <1>10, QueueType DEF TypeOK, Restart, Closed, At, Stages
<1>11. CASE UNCHANGED vars
  BY <1>11 DEF TypeOK, vars
<1> QED
  BY <1>1, <1>2, <1>3, <1>4, <1>5, <1>6, <1>7, <1>8, <1>9, <1>10, <1>11
  DEF Next, Serve

-----------------------------------------------------------------------------
(* What a step does to the queue and to what is safe                       *)

\* Nothing that is safe stops being safe.
LEMMA SafeGrows ==
  ASSUME WebhookInv, [Next]_vars
  PROVE  Safe \subseteq Safe'
<1> USE DEF WebhookInv
<1>1. ASSUME NEW c \in Connections, Send(c)
      PROVE  Safe \subseteq Safe'
  <2>1. OnQueue \subseteq OnQueue'
    BY <1>1, SendQueue DEF AnsweredInv, Send
  <2> QED
    BY <1>1, <2>1 DEF Send, Safe, history
<1>2. CASE Process
  <2>1. CASE queue' = Tail(queue)
    <3>1. OnQueue \subseteq OnQueue' \cup {Head(queue)}
      BY <1>2, <2>1, TailQueue DEF Process
    <3> QED
      BY <1>2, <3>1 DEF Process, Safe
  <2>2. CASE lost' = lost \cup OnQueue
    BY <1>2, <2>2 DEF Process, Safe
  <2> QED
    BY <1>2, <2>1, <2>2 DEF Process
<1>3. CASE Restart
  BY <1>3 DEF Restart, Safe
<1>4. ASSUME UNCHANGED <<queue, handled, lost>>
      PROVE  Safe \subseteq Safe'
  BY <1>4 DEF Safe, OnQueue
<1> QED
  BY <1>1, <1>2, <1>3, <1>4
  DEF Next, Serve, make_service, Post, StrayRequest, Body, SendFails, Respond,
      Disconnect, vars, history

\* Everything that becomes safe was in a request.
LEMMA SafePosted ==
  ASSUME WebhookInv, [Next]_vars
  PROVE  Safe' \subseteq posted'
<1> USE DEF WebhookInv
<1>1. ASSUME NEW c \in Connections, Send(c)
      PROVE  Safe' \subseteq posted'
  <2>1. OnQueue' = OnQueue \cup {conn[c].request}
    BY <1>1, SendQueue DEF AnsweredInv, Send
  <2>2. conn[c].request \in posted
    BY <1>1 DEF AnsweredInv, SeenInv, Send
  <2> QED
    BY <1>1, <2>1, <2>2 DEF Send, Safe, SeenInv, history
<1>2. CASE Process
  <2>1. queue \in Seq(Updates) /\ queue # <<>>
    BY <1>2 DEF Process, TypeOK
  <2>2. Head(queue) \in OnQueue
    BY <2>1, TailFacts DEF OnQueue
  <2>3. OnQueue' \subseteq OnQueue
    <3>1. CASE queue' = Tail(queue)
      BY <2>1, <3>1, TailQueue
    <3>2. CASE queue' = <<>>
      BY <3>2 DEF OnQueue
    <3> QED
      BY <1>2, <3>1, <3>2 DEF Process
  <2> QED
    BY <1>2, <2>2, <2>3 DEF Process, Safe, SeenInv
<1>3. CASE Restart
  <2>1. OnQueue' = {}
    BY <1>3 DEF Restart, OnQueue
  <2> QED
    BY <1>3, <2>1 DEF Restart, Safe, SeenInv
<1>4. ASSUME UNCHANGED <<queue, handled, lost>>, posted \subseteq posted'
      PROVE  Safe' \subseteq posted'
  BY <1>4 DEF Safe, OnQueue, SeenInv
<1> QED
  BY <1>1, <1>2, <1>3, <1>4
  DEF Next, Serve, make_service, Post, StrayRequest, Body, SendFails, Respond,
      Disconnect, vars, history

\* An update gets what was acknowledged before it only while it is new.
LEMMA SeenStep ==
  ASSUME WebhookInv, [Next]_vars, NEW u \in posted
  PROVE  u \in Updates /\ seen'[u] = seen[u] /\ u \in posted'
  BY DEF WebhookInv, TypeOK, Next, Serve, make_service, Post, StrayRequest,
         Body, Send, SendFails, Respond, Disconnect, Process, Restart, vars,
         history

-----------------------------------------------------------------------------
(* Every step keeps every part of the invariant                            *)

LEMMA AckedStep ==
  ASSUME WebhookInv, [Next]_vars
  PROVE  AckedKept'
<1>1. Safe \subseteq Safe'
  BY SafeGrows
<1>2. ASSUME NEW u \in acked'
      PROVE  u \in Safe
  BY <1>2
  DEF WebhookInv, AckedKept, AnsweredInv, Next, Serve, make_service, Post,
      StrayRequest, Body, Send, SendFails, Respond, Disconnect, Process,
      Restart, vars, history
<1> QED
  BY <1>1, <1>2 DEF AckedKept

LEMMA AnsweredStep ==
  ASSUME WebhookInv, [Next]_vars
  PROVE  AnsweredInv'
<1> USE DEF WebhookInv
<1>1. Safe \subseteq Safe'
  BY SafeGrows
<1> SUFFICES
      ASSUME NEW c \in Connections
      PROVE  /\ conn'[c].status = 200 => conn'[c].request \in Safe'
             /\ conn'[c].stage = "send" => conn'[c].request \in Updates
             /\ conn'[c].stage = "body" =>
                  conn'[c].request \in Updates \cup {"garbage"}
  BY DEF AnsweredInv
<1>2. CASE conn'[c] = conn[c]
  BY <1>1, <1>2 DEF AnsweredInv
<1>3. CASE conn'[c] \in {Closed, Open}
  BY <1>3 DEF Closed, Open, At
<1>4. CASE \E request \in Updates \cup Strays : call(c, request)
  BY <1>4 DEF TypeOK, call, Answered, At, Strays
<1>5. CASE Body(c)
  BY <1>5 DEF AnsweredInv, TypeOK, Body, Answered, At
<1>6. CASE Send(c)
  <2>1. conn[c].request \in OnQueue'
    BY <1>6, SendQueue DEF AnsweredInv, Send
  <2> QED
    BY <1>6, <2>1 DEF TypeOK, Send, Answered, At, Safe
<1>7. CASE SendFails(c)
  BY <1>7 DEF TypeOK, SendFails, Answered, At
<1>8. ASSUME NEW d \in Connections, d # c,
             \/ \E request \in Updates \cup Strays : call(d, request)
             \/ make_service(d) \/ Serve(d) \/ Disconnect(d)
      PROVE  conn'[c] = conn[c]
  BY <1>8 DEF TypeOK, call, make_service, Serve, Body, Send, SendFails, Respond,
              Disconnect
<1>9. CASE \E d \in Connections :
             \/ \E request \in Updates \cup Strays : call(d, request)
             \/ make_service(d) \/ Serve(d) \/ Disconnect(d)
  <2>1. CASE make_service(c) \/ Respond(c) \/ Disconnect(c)
    BY <1>3, <2>1 DEF TypeOK, make_service, Respond, Disconnect
  <2> QED
    BY <1>2, <1>4, <1>5, <1>6, <1>7, <1>8, <1>9, <2>1 DEF Serve
<1>10. CASE Process \/ UNCHANGED vars
  BY <1>2, <1>10 DEF Process, vars
<1>11. CASE Restart
  BY <1>3, <1>11 DEF Restart
<1> QED
  BY <1>9, <1>10, <1>11 DEF Next, Post, StrayRequest

LEMMA OrderStep ==
  ASSUME WebhookInv, [Next]_vars
  PROVE  OrderKept'
<1> USE DEF WebhookInv
<1>1. handled \cup lost \subseteq handled' \cup lost'
  BY DEF Next, Serve, make_service, Post, StrayRequest, Body, Send, SendFails,
         Respond, Disconnect, Process, Restart, vars, history
<1>2. ASSUME NEW u \in handled
      PROVE  seen'[u] \subseteq handled' \cup lost'
  <2>1. seen'[u] = seen[u]
    BY <1>2, SeenStep DEF SeenInv, Safe
  <2> QED
    BY <1>1, <1>2, <2>1 DEF OrderKept
<1>3. CASE Process
  <2>1. queue \in Seq(Updates) /\ queue # <<>>
    BY <1>3 DEF Process, TypeOK
  <2>2. 1 \in 1 .. Len(queue) /\ Head(queue) = queue[1]
    BY <2>1, TailFacts
  <2>3. Ahead(1) = {}
    BY DEF Ahead
  <2>4. seen[Head(queue)] \subseteq handled \cup lost
    BY <2>2, <2>3 DEF QueueInv
  <2>5. seen'[Head(queue)] \subseteq handled' \cup lost'
    BY <1>1, <1>3, <2>4 DEF Process
  <2> QED
    BY <1>2, <1>3, <2>5 DEF Process, OrderKept
<1>4. CASE ~Process
  <2>1. handled' = handled
    BY <1>4 DEF Next, Serve, make_service, Post, StrayRequest, Body, Send,
                SendFails, Respond, Disconnect, Restart, vars, history
  <2> QED
    BY <1>2, <2>1 DEF OrderKept
<1> QED
  BY <1>3, <1>4

LEMMA QueueStep ==
  ASSUME WebhookInv, [Next]_vars
  PROVE  QueueInv'
<1> USE DEF WebhookInv
<1>1. Len(queue) \in Nat /\ queue \in Seq(Updates)
  BY DEF TypeOK
<1>2. ASSUME NEW i \in 1 .. Len(queue)
      PROVE  seen'[queue[i]] \subseteq handled \cup lost \cup Ahead(i)
  <2>1. queue[i] \in posted
    BY <1>2 DEF SeenInv, Safe, OnQueue
  <2> QED
    BY <1>2, <2>1, SeenStep DEF QueueInv
<1>3. ASSUME NEW c \in Connections, Send(c)
      PROVE  QueueInv'
  <2> DEFINE u == conn[c].request
             last == Len(queue) + 1
  <2>1. /\ Len(queue') = last
        /\ queue'[last] = u
        /\ \A i \in 1 .. Len(queue) : queue'[i] = queue[i]
        /\ u \in Updates
    BY <1>3, SendQueue DEF AnsweredInv, Send
  <2>2. seen' = seen /\ handled' = handled /\ lost' = lost
    BY <1>3 DEF Send, history
  <2>3. ASSUME NEW i \in 1 .. last
        PROVE  Ahead(i)' = Ahead(i)
    <3>1. 1 .. (i - 1) \subseteq 1 .. Len(queue)
      BY <1>1, <2>3
    <3> QED
      BY <2>1, <3>1 DEF Ahead
  <2>4. Ahead(last) = OnQueue
    BY <1>1 DEF Ahead, OnQueue
  <2>5. seen[u] \subseteq handled \cup lost \cup Ahead(last)
    BY <2>1, <2>4 DEF SeenInv, Safe
  <2>6. ASSUME NEW i \in 1 .. Len(queue')
        PROVE  seen'[queue'[i]] \subseteq handled' \cup lost' \cup Ahead(i)'
    <3>1. i \in 1 .. last
      BY <2>1, <2>6
    <3>2. CASE i = last
      BY <2>1, <2>2, <2>3, <2>5, <3>1, <3>2
    <3>3. CASE i \in 1 .. Len(queue)
      BY <1>2, <2>1, <2>2, <2>3, <3>1, <3>3
    <3> QED
      BY <1>1, <3>1, <3>2, <3>3
  <2> QED
    BY <2>6 DEF QueueInv
<1>4. CASE Process
  <2>1. CASE queue' = <<>>
    BY <2>1 DEF QueueInv
  <2>2. CASE queue' = Tail(queue)
    <3>1. /\ Len(queue') = Len(queue) - 1
          /\ \A i \in 1 .. Len(queue') : queue'[i] = queue[i + 1]
          /\ Head(queue) = queue[1]
      BY <1>4, <2>2, TailQueue DEF Process
    <3>2. /\ handled' = handled \cup {queue[1]}
          /\ lost \subseteq lost'
      BY <1>4, <3>1 DEF Process
    <3>3. ASSUME NEW i \in 1 .. Len(queue')
          PROVE  Ahead(i + 1) \subseteq {queue[1]} \cup Ahead(i)'
      <4>1. SUFFICES ASSUME NEW j \in 1 .. i, j # 1
                     PROVE  queue[j] \in Ahead(i)'
        BY <1>1, <3>1, <3>3 DEF Ahead
      <4>2. j - 1 \in 1 .. (i - 1) /\ queue'[j - 1] = queue[j]
        BY <1>1, <3>1, <3>3, <4>1
      <4> QED
        BY <4>2 DEF Ahead
    <3>4. ASSUME NEW i \in 1 .. Len(queue')
          PROVE  seen'[queue'[i]] \subseteq handled' \cup lost' \cup Ahead(i)'
      <4>1. i + 1 \in 1 .. Len(queue)
        BY <1>1, <3>1, <3>4
      <4>2. seen'[queue[i + 1]] \subseteq handled \cup lost \cup Ahead(i + 1)
        BY <1>2, <4>1
      <4> QED
        BY <3>1, <3>2, <3>3, <4>2
    <3> QED
      BY <3>4 DEF QueueInv
  <2> QED
    BY <1>4, <2>1, <2>2 DEF Process
<1>5. CASE Restart
  BY <1>5 DEF Restart, QueueInv
<1>6. ASSUME UNCHANGED <<queue, handled, lost>>
      PROVE  QueueInv'
  <2>1. \A i \in 1 .. Len(queue) : Ahead(i)' = Ahead(i)
    BY <1>6 DEF Ahead
  <2> QED
    BY <1>2, <1>6, <2>1 DEF QueueInv
<1> QED
  BY <1>3, <1>4, <1>5, <1>6
  DEF Next, Serve, make_service, Post, StrayRequest, Body, SendFails, Respond,
      Disconnect, vars, history

LEMMA SeenInvStep ==
  ASSUME WebhookInv, [Next]_vars
  PROVE  SeenInv'
<1> USE DEF WebhookInv
<1>1. ASSUME NEW u \in Updates
      PROVE  seen'[u] \subseteq Safe'
  <2>1. seen'[u] \in {seen[u], acked}
    BY DEF TypeOK, Next, Serve, make_service, Post, StrayRequest, Body, Send,
           SendFails, Respond, Disconnect, Process, Restart, vars, history
  <2> QED
    BY <2>1, SafeGrows DEF SeenInv, AckedKept
<1>2. ASSUME NEW c \in Connections, conn'[c].request \in Updates
      PROVE  conn'[c].request \in posted'
  <2>1. CASE conn'[c].request = conn[c].request
    BY <1>2, <2>1, SeenStep DEF SeenInv
  <2>2. CASE \E u \in Updates : Post(c, u)
    BY <1>2, <2>2 DEF TypeOK, Post, call, Answered, At
  <2>3. CASE conn'[c].request \in Strays \cup {"none"}
    BY <1>2, <2>3, StrayAssumption
  <2>4. ASSUME NEW d \in Connections,
               \/ \E u \in Updates : d # c /\ Post(d, u)
               \/ StrayRequest(d)
        PROVE  \/ conn'[c].request = conn[c].request
               \/ conn'[c].request \in Strays
    BY <2>4 DEF TypeOK, Post, StrayRequest, call, Answered, At
  <2>5. ASSUME NEW d \in Connections, make_service(d) \/ Serve(d) \/ Disconnect(d)
        PROVE  \/ conn'[c].request = conn[c].request
               \/ conn'[c].request = "none"
    BY <2>5 DEF TypeOK, make_service, Serve, Body, Send, SendFails, Respond,
                Disconnect, Closed, Open, Answered, At
  <2>6. CASE Process \/ UNCHANGED vars
    BY <2>1, <2>6 DEF Process, vars
  <2>7. CASE Restart
    BY <2>3, <2>7 DEF Restart, Closed, At
  <2> QED
    BY <2>1, <2>2, <2>3, <2>4, <2>5, <2>6, <2>7 DEF Next
<1> QED
  BY <1>1, <1>2, SafePosted DEF SeenInv

-----------------------------------------------------------------------------

\* The invariant holds in every state (webhook.rs as a whole).
THEOREM Invariance == Spec => []WebhookInv
<1>1. WebhookInv /\ [Next]_vars => WebhookInv'
  BY TypeStep, AckedStep, OrderStep, AnsweredStep, QueueStep, SeenInvStep
  DEF WebhookInv
<1> QED
  BY InitInv, <1>1, PTL DEF Spec

\* Every variable keeps its type (webhook.rs).
THEOREM TypeCorrect == Spec => []TypeOK
<1>1. WebhookInv => TypeOK
  BY DEF WebhookInv
<1> QED
  BY Invariance, <1>1, PTL

\* What Telegram was told 200 for is handled, on the queue, or was lost with
\* a process or a processor that died (webhook.rs, put_on_a_queue).
THEOREM AcknowledgedIsKept == Spec => []AckedKept
<1>1. WebhookInv => AckedKept
  BY DEF WebhookInv
<1> QED
  BY Invariance, <1>1, PTL

\* Updates that Telegram sent one after the other are handled in that order
\* (webhook.rs, WebhookServiceFactory::new).
THEOREM OrderIsKept == Spec => []OrderKept
<1>1. WebhookInv => OrderKept
  BY DEF WebhookInv
<1> QED
  BY Invariance, <1>1, PTL
=============================================================================
