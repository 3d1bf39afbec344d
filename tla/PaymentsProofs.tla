--------------------------- MODULE PaymentsProofs ---------------------------
(***************************************************************************)
(* Proofs about Payments, for any orders, threads, faults and bounds: it   *)
(* is type correct, a refund ends the subscription, and, for a user who    *)
(* pays one order at a time, the order paid last is active in the end.     *)
(***************************************************************************)
EXTENDS Payments, SequenceTheorems, TLAPS

Holds(s, e) == \E i \in 1 .. Len(s) : s[i] = e
End(s) == s[Len(s)]
Handles(t, o) == thread[t].order = o

\* An order is paid, and has events, once it has a row.
RowInv == \A o \in Orders : sub[o] = "none" => paid[o] = "unpaid" /\ outbox[o] = <<>>

\* The gateway: the events of an order end with what became of its payment.
GatewayInv ==
  \A o \in Orders :
    /\ paid[o] = "unpaid" => ~Holds(outbox[o], "captured")
    /\ paid[o] # "refunded" => ~Holds(outbox[o], "refunded")
    /\ paid[o] = "paid" /\ outbox[o] # <<>> => End(outbox[o]) = "captured"
    /\ paid[o] = "refunded" /\ outbox[o] # <<>> => End(outbox[o]) = "refunded"

\* The pages: only an order that is paid and not refunded is being confirmed.
ConfirmInv ==
  /\ \A o \in unsaid : paid[o] = "paid"
  /\ \A v \in Verifiers :
       /\ thread[v].at \in {"idle", "retire", "activate", "note", "mirror"}
       /\ thread[v].at # "idle" => thread[v].order \in Orders /\ paid[thread[v].order] = "paid"
       /\ thread[v].at = "idle" => thread[v].order = None

\* The webhook: it is at the first event of its order, which stays until it is
\* answered, and does what that event calls for.
WebhookInv ==
  LET w == thread["webhook"]
  IN /\ w.at = "idle" => w.order = None
     /\ w.at # "idle" => /\ w.order \in Orders /\ outbox[w.order] # <<>>
                         /\ w.event = Head(outbox[w.order])
     /\ w.at \in {"retire", "activate"} => w.event = "captured"
     /\ w.at = "fail" => w.event = "failed"
     /\ w.at = "cancel" => w.event = "refunded"
     /\ w.at \notin {"note", "mirror"}

\* What the refund did stays done.
RefundInv ==
  /\ \A o \in Orders : paid[o] = "refunded" /\ outbox[o] = <<>> => sub[o] # "active"
  /\ thread["webhook"].at = "answer" /\ thread["webhook"].event = "refunded" =>
       sub[thread["webhook"].order] # "active"

\* Nothing of the orders before the latest can activate them or retire it.
PastInv ==
  /\ latest = None => \A o \in Orders : paid[o] = "unpaid"
  /\ latest # None =>
       \A p \in Orders \ {latest} :
         /\ p \notin unsaid /\ ~Holds(outbox[p], "captured")
         /\ \A t \in Threads : Handles(t, p) => thread[t].at \notin {"retire", "activate"}

\* A capture that is answered, or about to be, has activated the latest order.
Activated(w) == w.at = "answer" \/ (w.at = "record" /\ w.found = "active")
LatestInv ==
  latest # None /\ paid[latest] = "paid" =>
    /\ outbox[latest] = <<>> => sub[latest] = "active"
    /\ LET w == thread["webhook"]
       IN w.order = latest /\ w.event = "captured" /\ Activated(w) => sub[latest] = "active"

-----------------------------------------------------------------------------
(* Queues of events.                                                         *)

\* Appending an event: it is the last one, the first one stays.
LEMMA Sends ==
  ASSUME NEW s \in Seq(Events), NEW e \in Events
  PROVE  /\ Append(s, e) \in Seq(Events) /\ Append(s, e) # <<>>
         /\ End(Append(s, e)) = e
         /\ s # <<>> => Head(Append(s, e)) = Head(s)
         /\ \A x \in Events : Holds(Append(s, e), x) <=> Holds(s, x) \/ x = e
<1>1. /\ Append(s, e) \in Seq(Events) /\ Len(Append(s, e)) = Len(s) + 1
      /\ \A i \in 1 .. Len(s) + 1 : Append(s, e)[i] = IF i <= Len(s) THEN s[i] ELSE e
  BY AppendProperties
<1>2. Len(s) \in Nat
  BY LenProperties
<1>3. Append(s, e) # <<>> /\ End(Append(s, e)) = e
  BY <1>1, <1>2, EmptySeq DEF End
<1>4. s # <<>> => Head(Append(s, e)) = Head(s)
  BY <1>1, <1>2, EmptySeq, HeadTailProperties
<1>5. ASSUME NEW x \in Events
      PROVE  Holds(Append(s, e), x) <=> Holds(s, x) \/ x = e
  BY <1>1, <1>2 DEF Holds
<1> QED
  BY <1>1, <1>3, <1>4, <1>5

\* Dropping the first event: what is left was sent and ends as before.
LEMMA Answers ==
  ASSUME NEW s \in Seq(Events), s # <<>>
  PROVE  /\ Tail(s) \in Seq(Events) /\ Head(s) \in Events
         /\ Holds(s, Head(s)) /\ Holds(s, End(s))
         /\ Tail(s) # <<>> => End(Tail(s)) = End(s)
         /\ Tail(s) = <<>> => Head(s) = End(s)
         /\ \A x \in Events : Holds(Tail(s), x) => Holds(s, x)
<1>1. /\ Tail(s) \in Seq(Events) /\ Head(s) \in Events /\ Len(Tail(s)) = Len(s) - 1
      /\ \A i \in 1 .. Len(Tail(s)) : Tail(s)[i] = s[i + 1]
  BY HeadTailProperties
<1>2. Len(s) \in Nat \ {0} /\ (Tail(s) # <<>> => Len(Tail(s)) \in Nat \ {0})
  BY <1>1, EmptySeq
<1>3. Head(s) = s[1]
  BY <1>2
<1>4. Tail(s) = <<>> => Len(s) = 1
  BY <1>1, <1>2, EmptySeq
<1> QED
  BY <1>1, <1>2, <1>3, <1>4 DEF Holds, End

-----------------------------------------------------------------------------
(* What every handler and gateway step keeps.                                *)

IInv == TypeOK /\ RowInv /\ GatewayInv /\ ConfirmInv /\ WebhookInv /\ RefundInv

\* Initially no order has a row, an event or a payment.
LEMMA IInvInit == Init => IInv
<1> SUFFICES ASSUME Init PROVE IInv
  OBVIOUS
<1>1. <<>> \in Seq(Events) /\ Len(<<>>) = 0
  BY EmptySeq
<1>2. Threads = Verifiers \cup {"webhook"} /\ "webhook" \notin Verifiers
  BY PaymentsAssumption DEF Threads
<1>3. TypeOK
  BY <1>1, PaymentsAssumption DEF Init, TypeOK, Thread, Idle, Steps
<1>4. \A x : ~Holds(<<>>, x)
  BY <1>1 DEF Holds
<1> QED
  BY <1>2, <1>3, <1>4, PaymentsAssumption
  DEF Init, IInv, RowInv, GatewayInv, ConfirmInv, WebhookInv, RefundInv, Idle

\* The next step of a handler that goes on, and of one that ends.
Moved(t, step) ==
  /\ thread' \in [Threads -> Thread]
  /\ thread'[t].at = step
  /\ \A u \in Threads : /\ thread'[u].order = thread[u].order
                        /\ thread'[u].event = thread[u].event
                        /\ thread'[u].found = thread[u].found
                        /\ u # t => thread'[u].at = thread[u].at

Stopped(t) ==
  /\ thread' \in [Threads -> Thread]
  /\ thread'[t].at = "idle" /\ thread'[t].order = None
  /\ \A u \in Threads \ {t} : thread'[u] = thread[u]

\* A handler that goes on keeps what it read.
LEMMA Moves ==
  ASSUME TypeOK, NEW t \in Threads, NEW step \in Steps, GoesTo(t, step)
  PROVE  Moved(t, step)
BY DEF TypeOK, Thread, GoesTo, Moved

\* A handler that ends gives its order up, the others go on.
LEMMA Stops ==
  ASSUME TypeOK, NEW t \in Threads, Ends(t)
  PROVE  Stopped(t)
BY DEF TypeOK, Thread, Ends, Idle, Steps, Stopped

\* The faults stay within their bound.
LEMMA Faulty ==
  ASSUME TypeOK
  PROVE  /\ NoFault => faults' \in 0 .. MaxFaults
         /\ \A kind : Fault(kind) => faults' \in 0 .. MaxFaults
BY PaymentsAssumption DEF TypeOK, NoFault, Fault

\* The user opens the checkout of an order.
LEMMA CreateOrderStep ==
  ASSUME IInv, NEW o \in Orders, CreateOrder(o)
  PROVE  IInv'
<1>1. TypeOK'
  BY DEF CreateOrder, gateway, IInv, TypeOK
<1>2. RowInv'
  BY DEF CreateOrder, gateway, IInv, TypeOK, RowInv
<1>3. GatewayInv'
  BY DEF CreateOrder, gateway, IInv, TypeOK, GatewayInv
<1>4. ConfirmInv'
  BY DEF CreateOrder, gateway, IInv, TypeOK, ConfirmInv
<1>5. WebhookInv'
  BY DEF CreateOrder, gateway, IInv, TypeOK, WebhookInv
<1>6. RefundInv'
  BY DEF CreateOrder, gateway, IInv, TypeOK, RefundInv
<1> QED
  BY <1>1, <1>2, <1>3, <1>4, <1>5, <1>6 DEF IInv

\* The gateway declines a payment of an unpaid order.
LEMMA DeclineStep ==
  ASSUME IInv, NEW o \in Orders, Decline(o)
  PROVE  IInv'
<1>1. TypeOK'
  BY Sends, PaymentsAssumption DEF Decline, Send, IInv, TypeOK, Events
<1>2. RowInv'
  BY Sends DEF Decline, Send, IInv, TypeOK, RowInv, Events
<1>3. GatewayInv'
  BY Sends DEF Decline, Send, IInv, TypeOK, GatewayInv, Events
<1>4. ConfirmInv'
  BY DEF Decline, Send, IInv, TypeOK, ConfirmInv, Events
<1>5. WebhookInv'
  BY Sends DEF Decline, Send, IInv, TypeOK, WebhookInv, Events, Threads, Thread, GatewayInv
<1>6. RefundInv'
  BY Sends DEF Decline, Send, IInv, TypeOK, RefundInv, Events, ConfirmInv
<1> QED
  BY <1>1, <1>2, <1>3, <1>4, <1>5, <1>6 DEF IInv

\* A payment is captured.
LEMMA PayStep ==
  ASSUME IInv, NEW o \in Orders, Pay(o)
  PROVE  IInv'
<1>1. TypeOK'
  BY Sends DEF Pay, Send, IInv, TypeOK, Events
<1>2. RowInv'
  BY Sends DEF Pay, Send, IInv, TypeOK, RowInv, Events
<1>3. GatewayInv'
  BY Sends DEF Pay, Send, IInv, TypeOK, GatewayInv, Events
<1>4. ConfirmInv'
  BY DEF Pay, Send, IInv, TypeOK, ConfirmInv, Events
<1>5. WebhookInv'
  BY Sends DEF Pay, Send, IInv, TypeOK, WebhookInv, Events
<1>6. RefundInv'
  BY Sends DEF Pay, Send, IInv, TypeOK, RefundInv, Events, ConfirmInv
<1> QED
  BY <1>1, <1>2, <1>3, <1>4, <1>5, <1>6 DEF IInv

\* An order that is confirmed or was never going to be is refunded.
LEMMA RefundStep ==
  ASSUME IInv, NEW o \in Orders, Refund(o)
  PROVE  IInv'
<1>1. TypeOK'
  BY Sends DEF Refund, Send, IInv, TypeOK, Events
<1>2. RowInv'
  BY Sends DEF Refund, Send, IInv, TypeOK, RowInv, Events
<1>3. GatewayInv'
  BY Sends DEF Refund, Send, IInv, TypeOK, GatewayInv, Events
<1>4. ConfirmInv'
  BY DEF Refund, Send, IInv, TypeOK, ConfirmInv, Events
<1>5. WebhookInv'
  BY Sends DEF Refund, Send, IInv, TypeOK, WebhookInv, Events, Threads, Thread, GatewayInv
<1>6. RefundInv'
  BY Sends DEF Refund, Send, IInv, TypeOK, RefundInv, Events, ConfirmInv
<1> QED
  BY <1>1, <1>2, <1>3, <1>4, <1>5, <1>6 DEF IInv

\* The webhook takes up the first event of an order.
LEMMA DeliverStep ==
  ASSUME IInv, NEW o \in Orders, Deliver(o)
  PROVE  IInv'
<1>1. TypeOK'
  BY Answers DEF Deliver, gateway, IInv, TypeOK, RowInv, Threads, Thread, Steps
<1>2. RowInv'
  BY DEF Deliver, gateway, IInv, RowInv
<1>3. GatewayInv'
  BY DEF Deliver, gateway, IInv, GatewayInv
<1>4. ConfirmInv'
  BY PaymentsAssumption DEF Deliver, gateway, IInv, TypeOK, ConfirmInv, Threads
<1>5. WebhookInv'
  BY PaymentsAssumption DEF Deliver, gateway, IInv, TypeOK, WebhookInv, Threads
<1>6. RefundInv'
  BY PaymentsAssumption DEF Deliver, gateway, IInv, TypeOK, RefundInv, Threads
<1> QED
  BY <1>1, <1>2, <1>3, <1>4, <1>5, <1>6 DEF IInv

\* A thread takes up the confirmation of an order.
LEMMA VerifyStep ==
  ASSUME IInv, NEW v \in Verifiers, NEW o \in Orders, Verify(v, o)
  PROVE  IInv'
<1>1. TypeOK'
  BY DEF Verify, gateway, IInv, TypeOK, RowInv, ConfirmInv, Threads, Thread, Steps, Events
<1>2. RowInv'
  BY DEF Verify, gateway, IInv, RowInv
<1>3. GatewayInv'
  BY DEF Verify, gateway, IInv, GatewayInv
<1>4. ConfirmInv'
  BY PaymentsAssumption DEF Verify, gateway, IInv, TypeOK, ConfirmInv, Threads
<1>5. WebhookInv'
  BY PaymentsAssumption DEF Verify, gateway, IInv, TypeOK, WebhookInv, Threads
<1>6. RefundInv'
  BY PaymentsAssumption DEF Verify, gateway, IInv, TypeOK, RefundInv, Threads
<1> QED
  BY <1>1, <1>2, <1>3, <1>4, <1>5, <1>6 DEF IInv

\* What the call of a handler may do, short of answering an event.
Effect(t) ==
  /\ thread[t].at # "idle"
  /\ UNCHANGED <<paid, latest, unsaid, outbox>>
  /\ \A o \in Orders :
       /\ sub'[o] = "none" => sub[o] = "none"
       /\ sub'[o] = "active" => sub[o] = "active" \/ (thread[t].at = "activate" /\ Handles(t, o))
       /\ sub[o] = "active" => \/ sub'[o] = "active"
                               \/ thread[t].at = "retire" /\ ~Handles(t, o)
                               \/ t = "webhook" /\ thread[t].at \in {"fail", "cancel"} /\ Handles(t, o)

\* Where it may go next.
Follows(t, step) ==
  /\ step = "activate" => thread[t].at = "retire"
  /\ IF t \in Verifiers THEN step \in {"activate", "note", "mirror"}
     ELSE /\ step \in {"retire", "activate", "fail", "cancel", "answer"}
          /\ step \in {"retire", "activate"} => thread[t].event = "captured"
          /\ step = "fail" => thread[t].event = "failed"
          /\ step = "cancel" => thread[t].event = "refunded"
          /\ step = "answer" /\ thread[t].event = "refunded" => sub'[thread[t].order] # "active"
          /\ step = "answer" /\ thread[t].event = "captured" =>
               \/ sub'[thread[t].order] = "active"
               \/ thread[t].at = "record" /\ thread[t].found = "active"

Acts(t) == Effect(t) /\ (Stopped(t) \/ \E step : Moved(t, step) /\ Follows(t, step))

\* The event that the webhook handles tells what became of the payment.
LEMMA EventIsTrue ==
  ASSUME IInv, thread["webhook"].at # "idle"
  PROVE  /\ thread["webhook"].event = "refunded" => paid[thread["webhook"].order] = "refunded"
         /\ thread["webhook"].event = "captured" => paid[thread["webhook"].order] # "unpaid"
<1> DEFINE w == thread["webhook"]
<1>1. w.order \in Orders /\ outbox[w.order] # <<>> /\ w.event = Head(outbox[w.order])
  BY DEF IInv, WebhookInv
<1>2. outbox[w.order] \in Seq(Events)
  BY <1>1 DEF IInv, TypeOK
<1>3. Holds(outbox[w.order], w.event)
  BY <1>1, <1>2, Answers
<1> QED
  BY <1>1, <1>3 DEF IInv, TypeOK, GatewayInv

\* A step of a handler that only writes rows keeps every conjunct but the types.
LEMMA HandlerStep ==
  ASSUME IInv, NEW t \in Threads, Effect(t),
         Stopped(t) \/ \E step : Moved(t, step) /\ Follows(t, step)
  PROVE  RowInv' /\ GatewayInv' /\ ConfirmInv' /\ WebhookInv' /\ RefundInv'
<1>0. Threads = Verifiers \cup {"webhook"} /\ "webhook" \notin Verifiers
  BY PaymentsAssumption DEF Threads
<1>1. \A u \in Threads \ {t} : /\ thread'[u].at = thread[u].at
                              /\ thread'[u].order = thread[u].order
                              /\ thread'[u].event = thread[u].event
  BY DEF Moved, Stopped
<1>2. RowInv' /\ GatewayInv'
  BY DEF IInv, RowInv, GatewayInv, Effect
<1>3. ConfirmInv'
  <2>1. \A o \in unsaid' : paid'[o] = "paid"
    BY DEF IInv, ConfirmInv, Effect
  <2>2. ASSUME NEW v \in Verifiers
        PROVE  /\ thread'[v].at \in {"idle", "retire", "activate", "note", "mirror"}
               /\ thread'[v].at # "idle" => /\ thread'[v].order \in Orders
                                            /\ paid'[thread'[v].order] = "paid"
               /\ thread'[v].at = "idle" => thread'[v].order = None
    <3>1. v \in Threads /\ paid' = paid
      BY <1>0 DEF Effect
    <3>2. CASE v # t
      <4>1. thread'[v].at = thread[v].at /\ thread'[v].order = thread[v].order
        BY <1>1, <3>1, <3>2
      <4> QED
        BY <3>1, <4>1 DEF IInv, ConfirmInv
    <3>3. CASE Stopped(t) /\ v = t
      BY <3>3 DEF Stopped
    <3>4. CASE v = t /\ \E step : Moved(t, step) /\ Follows(t, step)
      <4>1. PICK step : Moved(t, step) /\ Follows(t, step)
        BY <3>4
      <4>2. thread'[v].at = step /\ thread'[v].order = thread[v].order
        BY <3>1, <3>4, <4>1 DEF Moved
      <4>3. step \in {"activate", "note", "mirror"} /\ thread[v].at # "idle"
        BY <3>4, <4>1 DEF Follows, Effect
      <4> QED
        BY <3>1, <4>2, <4>3 DEF IInv, ConfirmInv
    <3> QED
      BY <3>2, <3>3, <3>4
  <2> QED
    BY <2>1, <2>2 DEF ConfirmInv
<1>4. WebhookInv'
  <2>1. CASE t = "webhook" /\ Stopped(t)
    BY <2>1 DEF WebhookInv, Stopped
  <2>2. CASE t = "webhook" /\ \E step : Moved(t, step) /\ Follows(t, step)
    <3>1. PICK step : Moved(t, step) /\ Follows(t, step)
      BY <2>2
    <3>2. /\ thread'["webhook"].at = step
          /\ thread'["webhook"].order = thread["webhook"].order
          /\ thread'["webhook"].event = thread["webhook"].event
      BY <2>2, <3>1 DEF Moved
    <3> QED
      BY <1>0, <2>2, <3>1, <3>2 DEF IInv, WebhookInv, Effect, Follows
  <2>3. CASE t # "webhook"
    BY <1>0, <1>1, <2>3 DEF IInv, WebhookInv, Effect
  <2> QED
    BY <2>1, <2>2, <2>3
<1>5. RefundInv'
  <2>1. ASSUME NEW o \in Orders, paid[o] = "refunded", outbox[o] = <<>>
        PROVE  sub'[o] # "active"
    <3>1. sub[o] # "active"
      BY <2>1 DEF IInv, RefundInv
    <3>2. ~(thread[t].at = "activate" /\ Handles(t, o))
      BY <2>1, <1>0 DEF IInv, ConfirmInv, WebhookInv, Handles
    <3> QED
      BY <3>1, <3>2 DEF Effect
  <2>2. ASSUME thread'["webhook"].at = "answer", thread'["webhook"].event = "refunded"
        PROVE  sub'[thread'["webhook"].order] # "active"
    <3>1. CASE t = "webhook"
      <4>1. PICK step : Moved(t, step) /\ Follows(t, step)
        BY <2>2, <3>1 DEF Stopped
      <4>2. /\ step = "answer" /\ thread["webhook"].event = "refunded"
            /\ thread'["webhook"].order = thread["webhook"].order
        BY <2>2, <3>1, <4>1 DEF Moved
      <4> QED
        BY <1>0, <3>1, <4>1, <4>2 DEF Follows
    <3>2. CASE t # "webhook"
      <4> DEFINE o == thread["webhook"].order
      <4>1. /\ thread["webhook"].at = "answer" /\ thread["webhook"].event = "refunded"
            /\ thread'["webhook"].order = o
        BY <1>0, <1>1, <2>2, <3>2
      <4>2. o \in Orders /\ sub[o] # "active" /\ paid[o] = "refunded"
        BY <4>1, EventIsTrue DEF IInv, WebhookInv, RefundInv
      <4>3. ~(thread[t].at = "activate" /\ Handles(t, o))
        BY <4>2, <3>2, <1>0 DEF IInv, ConfirmInv, Handles
      <4> QED
        BY <4>1, <4>2, <4>3 DEF Effect
    <3> QED
      BY <3>1, <3>2
  <2> QED
    BY <2>1, <2>2 DEF RefundInv, Effect
<1> QED
  BY <1>2, <1>3, <1>4, <1>5

\* Cancelling the other active subscriptions, or failing to.
LEMMA RetireStep ==
  ASSUME IInv, NEW t \in Threads, Retire(t)
  PROVE  IInv' /\ Acts(t)
<1>1. t \in Threads
  BY DEF Threads
<1>2. Effect(t)
  BY <1>1 DEF Retire, IsAt, gateway, IInv, TypeOK, Effect, Handles, ConfirmInv, WebhookInv
<1>3. Stopped(t) \/ \E step : Moved(t, step) /\ Follows(t, step)
  <2>1. GoesTo(t, "activate") => Moved(t, "activate") /\ Follows(t, "activate")
    BY <1>1, Moves, PaymentsAssumption DEF Retire, IsAt, IInv, WebhookInv, Threads, Steps, Follows
  <2>2. Ends(t) => Stopped(t)
    BY <1>1, Stops DEF IInv
  <2> QED
    BY <2>1, <2>2 DEF Retire, Raises
<1>4. TypeOK'
  <2>1. thread' \in [Threads -> Thread]
    BY <1>3 DEF Moved, Stopped
  <2>2. faults' \in 0 .. MaxFaults
    BY Faulty DEF Retire, IInv, Raises
  <2> QED
    BY <2>1, <2>2 DEF Retire, gateway, IInv, TypeOK
<1> QED
  BY <1>1, <1>2, <1>3, <1>4, HandlerStep DEF IInv, Acts

\* Activating the order's subscription; the unique index may refuse it.
LEMMA ActivateStep ==
  ASSUME IInv, NEW t \in Threads, Activate(t)
  PROVE  IInv' /\ Acts(t)
<1>1. t \in Threads
  BY DEF Threads
<1>2. Effect(t)
  BY <1>1 DEF Activate, IsAt, gateway, IInv, TypeOK, Effect, Handles, ConfirmInv, WebhookInv
<1>3. Stopped(t) \/ \E step : Moved(t, step) /\ Follows(t, step)
  <2> DEFINE next == IF t = "webhook" THEN "answer" ELSE "note"
             o == thread[t].order
  <2>1. CASE GoesTo(t, next) /\ sub' = [sub EXCEPT ![o] = "active"]
    <3>1. Moved(t, next)
      BY <1>1, <2>1, Moves DEF IInv, Steps
    <3>2. thread[t].at = "activate" /\ o \in Orders /\ sub'[o] = "active"
      BY <1>1, <2>1 DEF Activate, IsAt, IInv, TypeOK, ConfirmInv, WebhookInv, Threads
    <3>3. t = "webhook" => thread[t].event = "captured"
      BY <3>2 DEF IInv, WebhookInv
    <3> QED
      BY <1>1, <3>1, <3>2, <3>3, PaymentsAssumption DEF Follows, Threads
  <2>2. CASE Ends(t)
    BY <1>1, <2>2, Stops DEF IInv
  <2> QED
    BY <2>1, <2>2 DEF Activate, Raises
<1>4. TypeOK'
  <2>1. thread' \in [Threads -> Thread]
    BY <1>3 DEF Moved, Stopped
  <2>2. faults' \in 0 .. MaxFaults
    BY Faulty DEF Activate, IInv, Raises
  <2> QED
    BY <2>1, <2>2 DEF Activate, gateway, IInv, TypeOK
<1> QED
  BY <1>1, <1>2, <1>3, <1>4, HandlerStep DEF IInv, Acts

\* Noting a confirmed payment.
LEMMA NoteStep ==
  ASSUME IInv, NEW v \in Verifiers, Note(v)
  PROVE  IInv' /\ Acts(v)
<1>1. v \in Threads
  BY DEF Threads
<1>2. Effect(v)
  BY PaymentsAssumption, <1>1
  DEF Note, IsAt, gateway, IInv, TypeOK, Effect, Handles, ConfirmInv, WebhookInv
<1>3. Stopped(v) \/ \E step : Moved(v, step) /\ Follows(v, step)
  <2>1. GoesTo(v, "mirror") => Moved(v, "mirror") /\ Follows(v, "mirror")
    BY <1>1, Moves, PaymentsAssumption DEF Note, IsAt, IInv, WebhookInv, Steps, Follows
  <2>2. Ends(v) => Stopped(v)
    BY <1>1, Stops DEF IInv
  <2> QED
    BY <2>1, <2>2 DEF Note, Raises
<1>4. TypeOK'
  <2>1. thread' \in [Threads -> Thread]
    BY <1>3 DEF Moved, Stopped
  <2>2. faults' \in 0 .. MaxFaults
    BY Faulty DEF Note, IInv, Raises
  <2> QED
    BY <2>1, <2>2 DEF Note, gateway, IInv, TypeOK
<1> QED
  BY <1>1, <1>2, <1>3, <1>4, HandlerStep DEF IInv, Acts

\* Showing the plan in the user's metadata.
LEMMA MirrorStep ==
  ASSUME IInv, NEW v \in Verifiers, Mirror(v)
  PROVE  IInv' /\ Acts(v)
<1>1. v \in Threads
  BY DEF Threads
<1>2. Effect(v)
  BY PaymentsAssumption, <1>1
  DEF Mirror, IsAt, gateway, IInv, TypeOK, Effect, Handles, ConfirmInv, WebhookInv
<1>3. Stopped(v) \/ \E step : Moved(v, step) /\ Follows(v, step)

  <2>1. Ends(v) => Stopped(v)
    BY <1>1, Stops DEF IInv
  <2> QED
    BY <2>1 DEF Mirror, Raises
<1>4. TypeOK'
  <2>1. thread' \in [Threads -> Thread]
    BY <1>3 DEF Moved, Stopped
  <2>2. faults' \in 0 .. MaxFaults
    BY Faulty DEF Mirror, IInv, Raises
  <2> QED
    BY <1>1, <2>1, <2>2 DEF Mirror, gateway, IInv, TypeOK, Thread
<1> QED
  BY <1>1, <1>2, <1>3, <1>4, HandlerStep DEF IInv, Acts

\* A declined payment fails the subscription.
LEMMA FailStep ==
  ASSUME IInv, Fail
  PROVE  IInv' /\ Acts("webhook")
<1>1. "webhook" \in Threads
  BY DEF Threads
<1>2. Effect("webhook")
  BY <1>1 DEF Fail, IsAt, gateway, IInv, TypeOK, Effect, Handles, ConfirmInv, WebhookInv
<1>3. Stopped("webhook") \/ \E step : Moved("webhook", step) /\ Follows("webhook", step)
  <2>1. GoesTo("webhook", "answer") => Moved("webhook", "answer") /\ Follows("webhook", "answer")
    BY <1>1, Moves, PaymentsAssumption DEF Fail, IsAt, IInv, WebhookInv, Steps, Follows
  <2>2. Ends("webhook") => Stopped("webhook")
    BY <1>1, Stops DEF IInv
  <2> QED
    BY <2>1, <2>2 DEF Fail, Raises
<1>4. TypeOK'
  <2>1. thread' \in [Threads -> Thread]
    BY <1>3 DEF Moved, Stopped
  <2>2. faults' \in 0 .. MaxFaults
    BY Faulty DEF Fail, IInv, Raises
  <2> QED
    BY <2>1, <2>2 DEF Fail, gateway, IInv, TypeOK
<1> QED
  BY <1>1, <1>2, <1>3, <1>4, HandlerStep DEF IInv, Acts

\* A refund cancels the subscription.
LEMMA CancelStep ==
  ASSUME IInv, Cancel
  PROVE  IInv' /\ Acts("webhook")
<1>1. "webhook" \in Threads
  BY DEF Threads
<1>2. Effect("webhook")
  BY <1>1 DEF Cancel, IsAt, gateway, IInv, TypeOK, Effect, Handles, ConfirmInv, WebhookInv
<1>3. Stopped("webhook") \/ \E step : Moved("webhook", step) /\ Follows("webhook", step)
  <2>1. CASE /\ GoesTo("webhook", "answer")
             /\ sub' = [sub EXCEPT ![thread["webhook"].order] = "cancelled"]
    <3>1. Moved("webhook", "answer")
      BY <1>1, <2>1, Moves DEF IInv, Steps
    <3>2. /\ thread["webhook"].order \in Orders /\ sub'[thread["webhook"].order] = "cancelled"
          /\ thread["webhook"].event = "refunded"
      BY <2>1 DEF Cancel, IsAt, IInv, TypeOK, WebhookInv
    <3> QED
      BY <3>1, <3>2, PaymentsAssumption DEF Follows
  <2>2. CASE Ends("webhook")
    BY <1>1, <2>2, Stops DEF IInv
  <2> QED
    BY <2>1, <2>2 DEF Cancel, Raises
<1>4. TypeOK'
  <2>1. thread' \in [Threads -> Thread]
    BY <1>3 DEF Moved, Stopped
  <2>2. faults' \in 0 .. MaxFaults
    BY Faulty DEF Cancel, IInv, Raises
  <2> QED
    BY <2>1, <2>2 DEF Cancel, gateway, IInv, TypeOK
<1> QED
  BY <1>1, <1>2, <1>3, <1>4, HandlerStep DEF IInv, Acts

\* Recording an event and choosing what follows.
LEMMA RecordStep ==
  ASSUME IInv, Record
  PROVE  IInv' /\ Acts("webhook")
<1>1. "webhook" \in Threads
  BY DEF Threads
<1>2. Effect("webhook")
  BY <1>1 DEF Record, IsAt, gateway, IInv, TypeOK, Effect, Handles, ConfirmInv, WebhookInv
<1>3. Stopped("webhook") \/ \E step : Moved("webhook", step) /\ Follows("webhook", step)
  <2>1. CASE Ends("webhook")
    BY <1>1, <2>1, Stops DEF IInv
  <2>2. CASE GoesTo("webhook", "fail") /\ thread["webhook"].event = "failed"
    BY <1>1, <2>2, Moves, PaymentsAssumption DEF IInv, Threads, Steps, Follows
  <2>3. CASE GoesTo("webhook", "cancel") /\ thread["webhook"].event = "refunded"
    BY <1>1, <2>3, Moves, PaymentsAssumption DEF IInv, Threads, Steps, Follows
  <2>4. CASE GoesTo("webhook", "retire") /\ thread["webhook"].event = "captured"
    BY <1>1, <2>4, Moves, PaymentsAssumption DEF IInv, Threads, Steps, Follows
  <2>5. CASE /\ GoesTo("webhook", "answer")
             /\ thread["webhook"].event = "captured" /\ thread["webhook"].found = "active"
    <3>1. Moved("webhook", "answer") /\ thread["webhook"].at = "record"
      BY <1>1, <2>5, Moves DEF Record, IsAt, IInv, Steps
    <3> QED
      BY <2>5, <3>1, PaymentsAssumption DEF Follows
  <2>6. thread["webhook"].event \in {"failed", "refunded", "captured"}
    BY Answers DEF Record, IsAt, IInv, TypeOK, WebhookInv, Events
  <2>7. thread["webhook"].found = "active" \/ thread["webhook"].found # "active"
    OBVIOUS
  <2> QED
    BY <2>1, <2>2, <2>3, <2>4, <2>5, <2>6, <2>7 DEF Record, Raises
<1>4. TypeOK'
  <2>1. thread' \in [Threads -> Thread]
    BY <1>3 DEF Moved, Stopped
  <2>2. faults' \in 0 .. MaxFaults
    BY Faulty DEF Record, IInv, Raises
  <2> QED
    BY <2>1, <2>2 DEF Record, gateway, IInv, TypeOK
<1> QED
  BY <1>1, <1>2, <1>3, <1>4, HandlerStep DEF IInv, Acts

\* Answering an event, whether the gateway gets the answer or not.
LEMMA AnswerStep ==
  ASSUME IInv, Answer
  PROVE  IInv'
<1> DEFINE o == thread["webhook"].order
           e == thread["webhook"].event
<1>1. Threads = Verifiers \cup {"webhook"} /\ "webhook" \notin Verifiers
  BY PaymentsAssumption DEF Threads
<1>2. Stopped("webhook") /\ UNCHANGED <<sub, plan, paid, declines, latest, unsaid>>
  BY <1>1, Stops DEF Answer, IInv, gateway
<1>3. /\ o \in Orders /\ outbox[o] # <<>> /\ outbox[o] \in Seq(Events)
      /\ e = Head(outbox[o])
  BY DEF Answer, IsAt, IInv, TypeOK, WebhookInv
<1>4. \/ outbox' = outbox
      \/ outbox' = [outbox EXCEPT ![o] = Tail(outbox[o])]
  BY DEF Answer
<1>5. /\ outbox' \in [Orders -> Seq(Events)]
      /\ \A p \in Orders \ {o} : outbox'[p] = outbox[p]
      /\ outbox'[o] = outbox[o] \/ outbox'[o] = Tail(outbox[o])
  <2>1. Tail(outbox[o]) \in Seq(Events) /\ outbox \in [Orders -> Seq(Events)]
    BY <1>3, Answers DEF IInv, TypeOK
  <2>2. CASE outbox' = outbox
    BY <2>1, <2>2
  <2>3. CASE outbox' = [outbox EXCEPT ![o] = Tail(outbox[o])]
    BY <1>3, <2>1, <2>3
  <2> QED
    BY <1>4, <2>2, <2>3
<1>6. /\ \A x \in Events : Holds(outbox'[o], x) => Holds(outbox[o], x)
      /\ outbox'[o] # <<>> => End(outbox'[o]) = End(outbox[o])
      /\ outbox'[o] = <<>> => e = End(outbox[o])
  <2>1. CASE outbox'[o] = outbox[o]
    BY <1>3, <2>1
  <2>2. CASE outbox'[o] = Tail(outbox[o])
    BY <1>3, <2>2, Answers
  <2> QED
    BY <1>5, <2>1, <2>2
<1>7. TypeOK'
  <2>1. thread' \in [Threads -> Thread]
    BY <1>2 DEF Stopped
  <2>2. faults' \in 0 .. MaxFaults
    BY Faulty DEF Answer, IInv
  <2> QED
    BY <1>2, <1>5, <2>1, <2>2 DEF IInv, TypeOK
<1>8. RowInv'
  BY <1>2, <1>3, <1>5 DEF IInv, RowInv
<1>9. GatewayInv'
  BY <1>2, <1>3, <1>5, <1>6 DEF IInv, GatewayInv, Events
<1>10. ConfirmInv'
  BY <1>1, <1>2 DEF IInv, ConfirmInv, Stopped
<1>11. WebhookInv'
  BY <1>2 DEF WebhookInv, Stopped
<1>12. RefundInv'
  <2>1. paid[o] = "refunded" /\ outbox'[o] = <<>> => sub[o] # "active"
    BY <1>3, <1>6 DEF Answer, IsAt, IInv, GatewayInv, RefundInv
  <2> QED
    BY <1>2, <1>5, <2>1 DEF IInv, RefundInv, Stopped
<1> QED
  BY <1>7, <1>8, <1>9, <1>10, <1>11, <1>12 DEF IInv

-----------------------------------------------------------------------------
(* The first two theorems.                                                   *)

\* Every step of the program and of the gateway keeps the invariant.
LEMMA IInvStep == IInv /\ [Next]_vars => IInv'
<1> SUFFICES ASSUME IInv, [Next]_vars PROVE IInv'
  OBVIOUS
<1>1. CASE UNCHANGED vars
  BY <1>1 DEF vars, gateway, IInv, TypeOK, RowInv, GatewayInv, ConfirmInv, WebhookInv, RefundInv
<1>2. CASE \E o \in Orders : CreateOrder(o) \/ Decline(o) \/ Pay(o) \/ Refund(o) \/ Deliver(o)
  BY <1>2, CreateOrderStep, DeclineStep, PayStep, RefundStep, DeliverStep
<1>3. CASE \E v \in Verifiers : VerifierStep(v)
  BY <1>3, VerifyStep, RetireStep, ActivateStep, NoteStep, MirrorStep DEF VerifierStep, Threads
<1>4. CASE WebhookStep
  BY <1>4, RecordStep, RetireStep, ActivateStep, FailStep, CancelStep, AnswerStep
  DEF WebhookStep, Threads
<1> QED
  BY <1>1, <1>2, <1>3, <1>4 DEF Next

\* What the gateway, the pages and the handlers keep, whatever fails.
LEMMA IInvHolds == Spec => []IInv
  BY IInvInit, IInvStep, PTL DEF Spec

\* The handlers, the pages and the gateway keep the types.
THEOREM PaymentsTypeCorrect == Spec => []TypeOK
<1>1. IInv => TypeOK
  BY DEF IInv
<1> QED
  BY <1>1, IInvHolds, PTL

\* A refund ends the subscription for any number of orders and threads, whatever
\* calls fail, answers are lost or events are delivered twice.
THEOREM RefundEndsHolds == Spec => []RefundEnds
<1>1. IInv => RefundEnds
  BY DEF IInv, RefundInv, RefundEnds, Settled
<1> QED
  BY <1>1, IInvHolds, PTL

-----------------------------------------------------------------------------
(* A user who pays one order at a time.                                      *)

WinInv == PastInv /\ LatestInv

\* A handler works on the latest order when it retires or activates.
LEMMA OnLatest ==
  ASSUME IInv, PastInv, NEW t \in Threads, thread[t].at \in {"retire", "activate"}
  PROVE  thread[t].order = latest /\ latest \in Orders
<1>1. thread[t].order \in Orders /\ paid[thread[t].order] # "unpaid"
  BY EventIsTrue DEF Threads, IInv, ConfirmInv, WebhookInv
<1>2. latest # None
  BY <1>1 DEF PastInv
<1> QED
  BY <1>1, <1>2 DEF PastInv, Handles

\* A handler never takes the latest order out of its active state.
LEMMA HandlerWins ==
  ASSUME IInv, WinInv, NEW t \in Threads, Acts(t)
  PROVE  WinInv'
<1> USE DEF Acts
<1>0. Threads = Verifiers \cup {"webhook"} /\ "webhook" \notin Verifiers /\ None \notin Orders
  BY PaymentsAssumption DEF Threads
<1>1. paid' = paid /\ unsaid' = unsaid /\ outbox' = outbox /\ latest' = latest
  BY DEF Effect
<1>2. \A u \in Threads \ {t} : thread'[u].at = thread[u].at /\ thread'[u].order = thread[u].order
                              /\ thread'[u].event = thread[u].event /\ thread'[u].found = thread[u].found
  BY DEF Moved, Stopped
<1>3. ASSUME latest # None, NEW p \in Orders \ {latest}, NEW u \in Threads, thread'[u].order = p
      PROVE  thread'[u].at \notin {"retire", "activate"}
  <2>1. CASE u # t
    BY <1>2, <1>3, <2>1 DEF WinInv, PastInv, Handles
  <2>2. CASE u = t
    <3>1. ~Stopped(t)
      BY <1>0, <1>3, <2>2 DEF Stopped
    <3>2. PICK step : Moved(t, step) /\ Follows(t, step)
      BY <3>1
    <3>3. thread'[t].at = step /\ thread[t].order = p
      BY <1>3, <2>2, <3>2 DEF Moved
    <3>4. step # "activate"
      BY <3>2, <3>3, <1>3, OnLatest DEF WinInv, Follows
    <3>5. ASSUME step = "retire" PROVE FALSE
      <4>1. t = "webhook" /\ thread[t].event = "captured"
        BY <1>0, <3>2, <3>5 DEF Follows
      <4>2. outbox[p] # <<>> /\ outbox[p] \in Seq(Events) /\ Head(outbox[p]) = "captured"
        BY <3>3, <4>1 DEF Effect, IInv, TypeOK, WebhookInv
      <4>3. Holds(outbox[p], "captured")
        BY <4>2, Answers
      <4> QED
        BY <1>3, <4>3 DEF WinInv, PastInv
    <3> QED
      BY <2>2, <3>3, <3>4, <3>5
  <2> QED
    BY <2>1, <2>2
<1>4. PastInv'
  BY <1>1, <1>3 DEF WinInv, PastInv, Handles
<1>5. ASSUME latest # None, paid[latest] = "paid", sub[latest] = "active",
             outbox[latest] = <<>> \/ t # "webhook" \/ thread[t].event = "captured"
      PROVE  sub'[latest] = "active"
  <2>1. latest \in Orders
    BY <1>5 DEF IInv, TypeOK
  <2>2. ~(thread[t].at = "retire" /\ ~Handles(t, latest))
    BY OnLatest DEF WinInv, Handles
  <2>3. ~(t = "webhook" /\ thread[t].at \in {"fail", "cancel"} /\ Handles(t, latest))
    BY <1>5 DEF IInv, WebhookInv, Handles
  <2> QED
    BY <1>5, <2>1, <2>2, <2>3 DEF Effect
<1>6. LatestInv'
  <2> SUFFICES ASSUME latest # None, paid[latest] = "paid"
               PROVE  /\ outbox[latest] = <<>> => sub'[latest] = "active"
                      /\ thread'["webhook"].order = latest /\ thread'["webhook"].event = "captured"
                           /\ Activated(thread'["webhook"]) => sub'[latest] = "active"
    BY <1>1 DEF LatestInv
  <2>1. outbox[latest] = <<>> => sub'[latest] = "active"
    BY <1>5 DEF WinInv, LatestInv
  <2>2. ASSUME thread'["webhook"].order = latest, thread'["webhook"].event = "captured",
               Activated(thread'["webhook"])
        PROVE  sub'[latest] = "active"
    <3>1. CASE t # "webhook"
      <4>1. sub[latest] = "active"
        BY <1>0, <1>2, <2>2, <3>1 DEF WinInv, LatestInv, Activated
      <4> QED
        BY <1>5, <3>1, <4>1
    <3>2. CASE t = "webhook"
      <4>1. latest \in Orders
        BY DEF IInv, TypeOK
      <4>2. PICK step : Moved(t, step) /\ Follows(t, step)
        BY <1>0, <2>2, <3>2, <4>1 DEF Stopped
      <4>3. /\ thread'[t].at = step /\ thread[t].order = latest /\ thread[t].event = "captured"
            /\ thread'[t].found = thread[t].found
        BY <2>2, <3>2, <4>2 DEF Moved
      <4>4. step = "answer"
        BY <1>0, <2>2, <3>2, <4>2, <4>3 DEF Follows, Activated
      <4>5. CASE thread[t].at = "record" /\ thread[t].found = "active"
        <5>1. sub[latest] = "active"
          BY <3>2, <4>3, <4>5 DEF WinInv, LatestInv, Activated
        <5> QED
          BY <1>5, <4>3, <5>1
      <4>6. CASE sub'[thread[t].order] = "active"
        BY <4>3, <4>6
      <4> QED
        BY <1>0, <3>2, <4>2, <4>3, <4>4, <4>5, <4>6 DEF Follows
    <3> QED
      BY <3>1, <3>2
  <2> QED
    BY <2>1, <2>2
<1> QED
  BY <1>4, <1>6 DEF WinInv

\* When the capture of the latest order is answered, it is active.
LEMMA AnswerWins ==
  ASSUME IInv, WinInv, Answer
  PROVE  WinInv'
<1> DEFINE o == thread["webhook"].order
<1>1. Threads = Verifiers \cup {"webhook"} /\ "webhook" \notin Verifiers /\ None \notin Orders
  BY PaymentsAssumption DEF Threads
<1>2. Stopped("webhook") /\ UNCHANGED <<sub, paid, latest, unsaid>>
  BY <1>1, Stops DEF Answer, IInv, gateway
<1>3. /\ o \in Orders /\ outbox[o] # <<>> /\ outbox[o] \in Seq(Events)
      /\ thread["webhook"].at = "answer" /\ thread["webhook"].event = Head(outbox[o])
  BY DEF Answer, IsAt, IInv, TypeOK, WebhookInv
<1>4. \A p \in Orders : outbox'[p] = outbox[p] \/ (p = o /\ outbox'[p] = Tail(outbox[p]))
  BY <1>3 DEF Answer, IInv, TypeOK
<1>5. PastInv'
  <2>1. \A p \in Orders : Holds(outbox'[p], "captured") => Holds(outbox[p], "captured")
    BY <1>3, <1>4, Answers DEF Events
  <2> QED
    BY <1>1, <1>2, <2>1 DEF WinInv, PastInv, Handles, Stopped
<1>6. LatestInv'
  <2> SUFFICES ASSUME latest # None, paid[latest] = "paid"
               PROVE  /\ outbox'[latest] = <<>> => sub[latest] = "active"
                      /\ thread'["webhook"].order # latest
    BY <1>2 DEF LatestInv
  <2>1. latest \in Orders
    BY DEF IInv, TypeOK
  <2>2. CASE outbox'[latest] = outbox[latest]
    BY <1>1, <1>2, <2>1, <2>2 DEF WinInv, LatestInv, Stopped
  <2>3. CASE latest = o /\ outbox'[latest] = Tail(outbox[latest])
    <3>1. outbox'[latest] = <<>> => thread["webhook"].event = "captured"
      BY <1>3, <2>3, Answers DEF IInv, GatewayInv
    <3> QED
      BY <1>1, <1>2, <1>3, <2>1, <2>3, <3>1 DEF WinInv, LatestInv, Activated, Stopped
  <2> QED
    BY <1>4, <2>1, <2>2, <2>3
<1> QED
  BY <1>5, <1>6 DEF WinInv

\* Sending an event that is no capture keeps what the orders before cannot do.
LEMMA SendKeepsPast ==
  ASSUME IInv, PastInv, NEW o \in Orders, NEW e \in Events \ {"captured"}, Send(o, e)
  PROVE  \A p \in Orders : Holds(outbox'[p], "captured") => Holds(outbox[p], "captured")
BY Sends DEF IInv, TypeOK, Send, Events

\* A new order is not the latest.
LEMMA CreateOrderWins ==
  ASSUME IInv, WinInv, NEW o \in Orders, CreateOrder(o)
  PROVE  WinInv'
<1>1. PastInv'
  BY DEF CreateOrder, gateway, WinInv, PastInv, Handles
<1>2. LatestInv'
  BY DEF CreateOrder, gateway, IInv, TypeOK, WinInv, LatestInv
<1> QED
  BY <1>1, <1>2 DEF WinInv

\* A declined order is not paid yet.
LEMMA DeclineWins ==
  ASSUME IInv, WinInv, NEW o \in Orders, Decline(o)
  PROVE  WinInv'
<1>1. PastInv'
  BY SendKeepsPast DEF Decline, WinInv, PastInv, Handles, Events
<1>2. LatestInv'
  BY DEF Decline, Send, IInv, TypeOK, WinInv, LatestInv
<1> QED
  BY <1>1, <1>2 DEF WinInv

\* The orders before are settled when the next one is paid.
LEMMA PayWins ==
  ASSUME Prompt, IInv, WinInv, NEW o \in Orders, Pay(o)
  PROVE  WinInv'
<1>1. latest' = o /\ o # None /\ paid[o] = "unpaid" /\ thread' = thread
  BY PaymentsAssumption DEF Pay
<1>2. ASSUME NEW p \in Orders \ {o}
      PROVE  outbox'[p] = <<>> /\ p \notin unsaid' /\ \A t \in Threads : thread[t].order # p
  BY <1>2 DEF Pay, Settled, Send, IInv, TypeOK
<1>3. ~Holds(<<>>, "captured")
  BY EmptySeq DEF Holds
<1>4. PastInv'
  BY <1>1, <1>2, <1>3 DEF PastInv, Handles
<1>5. outbox'[o] # <<>>
  BY Sends DEF Pay, Send, IInv, TypeOK, Events
<1>6. thread["webhook"].order = o => thread["webhook"].event # "captured"
  BY <1>1, EventIsTrue DEF IInv, WebhookInv
<1>7. LatestInv'
  BY <1>1, <1>5, <1>6 DEF LatestInv
<1> QED
  BY <1>4, <1>7 DEF WinInv

\* A refund of an older order leaves the latest alone.
LEMMA RefundWins ==
  ASSUME IInv, WinInv, NEW o \in Orders, Refund(o)
  PROVE  WinInv'
<1>1. \A p \in Orders : Holds(outbox'[p], "captured") => Holds(outbox[p], "captured")
  BY SendKeepsPast DEF Refund, WinInv, Events
<1>2. latest # None
  BY DEF Refund, WinInv, PastInv
<1>3. PastInv'
  BY <1>1, <1>2 DEF Refund, WinInv, PastInv, Handles
<1>4. LatestInv'
  BY DEF Refund, Send, IInv, TypeOK, WinInv, LatestInv
<1> QED
  BY <1>3, <1>4 DEF WinInv

\* Only the latest order has a capture to deliver.
LEMMA DeliverWins ==
  ASSUME IInv, WinInv, NEW o \in Orders, Deliver(o)
  PROVE  WinInv'
<1>1. /\ thread'["webhook"] = [at |-> "record", order |-> o,
                                event |-> Head(outbox[o]), found |-> sub[o]]
      /\ \A t \in Threads \ {"webhook"} : thread'[t] = thread[t]
  BY DEF Deliver, IInv, TypeOK, Threads
<1>2. UNCHANGED <<sub, paid, latest, unsaid, outbox>>
  BY DEF Deliver, gateway
<1>3. PastInv'
  BY <1>1, <1>2 DEF WinInv, PastInv, Handles
<1>4. LatestInv'
  BY <1>1, <1>2 DEF WinInv, LatestInv, Activated
<1> QED
  BY <1>3, <1>4 DEF WinInv

\* Only the latest order is left to be confirmed.
LEMMA VerifyWins ==
  ASSUME IInv, WinInv, NEW v \in Verifiers, NEW o \in Orders, Verify(v, o)
  PROVE  WinInv'
<1>1. o = latest /\ latest # None
  BY DEF Verify, IInv, ConfirmInv, WinInv, PastInv
<1>2. /\ thread'[v].order = o
      /\ \A t \in Threads \ {v} : thread'[t] = thread[t]
      /\ v # "webhook" /\ v \in Threads
  BY PaymentsAssumption DEF Verify, IInv, TypeOK, Threads
<1>3. UNCHANGED <<sub, paid, latest, outbox>> /\ unsaid' \subseteq unsaid
  BY DEF Verify, gateway
<1>4. PastInv'
  BY <1>1, <1>2, <1>3 DEF WinInv, PastInv, Handles
<1>5. LatestInv'
  BY <1>2, <1>3 DEF WinInv, LatestInv, Threads
<1> QED
  BY <1>4, <1>5 DEF WinInv

\* Nothing is paid at first.
LEMMA WinInvInit == Init => WinInv
BY PaymentsAssumption DEF Init, WinInv, PastInv, LatestInv

\* Every step keeps it, for a user who pays one order at a time.
LEMMA WinInvStep ==
  ASSUME Prompt, IInv, WinInv, [Next]_vars
  PROVE  WinInv'
<1>1. CASE UNCHANGED vars
  BY <1>1 DEF vars, gateway, WinInv, PastInv, LatestInv, Handles
<1>2. CASE \E o \in Orders : CreateOrder(o) \/ Decline(o) \/ Pay(o) \/ Refund(o) \/ Deliver(o)
  BY <1>2, CreateOrderWins, DeclineWins, PayWins, RefundWins, DeliverWins
<1>3. CASE \E v \in Verifiers : VerifierStep(v)
  BY <1>3, VerifyWins, RetireStep, ActivateStep, NoteStep, MirrorStep, HandlerWins
  DEF VerifierStep, Threads
<1>4. CASE WebhookStep
  BY <1>4, RecordStep, RetireStep, ActivateStep, FailStep, CancelStep, AnswerWins, HandlerWins
  DEF WebhookStep, Threads
<1> QED
  BY <1>1, <1>2, <1>3, <1>4 DEF Next

\* For a user who pays an order when nothing of the others is under way, the order
\* paid last is the active one once its events are answered, whatever calls fail,
\* pages close or events come twice.
THEOREM NewestPlanWinsHolds ==
  ASSUME Prompt
  PROVE  Spec => []NewestPlanWins
<1>1. Init => WinInv
  BY WinInvInit
<1>2. IInv /\ WinInv /\ [Next]_vars => WinInv'
  BY WinInvStep
<1>3. IInv /\ WinInv => NewestPlanWins
  BY DEF IInv, TypeOK, WinInv, LatestInv, NewestPlanWins, Settled
<1> QED
  BY <1>1, <1>2, <1>3, IInvHolds, PTL DEF Spec

=============================================================================
