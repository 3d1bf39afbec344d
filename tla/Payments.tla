------------------------------ MODULE Payments ------------------------------
(***************************************************************************)
(* The subscriptions of one user: checkout, the confirmation that the      *)
(* pricing page posts, and the gateway's webhooks                          *)
(* (app/backend/app/api/payments.py, app/frontend/src/pages/Pricing.jsx,   *)
(* migrations 014 and 164).                                                *)
(*                                                                         *)
(* verify_payment is a def route: it runs in the thread pool, beside the   *)
(* webhook, an async route that does one event at a time. A step is one    *)
(* database call. The gateway is outside the program.                      *)
(***************************************************************************)
EXTENDS Naturals, Sequences

CONSTANTS
  Orders,        \* the user's orders, each for a plan
  Verifiers,     \* threads that run verify_payment
  Prompt,        \* an order is paid when nothing of the others is under way
  Faults,        \* "call": a database call raises; "ack": a webhook's answer is lost
  MaxFaults,     \* bound: faults
  MaxDeclines,   \* bound: declined payments of an order
  None           \* no order

ASSUME PaymentsAssumption ==
  /\ None \notin Orders /\ Verifiers \cap {"webhook"} = {}
  /\ Prompt \in BOOLEAN /\ Faults \subseteq {"call", "ack"}
  /\ {MaxFaults, MaxDeclines} \subseteq Nat

VARIABLES
  sub,       \* user_subscriptions.status, by order; "none": no row
  plan,      \* the plan in the user's auth metadata
  paid,      \* the gateway: what became of the order's payment
  declines,  \* the gateway: declined payments of the order
  latest,    \* the order paid last
  unsaid,    \* orders whose success handler has yet to post the confirmation
  outbox,    \* the gateway: events not yet acknowledged, by order
  thread,    \* what each handler does
  faults     \* faults so far

gateway == <<paid, declines, latest>>
vars == <<sub, plan, gateway, unsaid, outbox, thread, faults>>

Threads == Verifiers \cup {"webhook"}
Events == {"failed", "captured", "refunded"}
Steps == {"idle", "record", "retire", "activate", "note", "mirror", "fail", "cancel", "answer"}

Thread == [at : Steps, order : Orders \cup {None}, event : Events \cup {"verify"},
           found : {"created", "active", "cancelled", "failed"}]
Idle == [at |-> "idle", order |-> None, event |-> "verify", found |-> "created"]

TypeOK ==
  /\ sub \in [Orders -> {"none", "created", "active", "cancelled", "failed"}]
  /\ plan \in Orders \cup {None}
  /\ paid \in [Orders -> {"unpaid", "paid", "refunded"}]
  /\ declines \in [Orders -> 0 .. MaxDeclines]
  /\ latest \in Orders \cup {None}
  /\ unsaid \subseteq Orders
  /\ outbox \in [Orders -> Seq(Events)]
  /\ thread \in [Threads -> Thread]
  /\ faults \in 0 .. MaxFaults

Init ==
  /\ sub = [o \in Orders |-> "none"]
  /\ plan = None
  /\ paid = [o \in Orders |-> "unpaid"]
  /\ declines = [o \in Orders |-> 0]
  /\ latest = None
  /\ unsaid = {}
  /\ outbox = [o \in Orders |-> <<>>]
  /\ thread = [t \in Threads |-> Idle]
  /\ faults = 0

-----------------------------------------------------------------------------

IsAt(t, step) == thread[t].at = step
GoesTo(t, step) == thread' = [thread EXCEPT ![t].at = step]
Ends(t) == thread' = [thread EXCEPT ![t] = Idle]

Fault(kind) == kind \in Faults /\ faults < MaxFaults /\ faults' = faults + 1
NoFault == UNCHANGED faults

\* A call that raises ends the request with a 500; the gateway sends the event again.
Raises(t) == Fault("call") /\ Ends(t)

-----------------------------------------------------------------------------
(* The gateway and the pricing page.                                         *)

\* create_order: the row is there before the checkout can open.
CreateOrder(o) ==
  /\ sub[o] = "none"
  /\ sub' = [sub EXCEPT ![o] = "created"]
  /\ UNCHANGED <<plan, gateway, unsaid, outbox, thread, faults>>

Send(o, event) == outbox' = [outbox EXCEPT ![o] = Append(@, event)]

Decline(o) ==
  /\ sub[o] # "none" /\ paid[o] = "unpaid" /\ declines[o] < MaxDeclines
  /\ declines' = [declines EXCEPT ![o] = @ + 1]
  /\ Send(o, "failed")
  /\ UNCHANGED <<sub, plan, paid, latest, unsaid, thread, faults>>

Settled(o) == outbox[o] = <<>> /\ o \notin unsaid /\ \A t \in Threads : thread[t].order # o

\* The page may be closed before its success handler runs.
Pay(o) ==
  /\ sub[o] # "none" /\ paid[o] = "unpaid"
  /\ Prompt => \A p \in Orders \ {o} : Settled(p)
  /\ paid' = [paid EXCEPT ![o] = "paid"] /\ latest' = o
  /\ Send(o, "captured")
  /\ unsaid' \in {unsaid, unsaid \cup {o}}
  /\ UNCHANGED <<sub, plan, declines, thread, faults>>

\* A refund comes long after the confirmation.
Refund(o) ==
  /\ paid[o] = "paid" /\ o \notin unsaid
  /\ \A v \in Verifiers : thread[v].order # o
  /\ paid' = [paid EXCEPT ![o] = "refunded"]
  /\ Send(o, "refunded")
  /\ UNCHANGED <<sub, plan, declines, latest, unsaid, thread, faults>>

-----------------------------------------------------------------------------
(* The handlers.                                                             *)

\* verify_payment reads the order's row; the signature is that of a paid order.
Verify(v, o) ==
  /\ IsAt(v, "idle") /\ o \in unsaid
  /\ unsaid' = unsaid \ {o}
  /\ thread' = [thread EXCEPT ![v] = [at |-> "retire", order |-> o, event |-> "verify",
                                      found |-> sub[o]]]
  /\ UNCHANGED <<sub, plan, gateway, outbox, faults>>

\* razorpay_webhook reads the order's row; the events of an order come in order.
Deliver(o) ==
  /\ IsAt("webhook", "idle") /\ outbox[o] # <<>>
  /\ thread' = [thread EXCEPT !["webhook"] = [at |-> "record", order |-> o,
                                              event |-> Head(outbox[o]), found |-> sub[o]]]
  /\ UNCHANGED <<sub, plan, gateway, unsaid, outbox, faults>>

\* (mutant) Only a subscription that was just created is activated.
RecordCreated ==
  /\ IsAt("webhook", "record")
  /\ LET w == thread["webhook"]
     IN \/ /\ NoFault
           /\ GoesTo("webhook", CASE w.event = "failed" -> "fail"
                                  [] w.event = "refunded" -> "cancel"
                                  [] w.event = "captured" /\ w.found = "created" -> "retire"
                                  [] w.event = "captured" /\ w.found # "created" -> "answer")
        \/ Raises("webhook")
  /\ UNCHANGED <<sub, plan, gateway, unsaid, outbox>>

\* (mutant) A refund is noted and nothing more.
RecordRefund ==
  /\ IsAt("webhook", "record")
  /\ LET w == thread["webhook"]
     IN \/ /\ NoFault
           /\ GoesTo("webhook", CASE w.event = "failed" -> "fail"
                                  [] w.event = "refunded" -> "answer"
                                  [] w.event = "captured" /\ w.found # "active" -> "retire"
                                  [] w.event = "captured" /\ w.found = "active" -> "answer")
        \/ Raises("webhook")
  /\ UNCHANGED <<sub, plan, gateway, unsaid, outbox>>

\* The event goes to payment_history; what follows depends on the row as it was read.
Record ==
  /\ IsAt("webhook", "record")
  /\ LET w == thread["webhook"]
     IN \/ /\ NoFault
           /\ GoesTo("webhook", CASE w.event = "failed" -> "fail"
                                  [] w.event = "refunded" -> "cancel"
                                  [] w.event = "captured" /\ w.found # "active" -> "retire"
                                  [] w.event = "captured" /\ w.found = "active" -> "answer")
        \/ Raises("webhook")
  /\ UNCHANGED <<sub, plan, gateway, unsaid, outbox>>

\* (mutant) The webhook does not retire the plan before it.
RetireByPage(t) ==
  /\ IsAt(t, "retire")
  /\ \/ /\ NoFault
        /\ sub' = [o \in Orders |-> IF o # thread[t].order /\ sub[o] = "active" /\ t # "webhook"
                                    THEN "cancelled" ELSE sub[o]]
     \/ Fault("call") /\ UNCHANGED sub
  /\ GoesTo(t, "activate")
  /\ UNCHANGED <<plan, gateway, unsaid, outbox>>

\* _deactivate_other_active swallows its failure.
Retire(t) ==
  /\ IsAt(t, "retire")
  /\ \/ /\ NoFault
        /\ sub' = [o \in Orders |-> IF o # thread[t].order /\ sub[o] = "active"
                                    THEN "cancelled" ELSE sub[o]]
     \/ Fault("call") /\ UNCHANGED sub
  /\ GoesTo(t, "activate")
  /\ UNCHANGED <<plan, gateway, unsaid, outbox>>

\* The unique index refuses a second active subscription of the user.
Activate(t) ==
  /\ IsAt(t, "activate")
  /\ LET o == thread[t].order
         others == {p \in Orders \ {o} : sub[p] = "active"}
     IN \/ /\ others = {} /\ NoFault
           /\ sub' = [sub EXCEPT ![o] = "active"]
           /\ GoesTo(t, IF t = "webhook" THEN "answer" ELSE "note")
        \/ others # {} /\ NoFault /\ Ends(t) /\ UNCHANGED sub
        \/ Raises(t) /\ UNCHANGED sub
  /\ UNCHANGED <<plan, gateway, unsaid, outbox>>

\* verify_payment inserts the capture into payment_history, then shows the plan.
Note(v) ==
  /\ IsAt(v, "note")
  /\ \/ NoFault /\ GoesTo(v, "mirror")
     \/ Raises(v)
  /\ UNCHANGED <<sub, plan, gateway, unsaid, outbox>>

Mirror(v) ==
  /\ IsAt(v, "mirror")
  /\ \/ plan' = thread[v].order /\ NoFault
     \/ UNCHANGED plan /\ Fault("call")
  /\ Ends(v)
  /\ UNCHANGED <<sub, gateway, unsaid, outbox>>

\* payment.failed and the refund events write whatever the row's status is.
Fail ==
  /\ IsAt("webhook", "fail")
  /\ \/ /\ sub' = [sub EXCEPT ![thread["webhook"].order] = "failed"]
        /\ NoFault /\ GoesTo("webhook", "answer")
     \/ Raises("webhook") /\ UNCHANGED sub
  /\ UNCHANGED <<plan, gateway, unsaid, outbox>>

\* (mutant) The subscription gets the status of the payment.
CancelAsRefunded ==
  /\ IsAt("webhook", "cancel")
  /\ \/ /\ sub' = [sub EXCEPT ![thread["webhook"].order] = "refunded"]
        /\ NoFault /\ GoesTo("webhook", "answer")
     \/ Raises("webhook") /\ UNCHANGED sub
  /\ UNCHANGED <<plan, gateway, unsaid, outbox>>

Cancel ==
  /\ IsAt("webhook", "cancel")
  /\ \/ /\ sub' = [sub EXCEPT ![thread["webhook"].order] = "cancelled"]
        /\ NoFault /\ GoesTo("webhook", "answer")
     \/ Raises("webhook") /\ UNCHANGED sub
  /\ UNCHANGED <<plan, gateway, unsaid, outbox>>

\* The gateway sends an event until it is answered with a 200.
Answer ==
  /\ IsAt("webhook", "answer")
  /\ LET o == thread["webhook"].order
     IN \/ outbox' = [outbox EXCEPT ![o] = Tail(@)] /\ NoFault
        \/ UNCHANGED outbox /\ Fault("ack")
  /\ Ends("webhook")
  /\ UNCHANGED <<sub, plan, gateway, unsaid>>

-----------------------------------------------------------------------------

VerifierStep(v) ==
  \/ \E o \in Orders : Verify(v, o)
  \/ Retire(v) \/ Activate(v) \/ Note(v) \/ Mirror(v)

WebhookStep ==
  Record \/ Retire("webhook") \/ Activate("webhook") \/ Fail \/ Cancel \/ Answer

Next ==
  \/ \E o \in Orders : CreateOrder(o) \/ Decline(o) \/ Pay(o) \/ Refund(o) \/ Deliver(o)
  \/ \E v \in Verifiers : VerifierStep(v)
  \/ WebhookStep

Spec == Init /\ [][Next]_vars

\* A request that began goes on; the gateway delivers the events of every order.
FairSpec ==
  /\ Spec
  /\ \A v \in Verifiers : WF_vars(VerifierStep(v))
  /\ WF_vars(WebhookStep)
  /\ \A o \in Orders : SF_vars(Deliver(o))

-----------------------------------------------------------------------------
(* Properties.                                                               *)

\* tests/test_razorpay_payments.py, test_switch_plan_deactivates_previous: once every
\* event is answered, the order paid last is the user's active subscription, whatever
\* raced, failed, was declined before or was delivered twice.
NewestPlanWins ==
  (\A o \in Orders : Settled(o)) /\ latest # None /\ paid[latest] = "paid" => sub[latest] = "active"

\* A refunded order is not active once its events are answered.
RefundEnds == \A o \in Orders : paid[o] = "refunded" /\ Settled(o) => sub[o] # "active"

\* A payment makes its subscription active, also when the page is closed before it
\* confirms and when its confirmation fails.
EveryPaymentActivates ==
  \A o \in Orders :
    paid[o] = "paid" /\ sub[o] \in {"created", "failed"}
      ~> sub[o] = "active" \/ paid[o] = "refunded"
=============================================================================
