----------------------------- MODULE BillingMirror -----------------------------
(***************************************************************************)
(* The subscription row of one user and what Stripe knows of the user:     *)
(* create_checkout_session, the read that creates a free row, and the five *)
(* webhook events, each handled in a transaction of its own, which reads   *)
(* the row and then writes the columns it changes, and delivered again     *)
(* after an error.  Stripe and the payment are external.                   *)
(***************************************************************************)
EXTENDS Naturals, SequencesExt

CONSTANTS
    Checkouts,       \* checkout requests of the user, each naming what Stripe creates for it
    Handlers,        \* deliveries of events that may run in parallel
    MaxStripeEvents, \* bound: events Stripe ever emits
    MaxRedeliveries  \* bound: events delivered once more than needed

ASSUME BillingAssumption ==
    Checkouts # {} /\ "none" \notin Checkouts /\ MaxStripeEvents \in Nat /\ MaxRedeliveries \in Nat

Customers == Checkouts \cup {"none"}   \* "none": the cus_free_ placeholder, or no id

VARIABLES
    subscriptionRow, \* the row, or absent
    checkout,        \* per request: stage, whether it saw a row, and the customer it uses
    stripeStatus,    \* the subscription a checkout has led to
    stripeEvents,    \* events to be delivered, in the order of emission
    handler,         \* per delivery: its event and the row it has read
    emitted, redelivered,
    disordered,      \* history: an event overtook another or came twice
    overlapped,      \* history: two subscriptions of the user ran at once
    replaced,        \* history: a checkout has replaced another's customer in the row
    raced            \* history: two events were handled at the same time

stripe == <<stripeStatus, stripeEvents, emitted>>
billingHistory == <<redelivered, disordered, overlapped, replaced, raced>>
billingVars == <<subscriptionRow, checkout, stripe, handler, billingHistory>>

Absent == [customer |-> "none", sub |-> "none", plan |-> "none", status |-> "none"]
FreeRow(c) == [customer |-> c, sub |-> "none", plan |-> "free", status |-> "active"]
ProRow(c, s) == [customer |-> c, sub |-> s, plan |-> "pro", status |-> "active"]

\* What Stripe says of a subscription that has not ended; "unpaid" stands for every
\* status that _handle_subscription_updated does not name (unpaid, paused, ...).
Ongoing == {"active", "trialing", "past_due", "unpaid"}

\* customer.subscription.updated is named after the status it reports.
EventTypes == {"completed", "deleted", "paid", "failed"} \cup Ongoing
Event(type, r) == [type |-> type, sub |-> r]

NoEvent == [busy |-> FALSE, event |-> Event("completed", CHOOSE r \in Checkouts : TRUE), seen |-> Absent]

BillingRows == [customer : Customers, sub : Customers, plan : {"none", "free", "pro"},
                status : {"none", "active", "trialing", "past_due", "cancelled"}]

BillingTypeOK ==
    /\ subscriptionRow \in BillingRows
    /\ checkout \in [Checkouts -> [stage : {"idle", "read", "open", "paid", "failed"},
                                   sawRow : BOOLEAN, customer : Customers]]
    /\ stripeStatus \in [Checkouts -> Ongoing \cup {"none", "ended"}]
    /\ stripeEvents \in Seq([type : EventTypes, sub : Checkouts])
    /\ handler \in [Handlers -> [busy : BOOLEAN, event : [type : EventTypes, sub : Checkouts],
                                 seen : BillingRows]]
    /\ emitted \in 0..MaxStripeEvents /\ redelivered \in 0..MaxRedeliveries
    /\ {disordered, overlapped, replaced, raced} \subseteq BOOLEAN

BillingInit ==
    /\ subscriptionRow = Absent
    /\ checkout = [r \in Checkouts |-> [stage |-> "idle", sawRow |-> FALSE, customer |-> "none"]]
    /\ stripeStatus = [r \in Checkouts |-> "none"]
    /\ stripeEvents = <<>> /\ emitted = 0 /\ redelivered = 0
    /\ handler = [h \in Handlers |-> NoEvent]
    /\ disordered = FALSE /\ overlapped = FALSE /\ replaced = FALSE /\ raced = FALSE

-----------------------------------------------------------------------------
(* Requests.                                                               *)

\* GET /billing/subscription.
ViewSubscription ==
    /\ subscriptionRow = Absent
    /\ subscriptionRow' = FreeRow("none")
    /\ UNCHANGED <<checkout, stripe, handler, billingHistory>>

\* A user with an active Pro plan is turned away; a placeholder is no customer.
ReadSubscription(r) ==
    /\ checkout[r].stage = "idle"
    /\ ~(subscriptionRow.plan = "pro" /\ subscriptionRow.status = "active")
    /\ checkout' = [checkout EXCEPT ![r] = [stage |-> "read",
                                            sawRow |-> subscriptionRow # Absent,
                                            customer |-> subscriptionRow.customer]]
    /\ UNCHANGED <<subscriptionRow, stripe, handler, billingHistory>>

\* The customer is created if need be and stored, the session is created, the
\* route commits.  user_id is unique.
OpenCheckout(r) ==
    /\ checkout[r].stage = "read"
    /\ IF checkout[r].customer # "none"
       THEN /\ checkout' = [checkout EXCEPT ![r].stage = "open"]
            /\ UNCHANGED <<subscriptionRow, replaced>>
       ELSE IF ~checkout[r].sawRow /\ subscriptionRow # Absent
       THEN /\ checkout' = [checkout EXCEPT ![r].stage = "failed"]
            /\ UNCHANGED <<subscriptionRow, replaced>>
       ELSE /\ checkout' = [checkout EXCEPT ![r].stage = "open", ![r].customer = r]
            /\ subscriptionRow' = IF checkout[r].sawRow
                                  THEN [subscriptionRow EXCEPT !.customer = r]
                                  ELSE FreeRow(r)
            /\ replaced' = (replaced \/ subscriptionRow.customer # "none")
    /\ UNCHANGED <<stripe, handler, redelivered, disordered, overlapped, raced>>

-----------------------------------------------------------------------------
(* Stripe.                                                                 *)

Emit(events) ==
    /\ emitted + Len(events) <= MaxStripeEvents
    /\ emitted' = emitted + Len(events)
    /\ stripeEvents' = stripeEvents \o events

Running(r) == stripeStatus[r] \in Ongoing

Becomes(r, status) == stripeStatus' = [stripeStatus EXCEPT ![r] = status]

Pay(r) ==
    /\ checkout[r].stage = "open"
    /\ checkout' = [checkout EXCEPT ![r].stage = "paid"]
    /\ Becomes(r, "active")
    /\ Emit(<<Event("completed", r), Event("paid", r)>>)
    /\ overlapped' = (overlapped \/ \E q \in Checkouts : Running(q))
    /\ UNCHANGED <<subscriptionRow, handler, redelivered, disordered, replaced, raced>>

\* An invoice that is paid or fails may go along with the new status.
StatusChanges(r, status) ==
    /\ Running(r) /\ status \in Ongoing \ {stripeStatus[r]}
    /\ Becomes(r, status)
    /\ \/ Emit(<<Event(status, r)>>)
       \/ status = "active" /\ Emit(<<Event("paid", r), Event(status, r)>>)
       \/ status \in {"past_due", "unpaid"} /\ Emit(<<Event("failed", r), Event(status, r)>>)
    /\ UNCHANGED <<subscriptionRow, checkout, handler, billingHistory>>

SubscriptionEnds(r) ==
    /\ Running(r)
    /\ Becomes(r, "ended")
    /\ Emit(<<Event("deleted", r)>>)
    /\ UNCHANGED <<subscriptionRow, checkout, handler, billingHistory>>

-----------------------------------------------------------------------------
(* handle_webhook_event.                                                   *)

Found(r) == subscriptionRow.sub = r
FoundByCustomer(r) == subscriptionRow # Absent /\ subscriptionRow.customer = checkout[r].customer

\* The row that an event is about: by subscription id, for an update then by customer,
\* and for a checkout by customer alone.  The two queries of an update are one step.
RowFor(e) ==
    IF \/ e.type # "completed" /\ Found(e.sub)
       \/ e.type \in {"completed"} \cup Ongoing /\ FoundByCustomer(e.sub)
    THEN subscriptionRow
    ELSE Absent

AfterCheckout(row, r) ==
    IF row = Absent
    THEN ProRow(checkout[r].customer, r)
    ELSE [row EXCEPT !.sub = r, !.plan = "pro", !.status = "active"]

\* status_map: what it does not know counts as active.
Mapped(status) == IF status \in {"active", "trialing", "past_due"} THEN status ELSE "active"

\* Mutant: an active subscription sets the plan too.
AfterUpdate_Upgrades(row, status) ==
    [row EXCEPT !.status = Mapped(status), !.plan = IF status = "active" THEN "pro" ELSE @]

AfterUpdate(row, status) == [row EXCEPT !.status = Mapped(status)]

AfterDeletion(row) == [row EXCEPT !.plan = "free", !.status = "cancelled", !.sub = "none"]

AfterPayment(row, status) == [row EXCEPT !.status = status]

\* What the event makes of the row it has found; without one only a checkout goes on.
Handled(e, row) ==
    CASE e.type = "completed" -> AfterCheckout(row, e.sub)
      [] e.type \in Ongoing /\ row # Absent -> AfterUpdate(row, e.type)
      [] e.type = "deleted" /\ row # Absent -> AfterDeletion(row)
      [] e.type = "paid" /\ row # Absent -> AfterPayment(row, "active")
      [] e.type = "failed" /\ row # Absent -> AfterPayment(row, "past_due")
      [] OTHER -> row

Busy(h) == handler[h].busy

ReadForEvent(h, i) ==
    /\ ~Busy(h) /\ i \in 1..Len(stripeEvents)
    /\ handler' = [handler EXCEPT ![h] = [busy |-> TRUE, event |-> stripeEvents[i],
                                          seen |-> RowFor(stripeEvents[i])]]
    /\ stripeEvents' = RemoveAt(stripeEvents, i)
    /\ disordered' = (disordered \/ i > 1)
    /\ raced' = (raced \/ \E g \in Handlers : Busy(g))
    /\ UNCHANGED <<subscriptionRow, checkout, stripeStatus, emitted, redelivered, overlapped, replaced>>

\* UPDATE sets the columns that differ from the row as it was read.
Written(old, new, current) == IF new # old THEN new ELSE current

Merged(seen, after) ==
    [subscriptionRow EXCEPT !.sub = Written(seen.sub, after.sub, @),
                            !.plan = Written(seen.plan, after.plan, @),
                            !.status = Written(seen.status, after.status, @)]

AfterWrite(e, seen) ==
    IF seen # Absent THEN Merged(seen, Handled(e, seen))
    ELSE IF e.type = "completed" THEN Handled(e, seen)
    ELSE subscriptionRow

\* Of two rows for one user the second is refused.
InsertFails(e, seen) == e.type = "completed" /\ seen = Absent /\ subscriptionRow # Absent

Returned(e) == stripeEvents' = <<e>> \o stripeEvents

\* The route commits and answers 200; Stripe may not see the answer.
WriteForEvent(h) ==
    /\ Busy(h) /\ ~InsertFails(handler[h].event, handler[h].seen)
    /\ subscriptionRow' = AfterWrite(handler[h].event, handler[h].seen)
    /\ \/ UNCHANGED <<stripeEvents, redelivered, disordered>>
       \/ /\ redelivered < MaxRedeliveries /\ redelivered' = redelivered + 1
          /\ Returned(handler[h].event) /\ disordered' = TRUE
    /\ handler' = [handler EXCEPT ![h] = NoEvent]
    /\ UNCHANGED <<checkout, stripeStatus, emitted, overlapped, replaced, raced>>

\* An exception, the refused row among them: rolled back, answered with 500.
AbortHandler(h) ==
    /\ Busy(h)
    /\ Returned(handler[h].event)
    /\ handler' = [handler EXCEPT ![h] = NoEvent]
    /\ UNCHANGED <<subscriptionRow, checkout, stripeStatus, emitted, billingHistory>>

BillingNext ==
    \/ ViewSubscription
    \/ \E r \in Checkouts :
         \/ ReadSubscription(r) \/ OpenCheckout(r)
         \/ Pay(r) \/ SubscriptionEnds(r)
         \/ \E status \in Ongoing : StatusChanges(r, status)
    \/ \E h \in Handlers :
         \/ \E i \in 1..MaxStripeEvents : ReadForEvent(h, i)
         \/ WriteForEvent(h) \/ AbortHandler(h)

BillingSpec == BillingInit /\ [][BillingNext]_billingVars

\* Mutant: a trial does not count.
HasPro_ActiveOnly == subscriptionRow.plan = "pro" /\ subscriptionRow.status = "active"

\* get_user_plan.
HasPro == subscriptionRow.plan = "pro" /\ subscriptionRow.status \in {"active", "trialing"}

-----------------------------------------------------------------------------
(* Properties.                                                             *)

AllHandled == stripeEvents = <<>> /\ \A h \in Handlers : ~Busy(h)

\* When every event is handled, the user has Pro exactly while Stripe has a
\* subscription that is active, in trial, or in a status the code does not know.  The
\* reasons for anything else are four: events came twice or out of order, two were
\* handled at the same time, two subscriptions ran at once, or two checkouts each
\* created a customer and the row kept the later one (handle_webhook_event,
\* create_checkout_session).
MirrorsStripe ==
    AllHandled /\ ~disordered /\ ~raced /\ ~overlapped /\ ~replaced =>
        (HasPro <=> \E r \in Checkouts : stripeStatus[r] \in Ongoing \ {"past_due"})

\* However events are repeated, reordered and handled in parallel, nobody gets Pro who
\* never paid; and unless two were handled in parallel the row names a subscription
\* that was paid for: not even the late update of an old subscription, which finds the
\* row by its customer, gives Pro back.
ProWasPaid ==
    subscriptionRow.plan = "pro" =>
        /\ \E r \in Checkouts : stripeStatus[r] # "none"
        /\ \/ raced
           \/ subscriptionRow.sub # "none" /\ stripeStatus[subscriptionRow.sub] # "none"
=============================================================================
