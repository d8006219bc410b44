---------------------------- MODULE CommerceProofs ----------------------------
(***************************************************************************)
(* Theorems about what is paid for and what is installed: the plan that    *)
(* billing grants, and the marketplace's limit and counters.  Each is      *)
(* about the specification of its component, for any constants.            *)
(***************************************************************************)
EXTENDS BillingMirror, Marketplace, FiniteSetTheorems, TLAPS

-----------------------------------------------------------------------------
(* The plan that billing grants.                                           *)

StripeEvent == [type : EventTypes, sub : Checkouts]

CheckoutRecords == [stage : {"idle", "read", "open", "paid", "failed"},
                    sawRow : BOOLEAN, customer : Customers]

HandlerRecords == [busy : BOOLEAN, event : StripeEvent, seen : BillingRows]

MirrorTyped ==
    /\ subscriptionRow \in BillingRows
    /\ checkout \in [Checkouts -> CheckoutRecords]
    /\ stripeStatus \in [Checkouts -> Ongoing \cup {"none", "ended"}]
    /\ stripeEvents \in Seq(StripeEvent)
    /\ handler \in [Handlers -> HandlerRecords]

(* Stripe says something about a subscription only once it is paid for.     *)
EventsArePaid ==
    /\ \A i \in 1..Len(stripeEvents) : stripeStatus[stripeEvents[i].sub] # "none"
    /\ \A h \in Handlers : Busy(h) => stripeStatus[handler[h].event.sub] # "none"

(* While no two events are handled at once, the row keeps what the handler  *)
(* has read of it.                                                          *)
SeenIsRow ==
    ~raced =>
        \A h \in Handlers : Busy(h) =>
            /\ \A g \in Handlers : Busy(g) => g = h
            /\ \/ handler[h].seen = Absent
               \/ /\ subscriptionRow # Absent
                  /\ handler[h].seen.sub = subscriptionRow.sub
                  /\ handler[h].seen.plan = subscriptionRow.plan
                  /\ handler[h].seen.status = subscriptionRow.status

PaidInv == MirrorTyped /\ EventsArePaid /\ SeenIsRow /\ ProWasPaid

LEMMA EventTyped ==
    \A type \in EventTypes, r \in Checkouts :
        /\ Event(type, r) \in StripeEvent /\ Event(type, r).sub = r /\ Event(type, r).type = type
BY DEF Event, StripeEvent

LEMMA NoEventTyped == NoEvent \in HandlerRecords /\ NoEvent.busy = FALSE
<1>1. (CHOOSE r \in Checkouts : TRUE) \in Checkouts
  BY BillingAssumption
<1>2. Event("completed", CHOOSE r \in Checkouts : TRUE) \in StripeEvent
  BY <1>1, EventTyped DEF EventTypes
<1>3. Absent \in BillingRows
  BY DEF Absent, BillingRows, Customers
<1> DEFINE e == Event("completed", CHOOSE r \in Checkouts : TRUE)
<1>4. NoEvent = [busy |-> FALSE, event |-> e, seen |-> Absent]
  BY DEF NoEvent
<1> HIDE DEF e
<1>5. [busy |-> FALSE, event |-> e, seen |-> Absent] \in HandlerRecords
  BY <1>2, <1>3 DEF HandlerRecords, e
<1> QED BY <1>4, <1>5

(* The elements of two sequences one after the other.                       *)
LEMMA Concatenated ==
    ASSUME NEW S, NEW s \in Seq(S), NEW t \in Seq(S)
    PROVE  /\ s \o t \in Seq(S) /\ Len(s \o t) = Len(s) + Len(t)
           /\ \A i \in 1..Len(s \o t) :
                (s \o t)[i] = IF i <= Len(s) THEN s[i] ELSE t[i - Len(s)]
OBVIOUS

(* Events put before or after those on their way are paid for as they are.  *)
LEMMA ConcatenatedPaid ==
    ASSUME NEW s \in Seq(StripeEvent), NEW t \in Seq(StripeEvent),
           NEW statuses \in [Checkouts -> Ongoing \cup {"none", "ended"}],
           \A i \in 1..Len(s) : statuses[s[i].sub] # "none",
           \A i \in 1..Len(t) : statuses[t[i].sub] # "none"
    PROVE  \A i \in 1..Len(s \o t) : statuses[(s \o t)[i].sub] # "none"
<1>1. /\ Len(s \o t) = Len(s) + Len(t) /\ Len(s) \in Nat /\ Len(t) \in Nat
      /\ \A i \in 1..Len(s \o t) : (s \o t)[i] = IF i <= Len(s) THEN s[i] ELSE t[i - Len(s)]
  BY Concatenated
<1> DEFINE st == s \o t
<1> HIDE DEF st
<1>2. ASSUME NEW i \in 1..Len(st) PROVE statuses[st[i].sub] # "none"
  <2>1. CASE i <= Len(s)
    <3>1. i \in 1..Len(s) /\ st[i] = s[i]
      BY <1>1, <2>1 DEF st
    <3> QED BY <3>1
  <2>2. CASE ~(i <= Len(s))
    <3>1. i - Len(s) \in 1..Len(t) /\ st[i] = t[i - Len(s)]
      BY <1>1, <2>2 DEF st
    <3> QED BY <3>1
  <2> QED BY <2>1, <2>2
<1> QED BY <1>2 DEF st

LEMMA Removed ==
    ASSUME NEW s \in Seq(StripeEvent), NEW i \in 1..Len(s)
    PROVE  /\ RemoveAt(s, i) \in Seq(StripeEvent)
           /\ \A j \in 1..Len(RemoveAt(s, i)) : \E k \in 1..Len(s) : RemoveAt(s, i)[j] = s[k]
<1> DEFINE before == SubSeq(s, 1, i - 1)
           after == SubSeq(s, i + 1, Len(s))
<1>1. before \in Seq(StripeEvent) /\ Len(before) = i - 1 /\ \A j \in 1..i - 1 : before[j] = s[j]
  OBVIOUS
<1>2. /\ after \in Seq(StripeEvent) /\ Len(after) = Len(s) - i
      /\ \A j \in 1..Len(s) - i : after[j] = s[i + j]
  OBVIOUS
<1>3. RemoveAt(s, i) = before \o after
  BY DEF RemoveAt
<1> HIDE DEF before, after
<1>4. /\ before \o after \in Seq(StripeEvent) /\ Len(before \o after) = Len(s) - 1
      /\ \A j \in 1..Len(s) - 1 :
           (before \o after)[j] = IF j <= i - 1 THEN before[j] ELSE after[j - (i - 1)]
  <2>1. (i - 1) + (Len(s) - i) = Len(s) - 1
    OBVIOUS
  <2>2. /\ before \o after \in Seq(StripeEvent) /\ Len(before \o after) = Len(before) + Len(after)
        /\ \A j \in 1..Len(before \o after) :
             (before \o after)[j] = IF j <= Len(before) THEN before[j] ELSE after[j - Len(before)]
    BY <1>1, <1>2, Concatenated
  <2>3. Len(before) = i - 1 /\ Len(before \o after) = Len(s) - 1
    BY <1>1, <1>2, <2>1, <2>2
  <2> QED BY <2>2, <2>3
<1>5. ASSUME NEW j \in 1..Len(s) - 1 PROVE \E k \in 1..Len(s) : (before \o after)[j] = s[k]
  <2>1. CASE j <= i - 1
    <3>1. j \in 1..i - 1 /\ j \in 1..Len(s)
      BY <2>1
    <3> QED BY <1>1, <1>4, <2>1, <3>1
  <2>2. CASE ~(j <= i - 1)
    <3>1. j - (i - 1) \in 1..Len(s) - i /\ i + (j - (i - 1)) \in 1..Len(s)
      BY <2>2
    <3> QED BY <1>2, <1>4, <2>2, <3>1
  <2> QED BY <2>1, <2>2
<1> QED BY <1>3, <1>4, <1>5

LEMMA PaidStart == BillingInit => PaidInv
<1> SUFFICES ASSUME BillingInit PROVE PaidInv
  OBVIOUS
<1>a. handler = [h \in Handlers |-> NoEvent]
  BY DEF BillingInit
<1>1. MirrorTyped
  <2>1. handler \in [Handlers -> HandlerRecords]
    BY <1>a, NoEventTyped
  <2> QED BY <2>1 DEF BillingInit, MirrorTyped, Absent, Customers, BillingRows, CheckoutRecords
<1>2. \A h \in Handlers : ~Busy(h)
  BY <1>a, NoEventTyped DEF Busy
<1> QED BY <1>1, <1>2 DEF BillingInit, PaidInv, EventsArePaid, SeenIsRow, ProWasPaid, Absent

(* What the handler of an event writes.                                     *)
LEMMA WrittenPaid ==
    ASSUME PaidInv, NEW h \in Handlers, Busy(h), UNCHANGED <<checkout, stripeStatus, raced>>,
           subscriptionRow' = AfterWrite(handler[h].event, handler[h].seen),
           ~InsertFails(handler[h].event, handler[h].seen)
    PROVE  subscriptionRow' \in BillingRows /\ ProWasPaid'
<1> DEFINE e == handler[h].event
           seen == handler[h].seen
           r == e.sub
<1>1. /\ e \in StripeEvent /\ seen \in BillingRows /\ subscriptionRow \in BillingRows
      /\ stripeStatus \in [Checkouts -> Ongoing \cup {"none", "ended"}]
  <2>1. handler[h] \in HandlerRecords
    BY DEF PaidInv, MirrorTyped
  <2> QED BY <2>1 DEF PaidInv, MirrorTyped, HandlerRecords
<1>2. r \in Checkouts /\ e.type \in EventTypes /\ stripeStatus[r] # "none" /\ r # "none"
  BY <1>1, BillingAssumption DEF StripeEvent, PaidInv, EventsArePaid
<1>3. ProWasPaid /\ (~raced => \/ seen = Absent
                               \/ /\ seen.sub = subscriptionRow.sub /\ seen.plan = subscriptionRow.plan
                                  /\ seen.status = subscriptionRow.status)
  BY DEF PaidInv, SeenIsRow
<1>4. /\ subscriptionRow' = AfterWrite(e, seen)
      /\ seen = Absent /\ e.type = "completed" => subscriptionRow = Absent
  BY DEF InsertFails
<1>5. checkout[r].customer \in Customers
  <2>1. checkout[r] \in CheckoutRecords
    BY <1>2 DEF PaidInv, MirrorTyped
  <2> QED BY <2>1 DEF CheckoutRecords
<1> HIDE DEF e, seen, r
(* The row that the handler makes of the one it has read.                   *)
<1>b. e.sub = r
  BY DEF r
<1>6. ASSUME seen # Absent
      PROVE  LET after == Handled(e, seen)
             IN /\ after \in BillingRows
                /\ after.plan = "pro" => \/ after.sub = r
                                         \/ after.sub = seen.sub /\ seen.plan = "pro"
  <2>1. CASE e.type = "completed"
    <3>1. Handled(e, seen) = [seen EXCEPT !.sub = r, !.plan = "pro", !.status = "active"]
      BY <1>6, <1>b, <2>1 DEF Handled, AfterCheckout, Ongoing
    <3> QED BY <1>1, <1>2, <3>1 DEF BillingRows, Customers
  <2>2. CASE e.type \in Ongoing
    <3>1. Handled(e, seen) = [seen EXCEPT !.status = Mapped(e.type)]
      BY <1>6, <2>2 DEF Handled, AfterUpdate, Ongoing
    <3>2. Mapped(e.type) \in {"active", "trialing", "past_due"}
      BY DEF Mapped
    <3> QED BY <1>1, <3>1, <3>2 DEF BillingRows
  <2>3. CASE e.type = "deleted"
    BY <1>1, <1>6, <2>3 DEF Handled, AfterDeletion, BillingRows, Customers, Ongoing
  <2>4. CASE e.type \in {"paid", "failed"}
    BY <1>1, <1>6, <2>4 DEF Handled, AfterPayment, BillingRows, Ongoing
  <2> QED BY <1>2, <2>1, <2>2, <2>3, <2>4 DEF EventTypes
<1>7. CASE seen # Absent
  <2> DEFINE after == Handled(e, seen)
  <2>1. /\ after \in BillingRows
        /\ after.plan = "pro" => \/ after.sub = r
                                 \/ after.sub = seen.sub /\ seen.plan = "pro"
    BY <1>6, <1>7
  <2>2. subscriptionRow' = Merged(seen, after)
    BY <1>4, <1>7 DEF AfterWrite
  <2> HIDE DEF after
  <2>3. /\ subscriptionRow' \in BillingRows
        /\ subscriptionRow'.sub = Written(seen.sub, after.sub, subscriptionRow.sub)
        /\ subscriptionRow'.plan = Written(seen.plan, after.plan, subscriptionRow.plan)
    BY <1>1, <2>1, <2>2 DEF Merged, Written, BillingRows
  <2>4. CASE raced
    BY <1>2, <2>3, <2>4 DEF ProWasPaid
  <2>5. CASE ~raced
    <3>1. subscriptionRow'.sub = after.sub /\ subscriptionRow'.plan = after.plan
      BY <1>3, <1>7, <2>3, <2>5 DEF Written
    <3>2. seen.plan = "pro" => seen.sub # "none" /\ stripeStatus[seen.sub] # "none"
      BY <1>3, <1>7, <2>5 DEF ProWasPaid
    <3> QED BY <1>2, <2>1, <2>3, <3>1, <3>2 DEF ProWasPaid
  <2> QED BY <2>3, <2>4, <2>5
<1>8. CASE seen = Absent /\ e.type = "completed"
  <2>1. subscriptionRow' = ProRow(checkout[r].customer, r)
    BY <1>4, <1>8 DEF AfterWrite, Handled, AfterCheckout, r
  <2> QED BY <1>2, <1>5, <2>1 DEF ProRow, BillingRows, Customers, ProWasPaid
<1>9. CASE seen = Absent /\ e.type # "completed"
  <2>1. subscriptionRow' = subscriptionRow
    BY <1>4, <1>9 DEF AfterWrite
  <2> QED BY <1>1, <1>3, <2>1 DEF ProWasPaid
<1> QED BY <1>7, <1>8, <1>9

(* A request leaves what a handler has read of the row as it was.           *)
LEMMA RequestKeepsPaid ==
    ASSUME PaidInv, UNCHANGED <<stripeStatus, stripeEvents, handler, raced>>,
           checkout' \in [Checkouts -> CheckoutRecords], subscriptionRow' \in BillingRows,
           \/ subscriptionRow = Absent /\ subscriptionRow'.plan # "pro"
           \/ /\ subscriptionRow'.sub = subscriptionRow.sub /\ subscriptionRow'.plan = subscriptionRow.plan
              /\ subscriptionRow'.status = subscriptionRow.status
              /\ subscriptionRow # Absent => subscriptionRow' # Absent
    PROVE  PaidInv'
<1>1. MirrorTyped' /\ EventsArePaid' /\ \A h \in Handlers : Busy(h)' = Busy(h)
  BY DEF PaidInv, MirrorTyped, EventsArePaid, Busy
<1>2. ProWasPaid'
  BY DEF PaidInv, ProWasPaid
<1>3. SeenIsRow'
  BY <1>1 DEF PaidInv, SeenIsRow
<1> QED BY <1>1, <1>2, <1>3 DEF PaidInv

(* Stripe takes a step with a subscription that is, or is just being, paid. *)
LEMMA StripeKeepsPaid ==
    ASSUME PaidInv, NEW r \in Checkouts, NEW status \in Ongoing \cup {"ended"},
           Becomes(r, status), UNCHANGED <<subscriptionRow, handler, raced>>,
           NEW events \in Seq(StripeEvent), Emit(events), \A i \in 1..Len(events) : events[i].sub = r,
           checkout' \in [Checkouts -> CheckoutRecords]
    PROVE  PaidInv'
<1>a. MirrorTyped /\ EventsArePaid /\ SeenIsRow /\ ProWasPaid
  BY DEF PaidInv
<1>1. /\ stripeStatus' \in [Checkouts -> Ongoing \cup {"none", "ended"}]
      /\ stripeStatus'[r] # "none"
      /\ \A q \in Checkouts : stripeStatus[q] # "none" => stripeStatus'[q] # "none"
  BY <1>a DEF Becomes, MirrorTyped, Ongoing
<1>2. stripeEvents \in Seq(StripeEvent) /\ stripeEvents' = stripeEvents \o events
  BY <1>a DEF Emit, MirrorTyped
<1>3. stripeEvents' \in Seq(StripeEvent)
  BY <1>2, Concatenated
<1>4. \A i \in 1..Len(stripeEvents) : stripeStatus'[stripeEvents[i].sub] # "none"
  <2>1. \A i \in 1..Len(stripeEvents) : stripeEvents[i] \in StripeEvent
    BY <1>2
  <2> QED BY <1>a, <1>1, <2>1 DEF EventsArePaid, StripeEvent
<1>5. \A i \in 1..Len(stripeEvents') : stripeStatus'[stripeEvents'[i].sub] # "none"
  BY <1>1, <1>2, <1>4, ConcatenatedPaid
<1>6. \A h \in Handlers : Busy(h)' = Busy(h) /\ handler'[h] = handler[h]
  BY DEF Busy
<1>7. \A h \in Handlers : Busy(h) => stripeStatus'[handler[h].event.sub] # "none"
  <2>1. \A h \in Handlers : handler[h].event.sub \in Checkouts
    BY <1>a DEF MirrorTyped, HandlerRecords, StripeEvent
  <2> QED BY <1>a, <1>1, <2>1 DEF EventsArePaid
<1>8. EventsArePaid'
  BY <1>5, <1>6, <1>7 DEF EventsArePaid
<1>9. ProWasPaid'
  <2>1. subscriptionRow.sub \in Checkouts \cup {"none"}
    BY <1>a DEF MirrorTyped, Customers, BillingRows
  <2> QED BY <1>a, <1>1, <2>1 DEF ProWasPaid
<1>10. SeenIsRow'
  BY <1>a, <1>6 DEF SeenIsRow
<1> QED BY <1>a, <1>1, <1>3, <1>8, <1>9, <1>10 DEF PaidInv, MirrorTyped

LEMMA OneEvent ==
    ASSUME NEW type \in EventTypes, NEW r \in Checkouts
    PROVE  /\ <<Event(type, r)>> \in Seq(StripeEvent)
           /\ \A i \in 1..Len(<<Event(type, r)>>) : <<Event(type, r)>>[i].sub = r
<1>1. Event(type, r) \in StripeEvent /\ Event(type, r).sub = r
  BY EventTyped
<1> QED BY <1>1

LEMMA TwoEvents ==
    ASSUME NEW first \in EventTypes, NEW second \in EventTypes, NEW r \in Checkouts
    PROVE  /\ <<Event(first, r), Event(second, r)>> \in Seq(StripeEvent)
           /\ \A i \in 1..Len(<<Event(first, r), Event(second, r)>>) :
                <<Event(first, r), Event(second, r)>>[i].sub = r
<1>1. /\ Event(first, r) \in StripeEvent /\ Event(first, r).sub = r
      /\ Event(second, r) \in StripeEvent /\ Event(second, r).sub = r
  BY EventTyped
<1> DEFINE e == Event(first, r)
           d == Event(second, r)
<1> HIDE DEF e, d
<1>2. <<e, d>> \in Seq(StripeEvent) /\ \A i \in 1..Len(<<e, d>>) : <<e, d>>[i].sub = r
  BY <1>1 DEF e, d
<1> QED BY <1>2 DEF e, d

(* A handler that has finished, or given up, holds no row.                  *)
LEMMA HandlerFreed ==
    ASSUME MirrorTyped, EventsArePaid, SeenIsRow, NEW h \in Handlers, Busy(h),
           handler' = [handler EXCEPT ![h] = NoEvent],
           UNCHANGED <<stripeStatus, raced>>
    PROVE  /\ handler' \in [Handlers -> HandlerRecords]
           /\ \A g \in Handlers : Busy(g)' => Busy(g) /\ g # h /\ handler'[g] = handler[g] /\ raced
           /\ SeenIsRow'
           /\ \A g \in Handlers : Busy(g)' => stripeStatus'[handler'[g].event.sub] # "none"
<1>1. handler' \in [Handlers -> HandlerRecords]
  BY NoEventTyped DEF MirrorTyped
<1>2. \A g \in Handlers : handler'[g] = IF g = h THEN NoEvent ELSE handler[g]
  BY DEF MirrorTyped
<1>3. \A g \in Handlers : Busy(g)' => Busy(g) /\ g # h /\ handler'[g] = handler[g]
  BY <1>2, NoEventTyped DEF Busy
<1>4. \A g \in Handlers : Busy(g)' => raced
  BY <1>3 DEF SeenIsRow
<1> QED BY <1>1, <1>3, <1>4 DEF SeenIsRow, EventsArePaid

LEMMA PaidStep == PaidInv /\ [BillingNext]_billingVars => PaidInv'
<1> SUFFICES ASSUME PaidInv, [BillingNext]_billingVars PROVE PaidInv'
  OBVIOUS
<1>a. /\ MirrorTyped /\ EventsArePaid /\ SeenIsRow /\ ProWasPaid
      /\ checkout \in [Checkouts -> CheckoutRecords] /\ subscriptionRow \in BillingRows
  BY DEF PaidInv, MirrorTyped
<1>1. CASE ViewSubscription
  <2>1. /\ subscriptionRow = Absent /\ subscriptionRow' = FreeRow("none")
        /\ UNCHANGED <<checkout, stripeStatus, stripeEvents, handler, raced>>
    BY <1>1 DEF ViewSubscription, stripe, billingHistory
  <2>2. subscriptionRow' \in BillingRows /\ subscriptionRow'.plan # "pro"
    BY <2>1 DEF FreeRow, BillingRows, Customers
  <2> QED BY <1>a, <2>1, <2>2, RequestKeepsPaid
<1>2. ASSUME NEW r \in Checkouts, ReadSubscription(r) PROVE PaidInv'
  <2>1. UNCHANGED <<subscriptionRow, stripeStatus, stripeEvents, handler, raced>>
    BY <1>2 DEF ReadSubscription, stripe, billingHistory
  <2>2. checkout' \in [Checkouts -> CheckoutRecords]
    BY <1>2, <1>a DEF ReadSubscription, CheckoutRecords, BillingRows
  <2> QED BY <1>a, <2>1, <2>2, RequestKeepsPaid
<1>3. ASSUME NEW r \in Checkouts, OpenCheckout(r) PROVE PaidInv'
  <2>1. UNCHANGED <<stripeStatus, stripeEvents, handler, raced>>
    BY <1>3 DEF OpenCheckout, stripe
  <2>2. checkout' \in [Checkouts -> CheckoutRecords]
    <3>1. r \in Customers
      BY DEF Customers
    <3>2. \/ \E stage \in {"open", "failed"} : checkout' = [checkout EXCEPT ![r].stage = stage]
          \/ checkout' = [checkout EXCEPT ![r].stage = "open", ![r].customer = r]
      BY <1>3 DEF OpenCheckout
    <3>3. \A stage \in {"open", "failed"} :
            /\ [checkout[r] EXCEPT !.stage = stage] \in CheckoutRecords
            /\ [checkout[r] EXCEPT !.stage = stage, !.customer = r] \in CheckoutRecords
      BY <1>a, <3>1 DEF CheckoutRecords
    <3>4. CASE \E stage \in {"open", "failed"} : checkout' = [checkout EXCEPT ![r].stage = stage]
      BY <1>a, <3>3, <3>4
    <3>5. CASE checkout' = [checkout EXCEPT ![r].stage = "open", ![r].customer = r]
      BY <1>a, <3>3, <3>5
    <3> QED BY <3>2, <3>4, <3>5
  <2>3. \/ subscriptionRow' = subscriptionRow
        \/ subscriptionRow = Absent /\ subscriptionRow' = FreeRow(r)
        \/ subscriptionRow' = [subscriptionRow EXCEPT !.customer = r]
    BY <1>3 DEF OpenCheckout
  <2>4. r \in Customers /\ r # "none"
    BY BillingAssumption DEF Customers
  <2>5. CASE subscriptionRow' = subscriptionRow
    BY <1>a, <2>1, <2>2, <2>5, RequestKeepsPaid
  <2>6. CASE subscriptionRow = Absent /\ subscriptionRow' = FreeRow(r)
    <3>1. subscriptionRow' \in BillingRows /\ subscriptionRow'.plan # "pro"
      BY <2>4, <2>6 DEF FreeRow, BillingRows, Customers
    <3> QED BY <2>1, <2>2, <2>6, <3>1, RequestKeepsPaid
  <2>7. CASE subscriptionRow' = [subscriptionRow EXCEPT !.customer = r]
    <3>1. /\ subscriptionRow' \in BillingRows /\ subscriptionRow' # Absent
          /\ subscriptionRow'.sub = subscriptionRow.sub /\ subscriptionRow'.plan = subscriptionRow.plan
          /\ subscriptionRow'.status = subscriptionRow.status
      BY <1>a, <2>4, <2>7 DEF BillingRows, Absent
    <3> QED BY <2>1, <2>2, <3>1, RequestKeepsPaid
  <2> QED BY <2>3, <2>5, <2>6, <2>7
<1>4. ASSUME NEW r \in Checkouts, Pay(r) PROVE PaidInv'
  <2>1. checkout' \in [Checkouts -> CheckoutRecords]
    BY <1>4, <1>a DEF Pay, CheckoutRecords
  <2>2. /\ Becomes(r, "active") /\ UNCHANGED <<subscriptionRow, handler, raced>>
        /\ Emit(<<Event("completed", r), Event("paid", r)>>) /\ "active" \in Ongoing \cup {"ended"}
        /\ "completed" \in EventTypes /\ "paid" \in EventTypes
    BY <1>4 DEF Pay, Ongoing, EventTypes
  <2> DEFINE events == <<Event("completed", r), Event("paid", r)>>
  <2>3. events \in Seq(StripeEvent) /\ \A i \in 1..Len(events) : events[i].sub = r
    BY <2>2, TwoEvents
  <2>4. Emit(events)
    BY <2>2
  <2> HIDE DEF events
  <2> QED BY <2>1, <2>2, <2>3, <2>4, StripeKeepsPaid
<1>5. ASSUME NEW r \in Checkouts, NEW status \in Ongoing, StatusChanges(r, status) PROVE PaidInv'
  <2>1. /\ Becomes(r, status) /\ UNCHANGED <<subscriptionRow, handler, raced, checkout>>
        /\ status \in EventTypes /\ "paid" \in EventTypes /\ "failed" \in EventTypes
        /\ \/ Emit(<<Event(status, r)>>)
           \/ Emit(<<Event("paid", r), Event(status, r)>>)
           \/ Emit(<<Event("failed", r), Event(status, r)>>)
    BY <1>5 DEF StatusChanges, billingHistory, EventTypes
  <2>2. CASE Emit(<<Event(status, r)>>)
    BY <1>a, <2>1, <2>2, OneEvent, StripeKeepsPaid
  <2>3. CASE Emit(<<Event("paid", r), Event(status, r)>>)
    <3> DEFINE events == <<Event("paid", r), Event(status, r)>>
    <3>1. events \in Seq(StripeEvent) /\ \A i \in 1..Len(events) : events[i].sub = r
      BY <2>1, TwoEvents
    <3>2. Emit(events)
      BY <2>3
    <3> HIDE DEF events
    <3> QED BY <1>a, <2>1, <3>1, <3>2, StripeKeepsPaid
  <2>4. CASE Emit(<<Event("failed", r), Event(status, r)>>)
    <3> DEFINE events == <<Event("failed", r), Event(status, r)>>
    <3>1. events \in Seq(StripeEvent) /\ \A i \in 1..Len(events) : events[i].sub = r
      BY <2>1, TwoEvents
    <3>2. Emit(events)
      BY <2>4
    <3> HIDE DEF events
    <3> QED BY <1>a, <2>1, <3>1, <3>2, StripeKeepsPaid
  <2> QED BY <2>1, <2>2, <2>3, <2>4
<1>6. ASSUME NEW r \in Checkouts, SubscriptionEnds(r) PROVE PaidInv'
  <2>1. /\ Becomes(r, "ended") /\ UNCHANGED <<subscriptionRow, handler, raced, checkout>>
        /\ Emit(<<Event("deleted", r)>>) /\ "deleted" \in EventTypes
    BY <1>6 DEF SubscriptionEnds, billingHistory, EventTypes
  <2> QED BY <1>a, <2>1, OneEvent, StripeKeepsPaid
<1>7. ASSUME NEW h \in Handlers, NEW i \in 1..MaxStripeEvents, ReadForEvent(h, i) PROVE PaidInv'
  <2>1. /\ i \in 1..Len(stripeEvents) /\ stripeEvents' = RemoveAt(stripeEvents, i)
        /\ handler' = [handler EXCEPT ![h] = [busy |-> TRUE, event |-> stripeEvents[i],
                                              seen |-> RowFor(stripeEvents[i])]]
        /\ raced' = (raced \/ \E g \in Handlers : Busy(g))
        /\ UNCHANGED <<subscriptionRow, checkout, stripeStatus>>
    BY <1>7 DEF ReadForEvent
  <2>2. stripeEvents \in Seq(StripeEvent)
    BY <1>a DEF MirrorTyped
  <2>3. stripeEvents[i] \in StripeEvent /\ RowFor(stripeEvents[i]) \in {subscriptionRow, Absent}
    BY <2>1, <2>2 DEF RowFor
  <2>4. handler' \in [Handlers -> HandlerRecords]
    <3>1. RowFor(stripeEvents[i]) \in BillingRows
      BY <1>a, <2>3 DEF Absent, BillingRows, Customers
    <3>2. [busy |-> TRUE, event |-> stripeEvents[i], seen |-> RowFor(stripeEvents[i])] \in HandlerRecords
      BY <2>3, <3>1 DEF HandlerRecords
    <3> QED BY <1>a, <2>1, <3>2 DEF MirrorTyped
  <2>5. \A g \in Handlers : handler'[g] = IF g = h THEN [busy |-> TRUE, event |-> stripeEvents[i],
                                                          seen |-> RowFor(stripeEvents[i])]
                                          ELSE handler[g]
    BY <1>a, <2>1 DEF MirrorTyped
  <2>6. stripeEvents' \in Seq(StripeEvent) /\ EventsArePaid'
    <3>1. \A j \in 1..Len(stripeEvents') : \E k \in 1..Len(stripeEvents) : stripeEvents'[j] = stripeEvents[k]
      BY <2>1, <2>2, Removed
    <3>2. stripeEvents' \in Seq(StripeEvent)
      BY <2>1, <2>2, Removed
    <3>3. \A j \in 1..Len(stripeEvents') : stripeStatus'[stripeEvents'[j].sub] # "none"
      BY <1>a, <2>1, <3>1 DEF EventsArePaid
    <3>4. \A g \in Handlers : Busy(g)' => stripeStatus'[handler'[g].event.sub] # "none"
      BY <1>a, <2>1, <2>5 DEF EventsArePaid, Busy
    <3> QED BY <3>2, <3>3, <3>4 DEF EventsArePaid
  <2>7. SeenIsRow'
    <3>1. ASSUME ~raced', NEW g \in Handlers, Busy(g)'
          PROVE  /\ g = h
                 /\ handler'[g].seen = subscriptionRow \/ handler'[g].seen = Absent
      <4>1. g = h
        BY <2>1, <2>5, <3>1 DEF Busy
      <4>2. handler'[h].seen = RowFor(stripeEvents[i])
        BY <2>5
      <4> QED BY <2>3, <4>1, <4>2
    <3> QED BY <2>1, <3>1 DEF SeenIsRow
  <2>8. ProWasPaid'
    BY <1>a, <2>1 DEF ProWasPaid
  <2> QED BY <1>a, <2>1, <2>4, <2>6, <2>7, <2>8 DEF PaidInv, MirrorTyped
<1>8. ASSUME NEW h \in Handlers, WriteForEvent(h) \/ AbortHandler(h) PROVE PaidInv'
  <2>1. /\ Busy(h) /\ handler' = [handler EXCEPT ![h] = NoEvent]
        /\ UNCHANGED <<checkout, stripeStatus, raced>>
        /\ stripeEvents' = stripeEvents \/ Returned(handler[h].event)
        /\ \/ subscriptionRow' = subscriptionRow
           \/ /\ subscriptionRow' = AfterWrite(handler[h].event, handler[h].seen)
              /\ ~InsertFails(handler[h].event, handler[h].seen)
    <3>1. CASE WriteForEvent(h)
      BY <3>1 DEF WriteForEvent
    <3>2. CASE AbortHandler(h)
      BY <3>2 DEF AbortHandler, billingHistory
    <3> QED BY <1>8, <3>1, <3>2
  <2>2. /\ handler' \in [Handlers -> HandlerRecords] /\ SeenIsRow'
        /\ \A g \in Handlers : Busy(g)' => stripeStatus'[handler'[g].event.sub] # "none"
    BY <1>a, <2>1, HandlerFreed
  <2>3. subscriptionRow' \in BillingRows /\ ProWasPaid'
    <3>1. CASE subscriptionRow' = subscriptionRow
      BY <1>a, <2>1, <3>1 DEF ProWasPaid
    <3> QED BY <2>1, <3>1, WrittenPaid
  <2>4. /\ stripeEvents' \in Seq(StripeEvent)
        /\ \A i \in 1..Len(stripeEvents') : stripeStatus'[stripeEvents'[i].sub] # "none"
    <3>1. /\ stripeEvents \in Seq(StripeEvent) /\ stripeStatus \in [Checkouts -> Ongoing \cup {"none", "ended"}]
          /\ \A i \in 1..Len(stripeEvents) : stripeStatus[stripeEvents[i].sub] # "none"
          /\ handler[h].event \in StripeEvent /\ stripeStatus[handler[h].event.sub] # "none"
      BY <1>a, <2>1 DEF MirrorTyped, EventsArePaid, HandlerRecords
    <3>2. CASE stripeEvents' = stripeEvents
      BY <2>1, <3>1, <3>2
    <3>3. CASE Returned(handler[h].event)
      <4> DEFINE front == <<handler[h].event>>
      <4>1. front \in Seq(StripeEvent) /\ \A i \in 1..Len(front) : stripeStatus[front[i].sub] # "none"
        BY <3>1
      <4>2. stripeEvents' = front \o stripeEvents
        BY <3>3 DEF Returned
      <4> HIDE DEF front
      <4>3. stripeEvents' \in Seq(StripeEvent)
        BY <3>1, <4>1, <4>2, Concatenated
      <4>4. \A i \in 1..Len(front \o stripeEvents) : stripeStatus[(front \o stripeEvents)[i].sub] # "none"
        BY <3>1, <4>1, ConcatenatedPaid
      <4> QED BY <2>1, <4>2, <4>3, <4>4
    <3> QED BY <2>1, <3>2, <3>3
  <2> QED BY <1>a, <2>1, <2>2, <2>3, <2>4 DEF PaidInv, MirrorTyped, EventsArePaid
<1>9. CASE UNCHANGED billingVars
  <2>1. UNCHANGED <<subscriptionRow, checkout, stripeStatus, stripeEvents, handler, raced>>
    BY <1>9 DEF billingVars, stripe, billingHistory
  <2> QED BY <1>a, <2>1, RequestKeepsPaid
<1> QED BY <1>1, <1>2, <1>3, <1>4, <1>5, <1>6, <1>7, <1>8, <1>9 DEF BillingNext

(* However webhook events are delayed, reordered, repeated and handled in   *)
(* parallel, nobody gets Pro who never paid, and while no two were handled  *)
(* at once the row names a subscription that was paid for                   *)
(* (handle_webhook_event).                                                  *)
THEOREM ProIsPaid == BillingSpec => []ProWasPaid
<1>1. PaidInv => ProWasPaid
  BY DEF PaidInv
<1> QED BY <1>1, PaidStart, PaidStep, PTL DEF BillingSpec


-----------------------------------------------------------------------------
(* The row catches up with Stripe.                                         *)

Undisturbed == ~disordered /\ ~raced /\ ~overlapped /\ ~replaced

(* What an event makes of a row that carries the customer of its checkout.  *)
Then(row, e) ==
    CASE e.type = "completed" -> ProRow(row.customer, e.sub)
      [] e.type \in Ongoing -> [row EXCEPT !.status = Mapped(e.type)]
      [] e.type = "deleted" /\ row.sub = e.sub ->
           [row EXCEPT !.plan = "free", !.status = "cancelled", !.sub = "none"]
      [] e.type = "paid" /\ row.sub = e.sub -> [row EXCEPT !.status = "active"]
      [] e.type = "failed" /\ row.sub = e.sub -> [row EXCEPT !.status = "past_due"]
      [] OTHER -> row

(* The rows that handling the events one after the other goes through.      *)
IsTrace(f, row, events) ==
    /\ f \in [0..Len(events) -> BillingRows] /\ f[0] = row
    /\ \A i \in 1..Len(events) : f[i] = Then(f[i - 1], events[i])

(* What a row must be when nothing is left to handle.                       *)
Agrees(row, statuses) ==
    /\ \A r \in Checkouts :
         statuses[r] \in Ongoing => row.sub = r /\ row.plan = "pro" /\ row.status = Mapped(statuses[r])
    /\ (\A r \in Checkouts : statuses[r] \notin Ongoing) => row.plan # "pro"

WillAgree(row, events, statuses) ==
    \E f : IsTrace(f, row, events) /\ Agrees(f[Len(events)], statuses)

(* The events still to be written: the one in the hands of a handler comes  *)
(* before those on their way.                                               *)
Awaiting(events) ==
    \/ (\A h \in Handlers : ~Busy(h)) /\ events = stripeEvents
    \/ \E h \in Handlers : Busy(h) /\ events = <<handler[h].event>> \o stripeEvents

(* The inductive invariant: the row, once the events that await it are      *)
(* handled in their order, agrees with Stripe.                              *)
CatchesUp ==
    Undisturbed =>
        \A events \in Seq(StripeEvent) :
            Awaiting(events) => WillAgree(subscriptionRow, events, stripeStatus)

(* Until a checkout replaces the customer of another, all of them use the   *)
(* customer of the row, so that their events find it.                       *)
SameCustomer ==
    ~replaced =>
        \A r \in Checkouts :
            /\ checkout[r].stage \in {"open", "paid"} => checkout[r].customer # "none"
            /\ checkout[r].stage \in {"read", "open", "paid"} /\ checkout[r].customer # "none"
                 => checkout[r].customer = subscriptionRow.customer

(* A handler that is alone would read the same row again.                   *)
SeenIsCurrent ==
    ~raced /\ ~replaced =>
        \A h \in Handlers : Busy(h) => handler[h].seen = RowFor(handler[h].event)

PaidOnce == \A r \in Checkouts : stripeStatus[r] # "none" => checkout[r].stage = "paid"

OneRunning == ~overlapped => \A r, q \in Checkouts : Running(r) /\ Running(q) => r = q

MirrorInv == PaidInv /\ SameCustomer /\ SeenIsCurrent /\ PaidOnce /\ OneRunning /\ CatchesUp

LEMMA MappedTyped == \A status : Mapped(status) \in {"active", "trialing", "past_due"}
BY DEF Mapped

LEMMA ThenTyped ==
    ASSUME NEW row \in BillingRows, NEW e \in StripeEvent
    PROVE  Then(row, e) \in BillingRows /\ Then(row, e).customer = row.customer
<1>1. e.type \in EventTypes /\ e.sub \in Customers
  BY DEF StripeEvent, Customers
<1> QED BY <1>1, MappedTyped DEF Then, BillingRows, ProRow, EventTypes, Customers

LEMMA TraceGrows ==
    ASSUME NEW row \in BillingRows, NEW events \in Seq(StripeEvent), NEW e \in StripeEvent,
           NEW f, IsTrace(f, row, events)
    PROVE  \E g : /\ IsTrace(g, row, Append(events, e))
                  /\ g[Len(Append(events, e))] = Then(f[Len(events)], e)
<1> DEFINE n == Len(events)
           g == [i \in 0..n + 1 |-> IF i <= n THEN f[i] ELSE Then(f[n], e)]
           more == Append(events, e)
<1>1. n \in Nat /\ f \in [0..n -> BillingRows] /\ f[0] = row
      /\ \A i \in 1..n : f[i] = Then(f[i - 1], events[i])
  BY DEF IsTrace
<1>2. Len(more) = n + 1 /\ more[n + 1] = e /\ \A i \in 1..n : more[i] = events[i]
  OBVIOUS
<1>3. Then(f[n], e) \in BillingRows
  <2>1. f[n] \in BillingRows
    BY <1>1
  <2> QED BY <2>1, ThenTyped
<1> HIDE DEF n, more
<1>4. g \in [0..n + 1 -> BillingRows] /\ g[0] = row /\ g[n + 1] = Then(f[n], e)
  BY <1>1, <1>3
<1>5. ASSUME NEW i \in 1..n + 1 PROVE g[i] = Then(g[i - 1], more[i])
  <2>1. CASE i <= n
    <3>1. i \in 1..n /\ i - 1 \in 0..n + 1 /\ i - 1 <= n /\ i \in 0..n + 1
      BY <1>1, <2>1
    <3>2. g[i] = f[i] /\ g[i - 1] = f[i - 1]
      BY <2>1, <3>1
    <3> QED BY <1>1, <1>2, <3>1, <3>2
  <2>2. CASE i = n + 1
    <3>1. g[i - 1] = f[n]
      BY <1>1, <2>2
    <3> QED BY <1>2, <1>4, <2>2, <3>1
  <2> QED BY <1>1, <2>1, <2>2
<1> HIDE DEF g
<1>6. IsTrace(g, row, more)
  BY <1>2, <1>4, <1>5 DEF IsTrace
<1> QED BY <1>2, <1>4, <1>6 DEF more, n

LEMMA TraceAdvances ==
    ASSUME NEW row \in BillingRows, NEW events \in Seq(StripeEvent), events # <<>>,
           NEW f, IsTrace(f, row, events)
    PROVE  \E g : /\ IsTrace(g, Then(row, Head(events)), Tail(events))
                  /\ g[Len(Tail(events))] = f[Len(events)]
<1> DEFINE n == Len(events)
           rest == Tail(events)
           g == [i \in 0..n - 1 |-> f[i + 1]]
<1>1. n \in Nat /\ n # 0 /\ f \in [0..n -> BillingRows] /\ f[0] = row
      /\ \A i \in 1..n : f[i] = Then(f[i - 1], events[i])
  BY DEF IsTrace
<1>2. Len(rest) = n - 1 /\ (\A i \in 1..n - 1 : rest[i] = events[i + 1]) /\ Head(events) = events[1]
  OBVIOUS
<1> HIDE DEF n, rest
<1>3. /\ g \in [0..n - 1 -> BillingRows] /\ g[n - 1] = f[n] /\ g[0] = f[1]
      /\ f[1] = Then(row, events[1])
  BY <1>1
<1>4. ASSUME NEW i \in 1..n - 1 PROVE g[i] = Then(g[i - 1], rest[i])
  <2>1. /\ i + 1 \in 1..n /\ i \in 0..n - 1 /\ i - 1 \in 0..n - 1
        /\ (i + 1) - 1 = i /\ (i - 1) + 1 = i
    BY <1>1
  <2>2. g[i] = f[i + 1] /\ g[i - 1] = f[i]
    BY <2>1
  <2> QED BY <1>1, <1>2, <2>1, <2>2
<1> HIDE DEF g
<1>5. IsTrace(g, Then(row, Head(events)), rest)
  BY <1>2, <1>3, <1>4 DEF IsTrace
<1> QED BY <1>2, <1>3, <1>5 DEF rest, n

(* Stripe emits one event, or two, about a subscription.                    *)
LEMMA AgreementGrows ==
    ASSUME NEW row \in BillingRows, NEW events \in Seq(StripeEvent),
           NEW statuses, NEW now, WillAgree(row, events, statuses),
           NEW e \in StripeEvent,
           \A any \in BillingRows : Agrees(any, statuses) => Agrees(Then(any, e), now)
    PROVE  WillAgree(row, events \o <<e>>, now)
<1>1. PICK f : IsTrace(f, row, events) /\ Agrees(f[Len(events)], statuses)
  BY DEF WillAgree
<1>2. f[Len(events)] \in BillingRows
  <2>1. Len(events) \in 0..Len(events)
    OBVIOUS
  <2> QED BY <1>1, <2>1 DEF IsTrace
<1>3. PICK g : IsTrace(g, row, Append(events, e)) /\ g[Len(Append(events, e))] = Then(f[Len(events)], e)
  BY <1>1, TraceGrows
<1>4. WillAgree(row, Append(events, e), now)
  BY <1>1, <1>2, <1>3 DEF WillAgree
<1>5. events \o <<e>> = Append(events, e)
  OBVIOUS
<1> QED BY <1>4, <1>5

LEMMA AgreementGrowsTwice ==
    ASSUME NEW row \in BillingRows, NEW events \in Seq(StripeEvent),
           NEW statuses, NEW now, WillAgree(row, events, statuses),
           NEW e \in StripeEvent, NEW d \in StripeEvent,
           \A any \in BillingRows : Agrees(any, statuses) => Agrees(Then(Then(any, e), d), now)
    PROVE  WillAgree(row, events \o <<e, d>>, now)
<1>1. PICK f : IsTrace(f, row, events) /\ Agrees(f[Len(events)], statuses)
  BY DEF WillAgree
<1>2. f[Len(events)] \in BillingRows
  <2>1. Len(events) \in 0..Len(events)
    OBVIOUS
  <2> QED BY <1>1, <2>1 DEF IsTrace
<1>3. PICK g : IsTrace(g, row, Append(events, e)) /\ g[Len(Append(events, e))] = Then(f[Len(events)], e)
  BY <1>1, TraceGrows
<1>4. Append(events, e) \in Seq(StripeEvent)
  OBVIOUS
<1>5. PICK k : /\ IsTrace(k, row, Append(Append(events, e), d))
               /\ k[Len(Append(Append(events, e), d))] = Then(g[Len(Append(events, e))], d)
  BY <1>3, <1>4, TraceGrows
<1>6. WillAgree(row, Append(Append(events, e), d), now)
  BY <1>1, <1>2, <1>3, <1>5 DEF WillAgree
<1>7. events \o <<e, d>> = Append(Append(events, e), d)
  OBVIOUS
<1> QED BY <1>6, <1>7

(* What awaits the row grows at its end as the events on their way do.      *)
LEMMA AwaitingGrows ==
    ASSUME MirrorTyped, NEW more \in Seq(StripeEvent), stripeEvents' = stripeEvents \o more,
           handler' = handler, NEW later \in Seq(StripeEvent), Awaiting(later)'
    PROVE  \E events \in Seq(StripeEvent) : Awaiting(events) /\ later = events \o more
<1>1. stripeEvents \in Seq(StripeEvent) /\ \A h \in Handlers : handler[h].event \in StripeEvent
  BY DEF MirrorTyped, HandlerRecords
<1>2. \A h \in Handlers : Busy(h)' = Busy(h)
  BY DEF Busy
<1>3. CASE (\A h \in Handlers : ~Busy(h)') /\ later = stripeEvents'
  BY <1>1, <1>2, <1>3 DEF Awaiting
<1>4. ASSUME NEW h \in Handlers, Busy(h)', later = <<handler'[h].event>> \o stripeEvents'
      PROVE  \E events \in Seq(StripeEvent) : Awaiting(events) /\ later = events \o more
  <2> DEFINE front == <<handler[h].event>>
  <2>1. front \in Seq(StripeEvent)
    BY <1>1
  <2>2. later = front \o (stripeEvents \o more) /\ Awaiting(front \o stripeEvents)
    BY <1>2, <1>4 DEF Awaiting
  <2> HIDE DEF front
  <2>3. front \o (stripeEvents \o more) = (front \o stripeEvents) \o more
    BY <1>1, <2>1
  <2>4. front \o stripeEvents \in Seq(StripeEvent)
    BY <1>1, <2>1
  <2> QED BY <2>2, <2>3, <2>4
<1> QED BY <1>3, <1>4 DEF Awaiting

LEMMA StripeSays ==
    ASSUME MirrorInv, UNCHANGED <<subscriptionRow, handler>>, Undisturbed,
           NEW e \in StripeEvent, NEW d \in StripeEvent,
           \/ /\ stripeEvents' = stripeEvents \o <<e, d>>
              /\ \A any \in BillingRows :
                   Agrees(any, stripeStatus) => Agrees(Then(Then(any, e), d), stripeStatus')
           \/ /\ stripeEvents' = stripeEvents \o <<e>>
              /\ \A any \in BillingRows : Agrees(any, stripeStatus) => Agrees(Then(any, e), stripeStatus')
    PROVE  CatchesUp'
<1>1. subscriptionRow \in BillingRows /\ MirrorTyped /\ CatchesUp
  BY DEF MirrorInv, PaidInv, MirrorTyped
<1>2. ASSUME NEW later \in Seq(StripeEvent), Awaiting(later)'
      PROVE  WillAgree(subscriptionRow, later, stripeStatus')
  <2>1. CASE /\ stripeEvents' = stripeEvents \o <<e, d>>
             /\ \A any \in BillingRows :
                  Agrees(any, stripeStatus) => Agrees(Then(Then(any, e), d), stripeStatus')
    <3>1. <<e, d>> \in Seq(StripeEvent)
      OBVIOUS
    <3>2. PICK events \in Seq(StripeEvent) : Awaiting(events) /\ later = events \o <<e, d>>
      BY <1>1, <1>2, <2>1, <3>1, AwaitingGrows
    <3>3. WillAgree(subscriptionRow, events, stripeStatus)
      BY <1>1, <3>2 DEF CatchesUp
    <3> QED BY <1>1, <2>1, <3>2, <3>3, AgreementGrowsTwice
  <2>2. CASE /\ stripeEvents' = stripeEvents \o <<e>>
             /\ \A any \in BillingRows : Agrees(any, stripeStatus) => Agrees(Then(any, e), stripeStatus')
    <3>1. <<e>> \in Seq(StripeEvent)
      OBVIOUS
    <3>2. PICK events \in Seq(StripeEvent) : Awaiting(events) /\ later = events \o <<e>>
      BY <1>1, <1>2, <2>2, <3>1, AwaitingGrows
    <3>3. WillAgree(subscriptionRow, events, stripeStatus)
      BY <1>1, <3>2 DEF CatchesUp
    <3> QED BY <1>1, <2>2, <3>2, <3>3, AgreementGrows
  <2> QED BY <2>1, <2>2
<1>3. ASSUME NEW later \in Seq(StripeEvent), Awaiting(later)'
      PROVE  WillAgree(subscriptionRow', later, stripeStatus')
  BY <1>2, <1>3
<1> QED BY <1>3 DEF CatchesUp

LEMMA MirrorStart == BillingInit => MirrorInv
<1> SUFFICES ASSUME BillingInit PROVE MirrorInv
  OBVIOUS
<1>1. PaidInv /\ SameCustomer /\ PaidOnce /\ OneRunning
  BY PaidStart DEF BillingInit, SameCustomer, PaidOnce, OneRunning, Running, Ongoing
<1>2. handler = [h \in Handlers |-> NoEvent]
  BY DEF BillingInit
<1>3. \A h \in Handlers : ~Busy(h)
  BY <1>2, NoEventTyped DEF Busy
<1>4. CatchesUp
  <2> DEFINE f == [i \in 0..0 |-> subscriptionRow]
  <2>1. /\ stripeEvents = <<>> /\ Len(stripeEvents) = 0 /\ subscriptionRow \in BillingRows
        /\ subscriptionRow.plan = "none" /\ \A r \in Checkouts : stripeStatus[r] \notin Ongoing
    BY <1>1 DEF BillingInit, PaidInv, MirrorTyped, Absent, Ongoing
  <2>2. IsTrace(f, subscriptionRow, stripeEvents)
    BY <2>1 DEF IsTrace
  <2>3. Agrees(f[Len(stripeEvents)], stripeStatus)
    BY <2>1 DEF Agrees
  <2> HIDE DEF f
  <2>4. WillAgree(subscriptionRow, stripeEvents, stripeStatus)
    BY <2>2, <2>3 DEF WillAgree
  <2> QED BY <1>3, <2>4 DEF CatchesUp, Awaiting
<1> QED BY <1>1, <1>3, <1>4 DEF MirrorInv, SeenIsCurrent

(* As long as all checkouts share the customer, the events that are paid    *)
(* for find the row, and a handler that is alone makes Then of it.          *)
LEMMA CustomerFound ==
    ASSUME MirrorInv, ~replaced, NEW r \in Checkouts, stripeStatus[r] # "none"
    PROVE  /\ checkout[r].customer = subscriptionRow.customer /\ subscriptionRow # Absent
           /\ FoundByCustomer(r)
<1>1. checkout[r].stage = "paid"
  BY DEF MirrorInv, PaidOnce
<1>2. checkout[r].customer = subscriptionRow.customer /\ subscriptionRow.customer # "none"
  BY <1>1 DEF MirrorInv, SameCustomer
<1> QED BY <1>2 DEF FoundByCustomer, Absent

(* A handler that has read the row as it is writes what it has made of it.  *)
LEMMA MergedAlone ==
    ASSUME subscriptionRow \in BillingRows, NEW row \in BillingRows,
           row.customer = subscriptionRow.customer
    PROVE  Merged(subscriptionRow, row) = row
<1>1. \A old, new : Written(old, new, old) = new
  BY DEF Written
<1>2. Merged(subscriptionRow, row)
        = [subscriptionRow EXCEPT !.sub = row.sub, !.plan = row.plan, !.status = row.status]
  BY <1>1 DEF Merged
<1>3. subscriptionRow
        = [customer |-> row.customer, sub |-> subscriptionRow.sub, plan |-> subscriptionRow.plan,
           status |-> subscriptionRow.status]
  BY DEF BillingRows
<1>4. row = [customer |-> row.customer, sub |-> row.sub, plan |-> row.plan, status |-> row.status]
  BY DEF BillingRows
<1> QED BY <1>2, <1>3, <1>4 DEF BillingRows

LEMMA WrittenIsThen ==
    ASSUME MirrorInv, ~replaced, ~raced, NEW h \in Handlers, Busy(h)
    PROVE  AfterWrite(handler[h].event, handler[h].seen) = Then(subscriptionRow, handler[h].event)
<1> DEFINE e == handler[h].event
           seen == handler[h].seen
<1>1. e \in StripeEvent /\ subscriptionRow \in BillingRows /\ seen = RowFor(e)
      /\ stripeStatus[e.sub] # "none"
  BY DEF MirrorInv, PaidInv, MirrorTyped, EventsArePaid, HandlerRecords, SeenIsCurrent
<1> SUFFICES AfterWrite(e, seen) = Then(subscriptionRow, e)
  OBVIOUS
<1> HIDE DEF e, seen
<1>2. e.sub \in Checkouts /\ e.type \in EventTypes
  BY <1>1 DEF StripeEvent
<1>3. subscriptionRow # Absent /\ FoundByCustomer(e.sub)
  BY <1>1, <1>2, CustomerFound
<1>4. Then(subscriptionRow, e) \in BillingRows /\ Then(subscriptionRow, e).customer = subscriptionRow.customer
  BY <1>1, ThenTyped
<1>5. ASSUME seen = subscriptionRow, Handled(e, seen) = Then(subscriptionRow, e)
      PROVE  AfterWrite(e, seen) = Then(subscriptionRow, e)
  <2> DEFINE row == Then(subscriptionRow, e)
  <2> HIDE DEF row
  <2>1. row \in BillingRows /\ row.customer = subscriptionRow.customer
    BY <1>4 DEF row
  <2>2. Merged(subscriptionRow, row) = row
    BY <1>1, <2>1, MergedAlone
  <2> QED BY <1>3, <1>5, <2>2 DEF AfterWrite, row
<1>6. CASE e.type = "completed"
  <2>1. seen = subscriptionRow
    BY <1>1, <1>3, <1>6 DEF RowFor
  <2>2. Handled(e, seen) = [subscriptionRow EXCEPT !.sub = e.sub, !.plan = "pro", !.status = "active"]
    BY <1>3, <1>6, <2>1 DEF Handled, AfterCheckout, Ongoing
  <2>3. Then(subscriptionRow, e) = ProRow(subscriptionRow.customer, e.sub)
    BY <1>6 DEF Then, Ongoing
  <2>4. Handled(e, seen) = Then(subscriptionRow, e)
    BY <1>1, <2>2, <2>3 DEF BillingRows, ProRow
  <2> QED BY <1>5, <2>1, <2>4
<1>7. CASE e.type \in Ongoing
  <2>1. seen = subscriptionRow
    BY <1>1, <1>3, <1>7 DEF RowFor
  <2>2. Handled(e, seen) = [subscriptionRow EXCEPT !.status = Mapped(e.type)]
    BY <1>3, <1>7, <2>1 DEF Handled, AfterUpdate, Ongoing
  <2>3. Then(subscriptionRow, e) = [subscriptionRow EXCEPT !.status = Mapped(e.type)]
    BY <1>7 DEF Then, Ongoing
  <2> QED BY <1>5, <2>1, <2>2, <2>3
<1>8. CASE e.type \in {"deleted", "paid", "failed"}
  <2>1. CASE subscriptionRow.sub = e.sub
    <3>1. seen = subscriptionRow
      BY <1>1, <1>8, <2>1 DEF RowFor, Found
    <3>2. Handled(e, seen) = Then(subscriptionRow, e)
      BY <1>3, <1>8, <2>1, <3>1 DEF Handled, Then, AfterDeletion, AfterPayment, Ongoing
    <3> QED BY <1>5, <3>1, <3>2
  <2>2. CASE subscriptionRow.sub # e.sub
    <3>1. seen = Absent
      BY <1>1, <1>8, <2>2 DEF RowFor, Found, Ongoing
    <3>2. AfterWrite(e, seen) = subscriptionRow
      BY <1>8, <3>1 DEF AfterWrite
    <3>3. Then(subscriptionRow, e) = subscriptionRow
      BY <1>8, <2>2 DEF Then, Ongoing
    <3> QED BY <3>2, <3>3
  <2> QED BY <2>1, <2>2
<1>9. e.type = "completed" \/ e.type \in Ongoing \/ e.type \in {"deleted", "paid", "failed"}
  BY <1>2 DEF EventTypes
<1> QED BY <1>6, <1>7, <1>8, <1>9


(* The event that a handler has brings the row one step on.                 *)
LEMMA EventWritten ==
    ASSUME MirrorInv, Undisturbed, NEW h \in Handlers, Busy(h),
           subscriptionRow' = AfterWrite(handler[h].event, handler[h].seen)
    PROVE  WillAgree(subscriptionRow', stripeEvents, stripeStatus)
<1> DEFINE e == handler[h].event
<1>1. /\ e \in StripeEvent /\ stripeEvents \in Seq(StripeEvent) /\ subscriptionRow \in BillingRows
      /\ CatchesUp
  BY DEF MirrorInv, PaidInv, MirrorTyped, HandlerRecords
<1>2. subscriptionRow' = Then(subscriptionRow, e)
  BY WrittenIsThen DEF Undisturbed
<1>3. Awaiting(<<e>> \o stripeEvents)
  BY DEF Awaiting
<1> HIDE DEF e
<1> DEFINE events == <<e>> \o stripeEvents
<1>4. events \in Seq(StripeEvent) /\ Len(events) = 1 + Len(stripeEvents) /\ events[1] = e
  <2>1. <<e>> \in Seq(StripeEvent) /\ Len(<<e>>) = 1 /\ <<e>>[1] = e
    BY <1>1
  <2>2. Len(stripeEvents) \in Nat
    BY <1>1
  <2> QED BY <1>1, <2>1, <2>2
<1>5. events # <<>> /\ Head(events) = e /\ Tail(events) = stripeEvents
  BY <1>1, <1>4
<1>6. PICK f : IsTrace(f, subscriptionRow, events) /\ Agrees(f[Len(events)], stripeStatus)
  BY <1>1, <1>3, <1>4 DEF CatchesUp, WillAgree
<1> HIDE DEF events
<1>7. PICK g : /\ IsTrace(g, Then(subscriptionRow, Head(events)), Tail(events))
               /\ g[Len(Tail(events))] = f[Len(events)]
  BY <1>1, <1>4, <1>5, <1>6, TraceAdvances
<1>8. IsTrace(g, subscriptionRow', stripeEvents) /\ Agrees(g[Len(stripeEvents)], stripeStatus)
  BY <1>2, <1>5, <1>6, <1>7
<1> QED BY <1>8 DEF WillAgree

(* A request may change the row while nothing is paid for.                  *)
LEMMA NothingPaid ==
    ASSUME MirrorInv, \A r \in Checkouts : stripeStatus[r] = "none",
           UNCHANGED <<stripeStatus, stripeEvents, handler>>,
           subscriptionRow.plan # "pro" => subscriptionRow'.plan # "pro", subscriptionRow' \in BillingRows,
           Undisturbed' => Undisturbed
    PROVE  CatchesUp'
<1> SUFFICES ASSUME Undisturbed
             PROVE  \A events \in Seq(StripeEvent) :
                      Awaiting(events)' => WillAgree(subscriptionRow', events, stripeStatus')
  BY DEF CatchesUp
<1>a. MirrorTyped /\ EventsArePaid /\ CatchesUp
  BY DEF MirrorInv, PaidInv
<1>1. stripeEvents = <<>>
  <2>1. stripeEvents \in Seq(StripeEvent)
    BY <1>a DEF MirrorTyped
  <2>2. ASSUME stripeEvents # <<>> PROVE FALSE
    <3>1. 1 \in 1..Len(stripeEvents) /\ stripeEvents[1] \in StripeEvent
      BY <2>1, <2>2
    <3> QED BY <1>a, <3>1 DEF EventsArePaid, StripeEvent
  <2> QED BY <2>2
<1>2. \A h \in Handlers : ~Busy(h) /\ ~Busy(h)'
  <2>1. \A h \in Handlers : handler[h].event.sub \in Checkouts
    BY <1>a DEF MirrorTyped, HandlerRecords, StripeEvent
  <2>2. \A h \in Handlers : ~Busy(h)
    BY <1>a, <2>1 DEF EventsArePaid
  <2> QED BY <2>2 DEF Busy
<1>3. subscriptionRow.plan # "pro"
  <2>1. <<>> \in Seq(StripeEvent)
    OBVIOUS
  <2>2. WillAgree(subscriptionRow, stripeEvents, stripeStatus)
    BY <1>a, <1>1, <1>2, <2>1 DEF CatchesUp, Awaiting
  <2>3. PICK f : IsTrace(f, subscriptionRow, stripeEvents) /\ Agrees(f[Len(stripeEvents)], stripeStatus)
    BY <2>2 DEF WillAgree
  <2>4. f[Len(stripeEvents)] = subscriptionRow
    BY <1>1, <2>3 DEF IsTrace
  <2> QED BY <2>3, <2>4 DEF Agrees, Ongoing
<1> DEFINE g == [i \in 0..0 |-> subscriptionRow']
<1>4. Len(<<>>) = 0
  OBVIOUS
<1>5. IsTrace(g, subscriptionRow', <<>>)
  BY <1>4 DEF IsTrace
<1>6. Agrees(g[Len(<<>>)], stripeStatus')
  BY <1>3, <1>4 DEF Agrees, Ongoing
<1> HIDE DEF g
<1>7. WillAgree(subscriptionRow', <<>>, stripeStatus')
  BY <1>5, <1>6 DEF WillAgree
<1>8. ASSUME NEW events, Awaiting(events)' PROVE events = <<>>
  BY <1>1, <1>2, <1>8 DEF Awaiting
<1> QED BY <1>7, <1>8

(* With no customer in the row, nobody has paid.                            *)
LEMMA NoCustomer ==
    ASSUME MirrorInv, ~replaced, subscriptionRow.customer = "none"
    PROVE  /\ \A r \in Checkouts : stripeStatus[r] = "none"
           /\ \A r \in Checkouts : checkout[r].stage \notin {"open", "paid"}
           /\ \A r \in Checkouts : checkout[r].stage = "read" => checkout[r].customer = "none"
           /\ \A h \in Handlers : ~Busy(h)
<1>1. /\ \A r \in Checkouts : stripeStatus[r] = "none"
      /\ \A r \in Checkouts : checkout[r].stage \notin {"open", "paid"}
      /\ \A r \in Checkouts : checkout[r].stage = "read" => checkout[r].customer = "none"
  BY DEF MirrorInv, PaidOnce, SameCustomer, PaidInv, MirrorTyped
<1>2. \A h \in Handlers : handler[h].event.sub \in Checkouts
  BY DEF MirrorInv, PaidInv, MirrorTyped, HandlerRecords, StripeEvent
<1>3. \A h \in Handlers : ~Busy(h)
  BY <1>1, <1>2 DEF MirrorInv, PaidInv, EventsArePaid
<1> QED BY <1>1, <1>3

(* Stripe's steps: the status of one subscription changes, and the events   *)
(* about it take the row along.                                             *)
LEMMA PayMirrored ==
    ASSUME MirrorInv, NEW r \in Checkouts, Pay(r)
    PROVE  CatchesUp' /\ OneRunning'
<1>a. /\ stripeStatus \in [Checkouts -> Ongoing \cup {"none", "ended"}] /\ OneRunning
      /\ UNCHANGED <<subscriptionRow, disordered, raced, replaced, handler>>
  BY DEF MirrorInv, PaidInv, MirrorTyped, Pay
<1>1. /\ stripeStatus' = [stripeStatus EXCEPT ![r] = "active"]
      /\ stripeEvents' = stripeEvents \o <<Event("completed", r), Event("paid", r)>>
      /\ overlapped' = (overlapped \/ \E q \in Checkouts : Running(q))
  BY DEF Pay, Becomes, Emit
<1>2. /\ stripeStatus'[r] = "active" /\ "active" \in Ongoing /\ r # "none"
      /\ \A q \in Checkouts \ {r} : stripeStatus'[q] = stripeStatus[q]
  BY <1>a, <1>1, BillingAssumption DEF Ongoing
<1>3. OneRunning'
  BY <1>1, <1>2 DEF OneRunning, Running
<1>4. ASSUME Undisturbed' PROVE CatchesUp'
  <2>1. Undisturbed /\ \A q \in Checkouts : ~Running(q)
    BY <1>a, <1>1, <1>4 DEF Undisturbed
  <2>2. \A q \in Checkouts \ {r} : stripeStatus'[q] \notin Ongoing
    BY <1>2, <2>1 DEF Running
  <2>3. \A row \in BillingRows :
          LET is == Then(Then(row, Event("completed", r)), Event("paid", r))
          IN  is.sub = r /\ is.plan = "pro" /\ is.status = "active"
    BY DEF Then, Event, ProRow, BillingRows, Ongoing
  <2>4. \A row \in BillingRows :
          Agrees(Then(Then(row, Event("completed", r)), Event("paid", r)), stripeStatus')
    <3>1. Mapped("active") = "active"
      BY DEF Mapped
    <3> QED BY <1>2, <2>2, <2>3, <3>1 DEF Agrees
  <2>5. Event("completed", r) \in StripeEvent /\ Event("paid", r) \in StripeEvent
    BY EventTyped DEF EventTypes
  <2> QED BY <1>a, <1>1, <2>1, <2>4, <2>5, StripeSays
<1> QED BY <1>3, <1>4 DEF CatchesUp

LEMMA StatusMirrored ==
    ASSUME MirrorInv, NEW r \in Checkouts,
           SubscriptionEnds(r) \/ \E status \in Ongoing : StatusChanges(r, status)
    PROVE  CatchesUp' /\ OneRunning'
<1> DEFINE now == stripeStatus'
<1>a. /\ stripeStatus \in [Checkouts -> Ongoing \cup {"none", "ended"}] /\ OneRunning
      /\ UNCHANGED <<subscriptionRow, disordered, raced, overlapped, replaced, handler>>
  BY DEF MirrorInv, PaidInv, MirrorTyped, StatusChanges, SubscriptionEnds, billingHistory
<1>b. r # "none" /\ "ended" \notin Ongoing
  BY BillingAssumption DEF Ongoing
<1>1. PICK status \in Ongoing \cup {"ended"} :
        /\ now = [stripeStatus EXCEPT ![r] = status] /\ Running(r)
        /\ \/ status \in Ongoing /\ stripeEvents' = stripeEvents \o <<Event(status, r)>>
           \/ /\ status \in Ongoing
              /\ \/ stripeEvents' = stripeEvents \o <<Event("paid", r), Event(status, r)>>
                 \/ stripeEvents' = stripeEvents \o <<Event("failed", r), Event(status, r)>>
           \/ status = "ended" /\ stripeEvents' = stripeEvents \o <<Event("deleted", r)>>
  BY DEF StatusChanges, SubscriptionEnds, Becomes, Emit
<1>2. now[r] = status /\ \A q \in Checkouts \ {r} : now[q] = stripeStatus[q]
  BY <1>a, <1>1
<1>3. OneRunning'
  BY <1>a, <1>1, <1>2 DEF OneRunning, Running
<1>4. ASSUME Undisturbed' PROVE CatchesUp'
  <2>1. Undisturbed /\ \A q \in Checkouts \ {r} : now[q] \notin Ongoing
    BY <1>a, <1>1, <1>2, <1>4 DEF Undisturbed, OneRunning, Running
  <2>2. \A row \in BillingRows : Agrees(row, stripeStatus) => row.sub = r /\ row.plan = "pro"
    BY <1>1 DEF Agrees, Running
  <2>3. /\ Event("paid", r) \in StripeEvent /\ Event("failed", r) \in StripeEvent
        /\ Event("deleted", r) \in StripeEvent
    BY EventTyped DEF EventTypes
  (* Whatever the row is, the new status makes it agree.                    *)
  <2>4. ASSUME status \in Ongoing, NEW row \in BillingRows, row.sub = r, row.plan = "pro"
        PROVE  Agrees(Then(row, Event(status, r)), now)
    <3>1. Event(status, r).type = status
      BY DEF Event
    <3>2. Then(row, Event(status, r)) = [row EXCEPT !.status = Mapped(status)]
      BY <2>4, <3>1 DEF Then, Ongoing
    <3>3. /\ [row EXCEPT !.status = Mapped(status)].sub = r
          /\ [row EXCEPT !.status = Mapped(status)].plan = "pro"
          /\ [row EXCEPT !.status = Mapped(status)].status = Mapped(status)
      BY <2>4 DEF BillingRows
    <3> QED BY <1>2, <2>1, <2>4, <3>2, <3>3 DEF Agrees
  <2>5. CASE status \in Ongoing /\ stripeEvents' = stripeEvents \o <<Event(status, r)>>
    <3>1. Event(status, r) \in StripeEvent
      BY <2>5, EventTyped DEF EventTypes
    <3>2. \A row \in BillingRows : Agrees(row, stripeStatus) => Agrees(Then(row, Event(status, r)), now)
      BY <2>2, <2>4, <2>5
    <3> QED BY <1>a, <2>1, <2>5, <3>1, <3>2, StripeSays
  <2>6. ASSUME NEW type \in {"paid", "failed"}, status \in Ongoing,
               stripeEvents' = stripeEvents \o <<Event(type, r), Event(status, r)>>
        PROVE  CatchesUp'
    <3>1. Event(status, r) \in StripeEvent /\ Event(type, r) \in StripeEvent
      BY <2>3, <2>6, EventTyped DEF EventTypes
    <3>2. ASSUME NEW row \in BillingRows, Agrees(row, stripeStatus)
          PROVE  Agrees(Then(Then(row, Event(type, r)), Event(status, r)), now)
      <4>1. row.sub = r /\ row.plan = "pro"
        BY <2>2, <3>2
      <4>2. /\ Then(row, Event(type, r)) \in BillingRows
            /\ Then(row, Event(type, r)).sub = r /\ Then(row, Event(type, r)).plan = "pro"
        BY <4>1 DEF Then, Event, BillingRows, Ongoing
      <4> QED BY <2>4, <2>6, <4>2
    <3> QED BY <1>a, <2>1, <2>6, <3>1, <3>2, StripeSays
  <2>7. CASE status = "ended" /\ stripeEvents' = stripeEvents \o <<Event("deleted", r)>>
    <3>1. \A row \in BillingRows : row.sub = r => Then(row, Event("deleted", r)).plan = "free"
      BY DEF Then, Event, BillingRows, Ongoing
    <3>2. \A row \in BillingRows : Agrees(row, stripeStatus) => Agrees(Then(row, Event("deleted", r)), now)
      BY <1>b, <1>2, <2>1, <2>2, <2>7, <3>1 DEF Agrees
    <3> QED BY <1>a, <2>1, <2>3, <2>7, <3>2, StripeSays
  <2> QED BY <1>1, <2>5, <2>6, <2>7
<1> QED BY <1>3, <1>4 DEF CatchesUp


(* The row that a handler would read does not change while the row and the  *)
(* customers of the paid checkouts do not.                                  *)
LEMMA SeenKept ==
    ASSUME MirrorInv, UNCHANGED <<subscriptionRow, handler, raced>>, replaced' = replaced,
           \A r \in Checkouts : stripeStatus[r] # "none" => checkout'[r].customer = checkout[r].customer
    PROVE  SeenIsCurrent'
<1>1. \A h \in Handlers : Busy(h)' = Busy(h)
  BY DEF Busy
<1>2. ASSUME NEW h \in Handlers, Busy(h)
      PROVE  RowFor(handler[h].event)' = RowFor(handler[h].event)
  <2>1. handler[h].event.sub \in Checkouts /\ stripeStatus[handler[h].event.sub] # "none"
    BY <1>2 DEF MirrorInv, PaidInv, MirrorTyped, HandlerRecords, StripeEvent, EventsArePaid
  <2> QED BY <2>1 DEF RowFor, Found, FoundByCustomer
<1> QED BY <1>1, <1>2 DEF MirrorInv, SeenIsCurrent

LEMMA RequestsMirrored ==
    ASSUME MirrorInv, PaidInv',
           ViewSubscription \/ \E r \in Checkouts : ReadSubscription(r) \/ OpenCheckout(r)
    PROVE  MirrorInv'
<1>a. /\ SameCustomer /\ SeenIsCurrent /\ PaidOnce /\ OneRunning /\ CatchesUp /\ PaidInv
      /\ subscriptionRow \in BillingRows /\ subscriptionRow' \in BillingRows
      /\ checkout \in [Checkouts -> CheckoutRecords]
  BY DEF MirrorInv, PaidInv, MirrorTyped
<1>b. UNCHANGED <<stripeStatus, stripeEvents, handler, disordered, overlapped, raced>>
  BY DEF ViewSubscription, ReadSubscription, OpenCheckout, stripe, billingHistory
<1>c. OneRunning' /\ \A h \in Handlers : Busy(h)' = Busy(h)
  BY <1>a, <1>b DEF OneRunning, Running, Busy
<1>1. CASE ViewSubscription
  <2>1. /\ subscriptionRow.customer = "none" /\ subscriptionRow' = FreeRow("none")
        /\ UNCHANGED <<checkout, replaced>>
    BY <1>1 DEF ViewSubscription, billingHistory, Absent
  <2>2. SameCustomer'
    BY <2>1, NoCustomer DEF SameCustomer
  <2>3. CatchesUp'
    <3>1. CASE replaced
      BY <2>1, <3>1 DEF CatchesUp, Undisturbed
    <3>2. CASE ~replaced
      BY <1>a, <1>b, <2>1, <3>2, NoCustomer, NothingPaid DEF FreeRow, Undisturbed
    <3> QED BY <3>1, <3>2
  <2>4. SeenIsCurrent'
    BY <1>c, <2>1, NoCustomer DEF SeenIsCurrent
  <2> QED BY <1>a, <1>b, <1>c, <2>1, <2>2, <2>3, <2>4 DEF MirrorInv, PaidOnce
<1>2. ASSUME NEW r \in Checkouts, ReadSubscription(r) PROVE MirrorInv'
  <2>1. /\ checkout[r].stage = "idle" /\ checkout'[r].stage = "read"
        /\ checkout'[r].customer = subscriptionRow.customer
        /\ \A q \in Checkouts \ {r} : checkout'[q] = checkout[q]
        /\ UNCHANGED <<subscriptionRow, replaced>>
    BY <1>2, <1>a DEF ReadSubscription, billingHistory
  <2>2. SameCustomer' /\ PaidOnce'
    BY <1>a, <1>b, <2>1 DEF SameCustomer, PaidOnce
  <2>3. \A q \in Checkouts : stripeStatus[q] # "none" => checkout'[q].customer = checkout[q].customer
    BY <1>a, <2>1 DEF PaidOnce
  <2>4. SeenIsCurrent'
    BY <1>b, <2>1, <2>3, SeenKept
  <2>5. CatchesUp'
    BY <1>a, <1>b, <2>1 DEF CatchesUp, Undisturbed, Awaiting, Busy
  <2> QED BY <1>c, <2>2, <2>4, <2>5 DEF MirrorInv
<1>3. ASSUME NEW r \in Checkouts, OpenCheckout(r) PROVE MirrorInv'
  <2>1. checkout[r].stage = "read" /\ \A q \in Checkouts \ {r} : checkout'[q] = checkout[q]
    BY <1>3, <1>a DEF OpenCheckout
  <2>2. \/ /\ checkout[r].customer # "none" /\ checkout'[r].stage = "open"
           /\ checkout'[r].customer = checkout[r].customer /\ UNCHANGED <<subscriptionRow, replaced>>
        \/ checkout'[r].stage = "failed" /\ UNCHANGED <<subscriptionRow, replaced>>
        \/ /\ checkout'[r].stage = "open" /\ checkout'[r].customer = r
           /\ subscriptionRow' \in {[subscriptionRow EXCEPT !.customer = r], FreeRow(r)}
           /\ replaced' = (replaced \/ subscriptionRow.customer # "none")
    <3>1. /\ checkout[r].customer # "none"
             => /\ checkout' = [checkout EXCEPT ![r].stage = "open"] /\ UNCHANGED <<subscriptionRow, replaced>>
          /\ checkout[r].customer = "none"
             => \/ /\ checkout' = [checkout EXCEPT ![r].stage = "failed"]
                   /\ UNCHANGED <<subscriptionRow, replaced>>
                \/ /\ checkout' = [checkout EXCEPT ![r].stage = "open", ![r].customer = r]
                   /\ subscriptionRow' \in {[subscriptionRow EXCEPT !.customer = r], FreeRow(r)}
                   /\ replaced' = (replaced \/ subscriptionRow.customer # "none")
      BY <1>3 DEF OpenCheckout
    <3>2. checkout[r] \in CheckoutRecords
      BY <1>a
    <3>3. ASSUME NEW stage, checkout' = [checkout EXCEPT ![r].stage = stage]
          PROVE  checkout'[r].stage = stage /\ checkout'[r].customer = checkout[r].customer
      BY <1>a, <3>2, <3>3 DEF CheckoutRecords
    <3>4. ASSUME checkout' = [checkout EXCEPT ![r].stage = "open", ![r].customer = r]
          PROVE  checkout'[r].stage = "open" /\ checkout'[r].customer = r
      BY <1>a, <3>2, <3>4 DEF CheckoutRecords
    <3> QED BY <3>1, <3>3, <3>4
  <2>3. PaidOnce'
    BY <1>a, <1>b, <2>1 DEF PaidOnce
  <2>4. \A q \in Checkouts : stripeStatus[q] # "none" => checkout'[q].customer = checkout[q].customer
    BY <1>a, <2>1 DEF PaidOnce
  <2>5. ASSUME UNCHANGED <<subscriptionRow, replaced>> PROVE CatchesUp' /\ SeenIsCurrent'
    <3>1. SeenIsCurrent'
      BY <1>b, <2>4, <2>5, SeenKept
    <3>2. CatchesUp'
      BY <1>a, <1>b, <2>5 DEF CatchesUp, Undisturbed, Awaiting, Busy
    <3> QED BY <3>1, <3>2
  <2>6. CASE /\ checkout[r].customer # "none" /\ checkout'[r].stage = "open"
             /\ checkout'[r].customer = checkout[r].customer /\ UNCHANGED <<subscriptionRow, replaced>>
    <3>1. SameCustomer'
      BY <1>a, <2>1, <2>6 DEF SameCustomer
    <3> QED BY <1>c, <2>3, <2>5, <2>6, <3>1 DEF MirrorInv
  <2>7. CASE checkout'[r].stage = "failed" /\ UNCHANGED <<subscriptionRow, replaced>>
    <3>1. SameCustomer'
      BY <1>a, <2>1, <2>7 DEF SameCustomer
    <3> QED BY <1>c, <2>3, <2>5, <2>7, <3>1 DEF MirrorInv
  <2>8. CASE /\ checkout'[r].stage = "open" /\ checkout'[r].customer = r
             /\ subscriptionRow' \in {[subscriptionRow EXCEPT !.customer = r], FreeRow(r)}
             /\ replaced' = (replaced \/ subscriptionRow.customer # "none")
    <3>1. subscriptionRow'.customer = r /\ (subscriptionRow.plan # "pro" => subscriptionRow'.plan # "pro")
      BY <1>a, <2>8 DEF FreeRow, BillingRows
    <3>2. CASE replaced'
      BY <1>c, <2>3, <3>2 DEF MirrorInv, SameCustomer, SeenIsCurrent, CatchesUp, Undisturbed
    <3>3. CASE ~replaced'
      <4>1. ~replaced /\ subscriptionRow.customer = "none"
        BY <2>8, <3>3
      <4>2. SameCustomer'
        BY <2>1, <2>8, <3>1, <4>1, NoCustomer, BillingAssumption DEF SameCustomer
      <4>3. CatchesUp'
        BY <1>a, <1>b, <3>1, <4>1, NoCustomer, NothingPaid DEF Undisturbed
      <4>4. SeenIsCurrent'
        BY <1>c, <4>1, NoCustomer DEF SeenIsCurrent
      <4> QED BY <1>c, <2>3, <4>2, <4>3, <4>4 DEF MirrorInv
    <3> QED BY <3>2, <3>3
  <2> QED BY <2>2, <2>6, <2>7, <2>8
<1> QED BY <1>1, <1>2, <1>3

LEMMA StripeStepMirrored ==
    ASSUME MirrorInv, PaidInv', NEW r \in Checkouts,
           Pay(r) \/ SubscriptionEnds(r) \/ \E status \in Ongoing : StatusChanges(r, status)
    PROVE  MirrorInv'
<1>a. /\ SameCustomer /\ PaidOnce
      /\ checkout \in [Checkouts -> CheckoutRecords]
      /\ stripeStatus \in [Checkouts -> Ongoing \cup {"none", "ended"}]
  BY DEF MirrorInv, PaidInv, MirrorTyped
<1>1. UNCHANGED <<subscriptionRow, handler, raced, replaced>>
  BY DEF Pay, StatusChanges, SubscriptionEnds, billingHistory
<1>2. /\ SameCustomer' /\ PaidOnce'
      /\ \A q \in Checkouts : checkout'[q].customer = checkout[q].customer
  <2>1. CASE Pay(r)
    <3>1. /\ checkout[r].stage = "open" /\ checkout'[r].stage = "paid"
          /\ checkout'[r].customer = checkout[r].customer
          /\ \A q \in Checkouts \ {r} : checkout'[q] = checkout[q] /\ stripeStatus'[q] = stripeStatus[q]
      BY <1>a, <2>1 DEF Pay, Becomes
    <3> QED BY <1>a, <1>1, <3>1 DEF SameCustomer, PaidOnce
  <2>2. CASE SubscriptionEnds(r) \/ \E status \in Ongoing : StatusChanges(r, status)
    <3>1. /\ checkout' = checkout /\ stripeStatus[r] # "none"
          /\ \A q \in Checkouts \ {r} : stripeStatus'[q] = stripeStatus[q]
      BY <1>a, <2>2 DEF StatusChanges, SubscriptionEnds, Running, Becomes, Ongoing
    <3> QED BY <1>a, <1>1, <3>1 DEF SameCustomer, PaidOnce
  <2> QED BY <2>1, <2>2
<1>3. SeenIsCurrent'
  BY <1>1, <1>2, SeenKept
<1>4. CatchesUp' /\ OneRunning'
  BY PayMirrored, StatusMirrored
<1> QED BY <1>2, <1>3, <1>4 DEF MirrorInv

LEMMA ReadMirrored ==
    ASSUME MirrorInv, PaidInv', NEW h \in Handlers, NEW i \in 1..MaxStripeEvents, ReadForEvent(h, i)
    PROVE  MirrorInv'
<1>a. /\ SameCustomer /\ PaidOnce /\ OneRunning /\ CatchesUp
      /\ stripeEvents \in Seq(StripeEvent) /\ handler \in [Handlers -> HandlerRecords]
  BY DEF MirrorInv, PaidInv, MirrorTyped
<1>1. /\ ~Busy(h) /\ i \in 1..Len(stripeEvents) /\ stripeEvents' = RemoveAt(stripeEvents, i)
      /\ disordered' = (disordered \/ i > 1)
      /\ raced' = (raced \/ \E g \in Handlers : Busy(g))
      /\ UNCHANGED <<subscriptionRow, checkout, stripeStatus, overlapped, replaced>>
  BY DEF ReadForEvent
<1>2. /\ handler'[h] = [busy |-> TRUE, event |-> stripeEvents[i], seen |-> RowFor(stripeEvents[i])]
      /\ \A g \in Handlers \ {h} : handler'[g] = handler[g]
  BY <1>a DEF ReadForEvent
<1>3. handler'[h].event = stripeEvents[i] /\ handler'[h].seen = RowFor(stripeEvents[i]) /\ Busy(h)'
  BY <1>2 DEF Busy
<1>4. \A g \in Handlers \ {h} : Busy(g)' = Busy(g)
  BY <1>2 DEF Busy
<1>5. SeenIsCurrent'
  <2>1. RowFor(stripeEvents[i]) = IF \/ stripeEvents[i].type # "completed" /\ Found(stripeEvents[i].sub)
                                     \/ /\ stripeEvents[i].type \in {"completed"} \cup Ongoing
                                        /\ FoundByCustomer(stripeEvents[i].sub)
                                  THEN subscriptionRow ELSE Absent
    BY DEF RowFor
  <2>2. ASSUME NEW e PROVE RowFor(e)' = RowFor(e)
    BY <1>1 DEF RowFor, Found, FoundByCustomer
  <2>3. handler'[h].seen = RowFor(handler'[h].event)
    BY <1>3
  <2>4. RowFor(handler[h].event)' = RowFor(handler'[h].event)
    BY <1>1 DEF RowFor, Found, FoundByCustomer
  <2>5. ~raced' => \A g \in Handlers : Busy(g)' => g = h
    BY <1>1, <1>4
  <2> QED BY <2>3, <2>4, <2>5 DEF SeenIsCurrent
<1>6. CatchesUp'
  <2> SUFFICES ASSUME Undisturbed', NEW events \in Seq(StripeEvent), Awaiting(events)'
               PROVE  WillAgree(subscriptionRow', events, stripeStatus')
    BY DEF CatchesUp
  <2>1. Undisturbed /\ i = 1 /\ \A g \in Handlers : ~Busy(g)
    <3>1. ~disordered /\ ~(i > 1) /\ ~raced /\ \A g \in Handlers : ~Busy(g)
      BY <1>1, Zenon DEF Undisturbed
    <3>2. i = 1
      BY <3>1
    <3> QED BY <1>1, <3>1, <3>2 DEF Undisturbed
  <2>2. events = <<stripeEvents[1]>> \o RemoveAt(stripeEvents, 1)
    BY <1>1, <1>3, <1>4, <2>1 DEF Awaiting
  <2>3. <<stripeEvents[1]>> \o RemoveAt(stripeEvents, 1) = stripeEvents
    <3>1. SubSeq(stripeEvents, 1, 1 - 1) = <<>> /\ SubSeq(stripeEvents, 1 + 1, Len(stripeEvents)) = Tail(stripeEvents)
      BY <1>a, <1>1, <2>1
    <3>2. RemoveAt(stripeEvents, 1) = <<>> \o Tail(stripeEvents)
      BY <3>1 DEF RemoveAt
    <3>3. Tail(stripeEvents) \in Seq(StripeEvent)
      BY <1>a, <1>1, <2>1
    <3>4. RemoveAt(stripeEvents, 1) = Tail(stripeEvents)
      BY <3>2, <3>3
    <3>5. <<stripeEvents[1]>> \o Tail(stripeEvents) = stripeEvents
      BY <1>a, <1>1, <2>1
    <3> QED BY <3>4, <3>5
  <2>4. Awaiting(stripeEvents)
    BY <2>1 DEF Awaiting
  <2> QED BY <1>a, <1>1, <2>1, <2>2, <2>3, <2>4 DEF CatchesUp
<1>7. SameCustomer' /\ PaidOnce' /\ OneRunning'
  BY <1>a, <1>1 DEF SameCustomer, PaidOnce, OneRunning, Running
<1> QED BY <1>5, <1>6, <1>7 DEF MirrorInv

(* A write never touches the customer of a row that is there.               *)
LEMMA CustomerKept ==
    ASSUME MirrorInv, ~replaced, NEW h \in Handlers, Busy(h)
    PROVE  \/ AfterWrite(handler[h].event, handler[h].seen).customer = subscriptionRow.customer
           \/ InsertFails(handler[h].event, handler[h].seen)
<1>1. /\ handler[h].event.sub \in Checkouts /\ stripeStatus[handler[h].event.sub] # "none"
      /\ subscriptionRow \in BillingRows
  BY DEF MirrorInv, PaidInv, MirrorTyped, HandlerRecords, StripeEvent, EventsArePaid
<1>2. subscriptionRow # Absent
  BY <1>1, CustomerFound
<1>3. CASE handler[h].seen # Absent
  BY <1>1, <1>3 DEF AfterWrite, Merged, BillingRows
<1>4. CASE handler[h].seen = Absent /\ handler[h].event.type # "completed"
  BY <1>4 DEF AfterWrite
<1>5. CASE handler[h].seen = Absent /\ handler[h].event.type = "completed"
  BY <1>2, <1>5 DEF InsertFails
<1> QED BY <1>3, <1>4, <1>5

LEMMA WriteMirrored ==
    ASSUME MirrorInv, PaidInv', NEW h \in Handlers, WriteForEvent(h) \/ AbortHandler(h)
    PROVE  MirrorInv'
<1>a. /\ MirrorTyped /\ EventsArePaid /\ SeenIsRow /\ SameCustomer /\ PaidOnce /\ OneRunning /\ CatchesUp
      /\ subscriptionRow \in BillingRows /\ stripeEvents \in Seq(StripeEvent)
      /\ handler[h].event \in StripeEvent
  BY DEF MirrorInv, PaidInv, MirrorTyped, HandlerRecords
<1>1. /\ Busy(h) /\ handler' = [handler EXCEPT ![h] = NoEvent]
      /\ UNCHANGED <<checkout, stripeStatus, overlapped, replaced, raced>>
      /\ \/ /\ subscriptionRow' = AfterWrite(handler[h].event, handler[h].seen)
            /\ (stripeEvents' = stripeEvents /\ disordered' = disordered) \/ disordered' = TRUE
         \/ /\ subscriptionRow' = subscriptionRow /\ Returned(handler[h].event) /\ disordered' = disordered
  <2>1. CASE WriteForEvent(h)
    BY <2>1 DEF WriteForEvent
  <2>2. CASE AbortHandler(h)
    BY <2>2 DEF AbortHandler, billingHistory
  <2> QED BY <2>1, <2>2
<1>b. \/ /\ subscriptionRow' = AfterWrite(handler[h].event, handler[h].seen)
         /\ ~InsertFails(handler[h].event, handler[h].seen)
      \/ subscriptionRow' = subscriptionRow
  <2>1. CASE WriteForEvent(h)
    BY <2>1 DEF WriteForEvent
  <2>2. CASE AbortHandler(h)
    BY <2>2 DEF AbortHandler
  <2> QED BY <2>1, <2>2
<1>2. \A g \in Handlers : Busy(g)' => Busy(g) /\ g # h /\ handler'[g] = handler[g] /\ raced
  BY <1>a, <1>1, HandlerFreed
<1>3. SeenIsCurrent'
  BY <1>1, <1>2 DEF SeenIsCurrent
<1>4. SameCustomer'
  <2>1. CASE replaced
    BY <1>1, <2>1 DEF SameCustomer
  <2>2. CASE ~replaced
    <3>1. subscriptionRow'.customer = subscriptionRow.customer
      <4>1. \/ AfterWrite(handler[h].event, handler[h].seen).customer = subscriptionRow.customer
            \/ InsertFails(handler[h].event, handler[h].seen)
        BY <1>1, <2>2, CustomerKept
      <4> QED BY <1>b, <4>1
    <3> QED BY <1>a, <1>1, <2>2, <3>1 DEF SameCustomer
  <2> QED BY <2>1, <2>2
<1>5. CatchesUp'
  <2> SUFFICES ASSUME Undisturbed', NEW events \in Seq(StripeEvent), Awaiting(events)'
               PROVE  WillAgree(subscriptionRow', events, stripeStatus')
    BY DEF CatchesUp
  <2>1. events = stripeEvents' /\ ~disordered' /\ ~raced /\ ~overlapped /\ ~replaced
    BY <1>1, <1>2 DEF Awaiting, Undisturbed
  <2>2. CASE /\ subscriptionRow' = AfterWrite(handler[h].event, handler[h].seen)
             /\ stripeEvents' = stripeEvents /\ disordered' = disordered
    <3>1. Undisturbed
      BY <2>1, <2>2 DEF Undisturbed
    <3> QED BY <1>1, <2>1, <2>2, <3>1, EventWritten
  <2>3. CASE subscriptionRow' = subscriptionRow /\ Returned(handler[h].event) /\ disordered' = disordered
    <3>1. Undisturbed /\ Awaiting(stripeEvents')
      BY <1>1, <2>1, <2>3 DEF Undisturbed, Awaiting, Returned
    <3> QED BY <1>a, <1>1, <2>1, <2>3, <3>1 DEF CatchesUp
  <2> QED BY <1>1, <2>1, <2>2, <2>3
<1>6. PaidOnce' /\ OneRunning'
  BY <1>a, <1>1 DEF PaidOnce, OneRunning, Running
<1> QED BY <1>3, <1>4, <1>5, <1>6 DEF MirrorInv

LEMMA MirrorStep == MirrorInv /\ [BillingNext]_billingVars => MirrorInv'
<1> SUFFICES ASSUME MirrorInv, [BillingNext]_billingVars PROVE MirrorInv'
  OBVIOUS
<1>a. PaidInv'
  BY PaidStep DEF MirrorInv
<1>1. CASE ViewSubscription \/ \E r \in Checkouts : ReadSubscription(r) \/ OpenCheckout(r)
  BY <1>a, <1>1, RequestsMirrored
<1>2. ASSUME NEW r \in Checkouts,
             Pay(r) \/ SubscriptionEnds(r) \/ \E status \in Ongoing : StatusChanges(r, status)
      PROVE  MirrorInv'
  BY <1>a, <1>2, StripeStepMirrored
<1>3. ASSUME NEW h \in Handlers, NEW i \in 1..MaxStripeEvents, ReadForEvent(h, i) PROVE MirrorInv'
  BY <1>a, <1>3, ReadMirrored
<1>4. ASSUME NEW h \in Handlers, WriteForEvent(h) \/ AbortHandler(h) PROVE MirrorInv'
  BY <1>a, <1>4, WriteMirrored
<1>5. CASE UNCHANGED billingVars
  <2>1. UNCHANGED <<subscriptionRow, checkout, stripeStatus, stripeEvents, handler, disordered, overlapped,
                    replaced, raced>>
    BY <1>5 DEF billingVars, stripe, billingHistory
  <2>2. SameCustomer /\ SeenIsCurrent /\ PaidOnce /\ OneRunning /\ CatchesUp
    BY DEF MirrorInv
  <2>3. SeenIsCurrent'
    BY <2>1, SeenKept
  <2> QED BY <1>a, <2>1, <2>2, <2>3
          DEF MirrorInv, SameCustomer, PaidOnce, OneRunning, Running, CatchesUp, Undisturbed, Awaiting, Busy
<1> QED BY <1>1, <1>2, <1>3, <1>4, <1>5 DEF BillingNext

(* When no event is left to handle, the user has Pro exactly while Stripe   *)
(* has a subscription that is neither ended nor past due, unless events     *)
(* came out of order or twice, two were handled at once, two subscriptions  *)
(* overlapped, or a customer was replaced (handle_webhook_event,            *)
(* create_checkout_session).                                                *)
THEOREM RowMirrorsStripe == BillingSpec => []MirrorsStripe
<1>1. MirrorInv => MirrorsStripe
  <2> SUFFICES ASSUME MirrorInv, AllHandled, Undisturbed
               PROVE  HasPro <=> \E r \in Checkouts : stripeStatus[r] \in Ongoing \ {"past_due"}
    BY DEF MirrorsStripe, Undisturbed
  <2>1. stripeEvents = <<>> /\ <<>> \in Seq(StripeEvent) /\ Awaiting(stripeEvents)
    BY DEF AllHandled, Awaiting
  <2>2. PICK f : IsTrace(f, subscriptionRow, stripeEvents) /\ Agrees(f[Len(stripeEvents)], stripeStatus)
    BY <2>1 DEF MirrorInv, CatchesUp, WillAgree
  <2>3. f[Len(stripeEvents)] = subscriptionRow
    BY <2>1, <2>2 DEF IsTrace
  <2>4. Agrees(subscriptionRow, stripeStatus)
    BY <2>2, <2>3
  <2>5. \A status \in Ongoing : Mapped(status) \in {"active", "trialing"} <=> status # "past_due"
    BY DEF Mapped, Ongoing
  <2>6. ASSUME HasPro PROVE \E r \in Checkouts : stripeStatus[r] \in Ongoing \ {"past_due"}
    BY <2>4, <2>5, <2>6 DEF Agrees, HasPro
  <2>7. ASSUME NEW r \in Checkouts, stripeStatus[r] \in Ongoing \ {"past_due"} PROVE HasPro
    BY <2>4, <2>5, <2>7 DEF Agrees, HasPro
  <2> QED BY <2>6, <2>7
<1> QED BY <1>1, MirrorStart, MirrorStep, PTL DEF BillingSpec

-----------------------------------------------------------------------------
(* Installations: how far overlapping ones may exceed the limit, and how   *)
(* far the install counter may be from them.                               *)

USE MarketplaceAssumption

(* The requests past the check that will install a plugin for a user.       *)
Roomy(u) == {q \in PluginRequests : pluginRequest[q].at = "roomy" /\ pluginRequest[q].user = u}

(* A request that has seen room keeps its place until it has installed.     *)
PlacesBounded ==
    \A u \in Members :
        Cardinality(InstalledBy(u)) + Cardinality(Roomy(u))
            <= InstallLimit + Cardinality(PluginRequests) - 1

(* A request that uninstalls has its row before it, until another deletes it. *)
RowsHeld ==
    \A q \in PluginRequests :
        pluginRequest[q].at = "uninstalling" /\ q \notin outdated => Row(q) \in installed

MarketplaceInv == MarketplaceTypeOK /\ PlacesBounded /\ RowsHeld

LEMMA Sizes ==
    ASSUME NEW S, NEW T \in SUBSET S, IsFiniteSet(S)
    PROVE  /\ IsFiniteSet(T) /\ Cardinality(T) \in Nat /\ Cardinality(S) \in Nat
           /\ Cardinality(T) <= Cardinality(S)
           /\ \A x : Cardinality(T \ {x}) = IF x \in T THEN Cardinality(T) - 1 ELSE Cardinality(T)
           /\ \A x : Cardinality(T \cup {x}) = IF x \in T THEN Cardinality(T) ELSE Cardinality(T) + 1
<1>1. IsFiniteSet(T) /\ Cardinality(T) <= Cardinality(S)
  BY FS_Subset
<1>2. Cardinality(T) \in Nat /\ Cardinality(S) \in Nat
  BY <1>1, FS_CardinalityType
<1>3. ASSUME NEW x
      PROVE  Cardinality(T \ {x}) = IF x \in T THEN Cardinality(T) - 1 ELSE Cardinality(T)
  BY <1>1, FS_RemoveElement
<1>4. ASSUME NEW x
      PROVE  Cardinality(T \cup {x}) = IF x \in T THEN Cardinality(T) ELSE Cardinality(T) + 1
  BY <1>1, FS_AddElement
<1> QED BY <1>1, <1>2, <1>3, <1>4

LEMMA InstalledSizes ==
    ASSUME NEW u \in Members
    PROVE  /\ Cardinality(InstalledBy(u)) \in Nat /\ Cardinality(InstalledBy(u)') \in Nat
           /\ Cardinality(Roomy(u)) \in Nat /\ Cardinality(Roomy(u)') \in Nat
           /\ Cardinality(PluginRequests) \in Nat
           /\ Cardinality(Roomy(u)') <= Cardinality(PluginRequests)
<1>1. /\ InstalledBy(u) \in SUBSET Plugins /\ InstalledBy(u)' \in SUBSET Plugins
      /\ Roomy(u) \in SUBSET PluginRequests /\ Roomy(u)' \in SUBSET PluginRequests
  BY DEF InstalledBy, Roomy
<1> QED BY <1>1, Sizes

LEMMA MarketplaceStart == MarketplaceInit => MarketplaceInv
<1> SUFFICES ASSUME MarketplaceInit PROVE MarketplaceInv
  OBVIOUS
<1>1. MarketplaceTypeOK
  BY DEF MarketplaceInit, MarketplaceTypeOK, NoPluginRequest, PluginStatuses
<1>2. ASSUME NEW u \in Members
      PROVE  Cardinality(InstalledBy(u)) + Cardinality(Roomy(u))
                <= InstallLimit + Cardinality(PluginRequests) - 1
  <2>1. InstalledBy(u) = {} /\ Roomy(u) = {}
    BY DEF MarketplaceInit, InstalledBy, Roomy, NoPluginRequest
  <2> QED BY <2>1, InstalledSizes, FS_EmptySet
<1>3. RowsHeld
  BY DEF MarketplaceInit, RowsHeld, NoPluginRequest
<1> QED BY <1>1, <1>2, <1>3 DEF MarketplaceInv, PlacesBounded

(* The types.                                                               *)
LEMMA RequestTyped ==
    ASSUME MarketplaceTypeOK, NEW q \in PluginRequests
    PROVE  /\ pluginRequest[q].user \in Members /\ pluginRequest[q].plugin \in Plugins
           /\ Row(q) \in Members \X Plugins
           /\ Answers(q) \/ Proceeds(q, "roomy") \/
                (\E stage \in {"approved", "uninstalling"}, u \in Members, p \in Plugins :
                    Begins(q, stage, u, p))
              => pluginRequest' \in
                   [PluginRequests -> [at : {"idle", "approved", "roomy", "uninstalling"},
                                       user : Members, plugin : Plugins]]
<1> DEFINE Rs == [at : {"idle", "approved", "roomy", "uninstalling"}, user : Members, plugin : Plugins]
<1>1. pluginRequest \in [PluginRequests -> Rs] /\ pluginRequest[q] \in Rs /\ NoPluginRequest \in Rs
  BY DEF MarketplaceTypeOK, NoPluginRequest
<1>2. /\ pluginRequest[q].user \in Members /\ pluginRequest[q].plugin \in Plugins
      /\ Row(q) \in Members \X Plugins
  BY <1>1 DEF Row
<1>3. Answers(q) => pluginRequest' \in [PluginRequests -> Rs]
  BY <1>1 DEF Answers
<1>4. Proceeds(q, "roomy") => pluginRequest' \in [PluginRequests -> Rs]
  BY <1>1 DEF Proceeds
<1>5. ASSUME NEW stage \in {"approved", "uninstalling"}, NEW u \in Members, NEW p \in Plugins,
             Begins(q, stage, u, p)
      PROVE  pluginRequest' \in [PluginRequests -> Rs]
  <2>1. [NoPluginRequest EXCEPT !.at = stage, !.user = u, !.plugin = p] \in Rs
    BY <1>1
  <2> QED BY <1>1, <1>5, <2>1 DEF Begins
<1> QED BY <1>2, <1>3, <1>4, <1>5

LEMMA MarketplaceTypeStep ==
    MarketplaceTypeOK /\ [MarketplaceNext]_marketplaceVars => MarketplaceTypeOK'
<1> SUFFICES ASSUME MarketplaceTypeOK, [MarketplaceNext]_marketplaceVars PROVE MarketplaceTypeOK'
  OBVIOUS
<1>1. ASSUME NEW p \in Plugins, Review(p) PROVE MarketplaceTypeOK'
  <2>1. Reviewed(pluginStatus[p]) \subseteq PluginStatuses
    BY DEF MarketplaceTypeOK, Reviewed, PluginStatuses
  <2> QED BY <1>1, <2>1 DEF Review, marketplaceHistory, MarketplaceTypeOK
<1>2. ASSUME NEW q \in PluginRequests, NEW u \in Members, NEW p \in Plugins,
             ReadPlugin(q, u, p) \/ ReadInstallation(q, u, p)
      PROVE  MarketplaceTypeOK'
  <2>1. /\ \E stage \in {"approved", "uninstalling"} : Begins(q, stage, u, p)
        /\ OnlyRequest
    BY <1>2 DEF ReadPlugin, ReadInstallation
  <2> QED BY <2>1, RequestTyped DEF OnlyRequest, marketplaceTables, marketplaceHistory, MarketplaceTypeOK
<1>3. ASSUME NEW q \in PluginRequests, CheckRoom(q) PROVE MarketplaceTypeOK'
  <2>1. (Answers(q) \/ Proceeds(q, "roomy")) /\ OnlyRequest
    BY <1>3 DEF CheckRoom
  <2> QED BY <2>1, RequestTyped DEF OnlyRequest, marketplaceTables, marketplaceHistory, MarketplaceTypeOK
<1>4. ASSUME NEW q \in PluginRequests, Install(q) PROVE MarketplaceTypeOK'
  BY <1>4, RequestTyped DEF Install, marketplaceHistory, MarketplaceTypeOK
<1>5. ASSUME NEW q \in PluginRequests, Uninstall(q) PROVE MarketplaceTypeOK'
  <2>1. outdated' \subseteq PluginRequests /\ installed' \subseteq Members \X Plugins
    BY <1>5 DEF Uninstall, Holding, MarketplaceTypeOK
  <2>2. installCount' \in [Plugins -> Nat] /\ doubled' \in [Plugins -> Nat]
    BY <1>5, RequestTyped DEF Uninstall, Decremented, MarketplaceTypeOK
  <2> QED BY <1>5, <2>1, <2>2, RequestTyped DEF Uninstall, MarketplaceTypeOK
<1>6. CASE UNCHANGED marketplaceVars
  BY <1>6 DEF marketplaceVars, marketplaceTables, marketplaceHistory, MarketplaceTypeOK
<1>7. ASSUME NEW u \in Members, DeleteAccount(u) PROVE MarketplaceTypeOK'
  <2>1. outdated' \subseteq PluginRequests /\ installed' \subseteq Members \X Plugins
        /\ accounts' \subseteq Members
    BY <1>7 DEF DeleteAccount, Holding, MarketplaceTypeOK
  <2>2. cascaded' \in [Plugins -> Nat]
    BY <1>7 DEF DeleteAccount, MarketplaceTypeOK
  <2> QED BY <1>7, <2>1, <2>2 DEF DeleteAccount, MarketplaceTypeOK
<1> QED BY <1>1, <1>2, <1>3, <1>4, <1>5, <1>6, <1>7 DEF MarketplaceNext

-----------------------------------------------------------------------------
(* Only the request that acts can enter or leave the places of its user.    *)
LEMMA RoomyAfter ==
    ASSUME MarketplaceTypeOK, NEW q \in PluginRequests, NEW u \in Members,
           \A r \in PluginRequests \ {q} : pluginRequest'[r] = pluginRequest[r]
    PROVE  /\ pluginRequest'[q].at # "roomy" => Roomy(u)' = Roomy(u) \ {q}
           /\ pluginRequest'[q].user # u => Roomy(u)' = Roomy(u) \ {q}
BY DEF Roomy

LEMMA Others ==
    ASSUME MarketplaceTypeOK, NEW q \in PluginRequests,
           Answers(q) \/ Proceeds(q, "roomy") \/
             (\E stage \in {"approved", "uninstalling"}, u \in Members, p \in Plugins :
                Begins(q, stage, u, p))
    PROVE  \A r \in PluginRequests \ {q} : pluginRequest'[r] = pluginRequest[r]
BY DEF MarketplaceTypeOK, Answers, Proceeds, Begins

LEMMA PlacesStep ==
    MarketplaceInv /\ [MarketplaceNext]_marketplaceVars => PlacesBounded'
<1> SUFFICES ASSUME MarketplaceInv, [MarketplaceNext]_marketplaceVars, NEW u \in Members
             PROVE  Cardinality(InstalledBy(u)') + Cardinality(Roomy(u)')
                       <= InstallLimit + Cardinality(PluginRequests) - 1
  BY DEF PlacesBounded
<1>a. MarketplaceTypeOK
      /\ Cardinality(InstalledBy(u)) + Cardinality(Roomy(u))
            <= InstallLimit + Cardinality(PluginRequests) - 1
  BY DEF MarketplaceInv, PlacesBounded
<1>b. /\ InstalledBy(u) \in SUBSET Plugins /\ InstalledBy(u)' \in SUBSET Plugins
      /\ Roomy(u) \in SUBSET PluginRequests /\ Roomy(u)' \in SUBSET PluginRequests
  BY DEF InstalledBy, Roomy
<1>1. ASSUME NEW p \in Plugins, Review(p)
      PROVE  InstalledBy(u)' = InstalledBy(u) /\ Roomy(u)' = Roomy(u)
  BY <1>1 DEF Review, InstalledBy, Roomy
(* A request that has just begun, or ends, takes no place.                  *)
<1>c. ASSUME NEW q \in PluginRequests, pluginRequest'[q].at # "roomy",
             \A r \in PluginRequests \ {q} : pluginRequest'[r] = pluginRequest[r],
             Cardinality(InstalledBy(u)') <= Cardinality(InstalledBy(u))
      PROVE  Cardinality(InstalledBy(u)') + Cardinality(Roomy(u)')
                <= InstallLimit + Cardinality(PluginRequests) - 1
  <2>1. Roomy(u)' = Roomy(u) \ {q}
    BY <1>a, <1>c, RoomyAfter
  <2>2. Cardinality(Roomy(u)') <= Cardinality(Roomy(u))
    BY <1>b, <2>1, Sizes, InstalledSizes
  <2> QED BY <1>a, <1>c, <2>2, InstalledSizes
<1>2. ASSUME NEW q \in PluginRequests, NEW v \in Members, NEW p \in Plugins,
             ReadPlugin(q, v, p) \/ ReadInstallation(q, v, p)
      PROVE  Cardinality(InstalledBy(u)') + Cardinality(Roomy(u)')
                <= InstallLimit + Cardinality(PluginRequests) - 1
  <2>1. /\ \E stage \in {"approved", "uninstalling"} : Begins(q, stage, v, p)
        /\ OnlyRequest
    BY <1>2 DEF ReadPlugin, ReadInstallation
  <2>2. pluginRequest'[q].at # "roomy" /\ InstalledBy(u)' = InstalledBy(u)
    BY <1>a, <2>1 DEF Begins, NoPluginRequest, OnlyRequest, marketplaceTables, InstalledBy,
                      MarketplaceTypeOK
  <2>3. \A r \in PluginRequests \ {q} : pluginRequest'[r] = pluginRequest[r]
    BY <1>a, <2>1, Others
  <2> QED BY <1>c, <2>2, <2>3, InstalledSizes
<1>3. ASSUME NEW q \in PluginRequests, CheckRoom(q)
      PROVE  Cardinality(InstalledBy(u)') + Cardinality(Roomy(u)')
                <= InstallLimit + Cardinality(PluginRequests) - 1
  <2>1. InstalledBy(u)' = InstalledBy(u)
    BY <1>3 DEF CheckRoom, OnlyRequest, marketplaceTables, InstalledBy
  <2>2. \A r \in PluginRequests \ {q} : pluginRequest'[r] = pluginRequest[r]
    BY <1>a, <1>3, Others DEF CheckRoom
  <2>3. CASE Answers(q)
    <3>1. pluginRequest'[q].at # "roomy"
      BY <1>a, <2>3 DEF Answers, NoPluginRequest, MarketplaceTypeOK
    <3> QED BY <1>c, <2>1, <2>2, <3>1, InstalledSizes
  <2>4. CASE Proceeds(q, "roomy") /\ HasRoom(pluginRequest[q].user)
    <3>1. CASE pluginRequest[q].user = u
      BY <2>1, <2>4, <3>1, InstalledSizes DEF HasRoom
    <3>2. CASE pluginRequest[q].user # u
      <4>1. pluginRequest'[q].user # u
        BY <1>a, <2>4, <3>2 DEF Proceeds, MarketplaceTypeOK
      <4>2. Roomy(u)' = Roomy(u) \ {q} /\ q \notin Roomy(u)
        BY <1>a, <2>2, <3>2, <4>1, RoomyAfter DEF Roomy
      <4> QED BY <1>a, <2>1, <4>2
    <3> QED BY <3>1, <3>2
  <2> QED BY <1>3, <2>3, <2>4 DEF CheckRoom
<1>4. ASSUME NEW q \in PluginRequests, Install(q)
      PROVE  Cardinality(InstalledBy(u)') + Cardinality(Roomy(u)')
                <= InstallLimit + Cardinality(PluginRequests) - 1
  <2>1. pluginRequest'[q].at # "roomy"
    BY <1>a, <1>4 DEF Install, Answers, NoPluginRequest, MarketplaceTypeOK
  <2>2. \A r \in PluginRequests \ {q} : pluginRequest'[r] = pluginRequest[r]
    BY <1>a, <1>4, Others DEF Install
  <2>3. CASE pluginRequest[q].user # u \/ Row(q) \in installed \/ pluginRequest[q].user \notin accounts
    <3>1. InstalledBy(u)' = InstalledBy(u)
      BY <1>4, <2>3 DEF Install, InstalledBy, Row
    <3> QED BY <1>c, <2>1, <2>2, <3>1, InstalledSizes
  <2>4. CASE pluginRequest[q].user = u /\ Row(q) \notin installed /\ pluginRequest[q].user \in accounts
    <3>1. /\ InstalledBy(u)' = InstalledBy(u) \cup {pluginRequest[q].plugin}
          /\ pluginRequest[q].plugin \notin InstalledBy(u)
      BY <1>a, <1>4, <2>4, RequestTyped DEF Install, InstalledBy, Row
    <3>2. q \in Roomy(u) /\ Roomy(u)' = Roomy(u) \ {q}
      BY <1>a, <1>4, <2>1, <2>2, <2>4, RoomyAfter DEF Install, Roomy
    <3>3. /\ Cardinality(InstalledBy(u)') = Cardinality(InstalledBy(u)) + 1
          /\ Cardinality(Roomy(u)') = Cardinality(Roomy(u)) - 1
      <4>1. IsFiniteSet(InstalledBy(u)) /\ IsFiniteSet(Roomy(u))
        BY <1>b, Sizes
      <4>2. Cardinality(InstalledBy(u)') = Cardinality(InstalledBy(u)) + 1
        BY <3>1, <4>1, FS_AddElement
      <4>3. Cardinality(Roomy(u)') = Cardinality(Roomy(u)) - 1
        BY <3>2, <4>1, FS_RemoveElement
      <4> QED BY <4>2, <4>3
    <3> QED BY <1>a, <3>3, InstalledSizes
  <2> QED BY <2>3, <2>4
<1>5. ASSUME NEW q \in PluginRequests, Uninstall(q)
      PROVE  Cardinality(InstalledBy(u)') + Cardinality(Roomy(u)')
                <= InstallLimit + Cardinality(PluginRequests) - 1
  <2>1. pluginRequest'[q].at # "roomy"
    BY <1>a, <1>5 DEF Uninstall, Answers, NoPluginRequest, MarketplaceTypeOK
  <2>2. \A r \in PluginRequests \ {q} : pluginRequest'[r] = pluginRequest[r]
    BY <1>a, <1>5, Others DEF Uninstall
  <2>3. InstalledBy(u)' \subseteq InstalledBy(u)
    BY <1>5 DEF Uninstall, InstalledBy
  <2>4. IsFiniteSet(InstalledBy(u))
    BY <1>b, Sizes
  <2>5. Cardinality(InstalledBy(u)') <= Cardinality(InstalledBy(u))
    BY <2>3, <2>4, FS_Subset
  <2> QED BY <1>c, <2>1, <2>2, <2>5
<1>6. CASE UNCHANGED marketplaceVars
  <2>1. InstalledBy(u)' = InstalledBy(u) /\ Roomy(u)' = Roomy(u)
    BY <1>6 DEF marketplaceVars, marketplaceTables, InstalledBy, Roomy
  <2> QED BY <1>a, <2>1
<1>7. \A p \in Plugins : Review(p) =>
          Cardinality(InstalledBy(u)') + Cardinality(Roomy(u)')
                <= InstallLimit + Cardinality(PluginRequests) - 1
  BY <1>1, <1>a
<1>8. ASSUME NEW v \in Members, DeleteAccount(v)
      PROVE  Cardinality(InstalledBy(u)') + Cardinality(Roomy(u)')
                <= InstallLimit + Cardinality(PluginRequests) - 1
  <2>1. InstalledBy(u)' \subseteq InstalledBy(u) /\ Roomy(u)' = Roomy(u)
    BY <1>8 DEF DeleteAccount, InstalledBy, Roomy
  <2>2. IsFiniteSet(InstalledBy(u))
    BY <1>b, Sizes
  <2>3. Cardinality(InstalledBy(u)') <= Cardinality(InstalledBy(u))
    BY <2>1, <2>2, FS_Subset
  <2> QED BY <1>a, <2>1, <2>3, InstalledSizes
<1> QED BY <1>2, <1>3, <1>4, <1>5, <1>6, <1>7, <1>8 DEF MarketplaceNext

(* Whoever deletes a row outdates the other requests that hold it.          *)
LEMMA RowsHeldStep ==
    MarketplaceInv /\ [MarketplaceNext]_marketplaceVars => RowsHeld'
<1> SUFFICES ASSUME MarketplaceInv, [MarketplaceNext]_marketplaceVars PROVE RowsHeld'
  OBVIOUS
<1>a. MarketplaceTypeOK /\ RowsHeld
  BY DEF MarketplaceInv
<1>1. ASSUME UNCHANGED <<installed, pluginRequest, outdated>> PROVE RowsHeld'
  BY <1>1, <1>a DEF RowsHeld, Row
(* A request begins, goes on or ends and no row is deleted.                 *)
<1>2. ASSUME NEW q \in PluginRequests,
             \A r \in PluginRequests \ {q} : pluginRequest'[r] = pluginRequest[r],
             pluginRequest'[q].at = "uninstalling" => Row(q)' \in installed',
             installed \subseteq installed', UNCHANGED outdated
      PROVE  RowsHeld'
  BY <1>2, <1>a DEF RowsHeld, Row
<1>3. ASSUME NEW q \in PluginRequests, NEW u \in Members, NEW p \in Plugins,
             ReadPlugin(q, u, p) \/ ReadInstallation(q, u, p)
      PROVE  RowsHeld'
  <2>1. /\ \E stage \in {"approved", "uninstalling"} :
               Begins(q, stage, u, p) /\ (stage = "uninstalling" => <<u, p>> \in installed)
        /\ OnlyRequest
    BY <1>3 DEF ReadPlugin, ReadInstallation
  <2>2. \A r \in PluginRequests \ {q} : pluginRequest'[r] = pluginRequest[r]
    BY <1>a, <2>1, Others
  <2>3. installed' = installed /\ outdated' = outdated
    BY <2>1 DEF OnlyRequest, marketplaceTables
  <2>4. pluginRequest'[q].at = "uninstalling" => Row(q)' \in installed
    BY <1>a, <2>1 DEF Begins, NoPluginRequest, Row, MarketplaceTypeOK
  <2> QED BY <1>2, <2>2, <2>3, <2>4
<1>4. ASSUME NEW q \in PluginRequests, CheckRoom(q) PROVE RowsHeld'
  <2>1. /\ pluginRequest'[q].at # "uninstalling" /\ installed' = installed /\ outdated' = outdated
        /\ \A r \in PluginRequests \ {q} : pluginRequest'[r] = pluginRequest[r]
    BY <1>4, <1>a DEF CheckRoom, Proceeds, Answers, NoPluginRequest, OnlyRequest, marketplaceTables,
                      MarketplaceTypeOK
  <2> QED BY <1>2, <2>1
<1>5. ASSUME NEW q \in PluginRequests, Install(q) PROVE RowsHeld'
  <2>1. /\ pluginRequest'[q].at # "uninstalling" /\ installed \subseteq installed' /\ outdated' = outdated
        /\ \A r \in PluginRequests \ {q} : pluginRequest'[r] = pluginRequest[r]
    BY <1>5, <1>a DEF Install, Answers, NoPluginRequest, MarketplaceTypeOK
  <2> QED BY <1>2, <2>1
<1>6. ASSUME NEW q \in PluginRequests, Uninstall(q) PROVE RowsHeld'
  <2>1. /\ pluginRequest'[q].at # "uninstalling"
        /\ \A r \in PluginRequests \ {q} : pluginRequest'[r] = pluginRequest[r]
    BY <1>6, <1>a DEF Uninstall, Answers, NoPluginRequest, MarketplaceTypeOK
  <2>2. CASE q \notin outdated
    <3>1. installed' = installed \ {Row(q)} /\ outdated' = (outdated \cup Holding({Row(q)})) \ {q}
      BY <1>6, <2>2 DEF Uninstall
    <3> QED BY <1>a, <2>1, <3>1 DEF RowsHeld, Row, Holding
  <2>3. CASE q \in outdated
    <3>1. installed' = installed /\ outdated' = outdated \ {q}
      BY <1>6, <2>3 DEF Uninstall
    <3> QED BY <1>a, <2>1, <3>1 DEF RowsHeld, Row
  <2> QED BY <2>2, <2>3
<1>7. ASSUME NEW u \in Members, DeleteAccount(u) PROVE RowsHeld'
  BY <1>7, <1>a DEF DeleteAccount, RowsHeld, Row, Holding
<1>8. CASE (\E p \in Plugins : Review(p)) \/ UNCHANGED marketplaceVars
  BY <1>8, <1>1 DEF Review, marketplaceVars, marketplaceTables
<1> QED BY <1>3, <1>4, <1>5, <1>6, <1>7, <1>8 DEF MarketplaceNext

(* Status, rows, counter and requests keep their types, and no user's       *)
(* installations and places together exceed the limit by more than the      *)
(* other requests (install_plugin).                                         *)
THEOREM PlacesHold == MarketplaceSpec => []MarketplaceInv
<1>1. MarketplaceInv /\ [MarketplaceNext]_marketplaceVars => MarketplaceInv'
  BY MarketplaceTypeStep, PlacesStep, RowsHeldStep DEF MarketplaceInv
<1> QED BY <1>1, MarketplaceStart, PTL DEF MarketplaceSpec

(* Overlapping installations exceed the limit of plugins per user by less   *)
(* than their number, whatever happened before (install_plugin counts and   *)
(* inserts in two statements).                                              *)
THEOREM InstallsAreBounded == MarketplaceSpec => []InstallsBounded
<1>1. MarketplaceInv => InstallsBounded
  <2> SUFFICES ASSUME MarketplaceInv, NEW u \in Members
               PROVE  Cardinality(InstalledBy(u)) <= InstallLimit + Cardinality(PluginRequests) - 1
    BY DEF InstallsBounded
  <2> QED BY InstalledSizes DEF MarketplaceInv, PlacesBounded
<1> QED BY <1>1, PlacesHold, PTL

-----------------------------------------------------------------------------
LEMMA OneFewer ==
    ASSUME NEW S, NEW x \in S, IsFiniteSet(S)
    PROVE  Cardinality(S \ {x}) = Cardinality(S) - 1
BY FS_RemoveElement

LEMMA InstallerSizes ==
    ASSUME NEW p \in Plugins
    PROVE  /\ IsFiniteSet(InstallersOf(p))
           /\ Cardinality(InstallersOf(p)) \in Nat /\ Cardinality(InstallersOf(p)') \in Nat
<1>1. InstallersOf(p) \in SUBSET Members /\ InstallersOf(p)' \in SUBSET Members
  BY DEF InstallersOf
<1> QED BY <1>1, Sizes

(* The counter and the rows move together, but for a row deleted twice and   *)
(* for those that go with their user.                                        *)
LEMMA CountStep ==
    MarketplaceInv /\ InstallCountExplained /\ [MarketplaceNext]_marketplaceVars
        => InstallCountExplained'
<1> DEFINE Explained(p) ==
             /\ installCount'[p] <= Cardinality(InstallersOf(p)') + cascaded'[p]
             /\ Cardinality(InstallersOf(p)') <= installCount'[p] + doubled'[p]
<1> SUFFICES ASSUME MarketplaceInv, InstallCountExplained, [MarketplaceNext]_marketplaceVars,
                    NEW p \in Plugins
             PROVE  Explained(p)
  BY DEF InstallCountExplained
<1>a. /\ installCount \in [Plugins -> Nat] /\ doubled \in [Plugins -> Nat] /\ cascaded \in [Plugins -> Nat]
      /\ installCount[p] \in Nat /\ doubled[p] \in Nat /\ cascaded[p] \in Nat
      /\ installCount[p] <= Cardinality(InstallersOf(p)) + cascaded[p]
      /\ Cardinality(InstallersOf(p)) <= installCount[p] + doubled[p]
      /\ MarketplaceTypeOK /\ RowsHeld
  BY DEF MarketplaceInv, MarketplaceTypeOK, InstallCountExplained
<1>b. ASSUME InstallersOf(p)' = InstallersOf(p), installCount'[p] = installCount[p],
             doubled'[p] = doubled[p], cascaded'[p] = cascaded[p]
      PROVE  Explained(p)
  BY <1>a, <1>b
<1>1. ASSUME UNCHANGED <<installed, installCount, doubled, cascaded>> PROVE Explained(p)
  <2>1. InstallersOf(p)' = InstallersOf(p)
    BY <1>1 DEF InstallersOf
  <2> QED BY <1>1, <1>b, <2>1
<1>2. ASSUME NEW q \in PluginRequests, Install(q), Row(q) \notin installed,
             pluginRequest[q].user \in accounts
      PROVE  Explained(p)
  <2>1. doubled' = doubled /\ cascaded' = cascaded
    BY <1>2 DEF Install, marketplaceHistory
  <2>2. CASE pluginRequest[q].plugin = p
    <3>1. InstallersOf(p)' = InstallersOf(p) \cup {pluginRequest[q].user}
      BY <1>2, <1>a, <2>2, RequestTyped DEF Install, InstallersOf, Row
    <3>2. pluginRequest[q].user \notin InstallersOf(p)
      BY <1>2, <2>2 DEF InstallersOf, Row
    <3>3. Cardinality(InstallersOf(p)') = Cardinality(InstallersOf(p)) + 1
      BY <3>1, <3>2, InstallerSizes, FS_AddElement
    <3>4. installCount'[p] = installCount[p] + 1
      BY <1>2, <1>a, <2>2 DEF Install
    <3> QED BY <1>a, <2>1, <3>3, <3>4, InstallerSizes
  <2>3. CASE pluginRequest[q].plugin # p
    <3>1. InstallersOf(p)' = InstallersOf(p)
      BY <1>2, <2>3 DEF Install, InstallersOf, Row
    <3>2. installCount'[p] = installCount[p]
      BY <1>2, <1>a, <2>3 DEF Install
    <3> QED BY <1>b, <2>1, <3>1, <3>2
  <2> QED BY <2>2, <2>3
<1>3. ASSUME NEW q \in PluginRequests, Uninstall(q) PROVE Explained(p)
  <2>a. cascaded' = cascaded /\ pluginRequest[q].plugin \in Plugins
    BY <1>3, <1>a, RequestTyped DEF Uninstall
  <2>1. CASE pluginRequest[q].plugin # p
    <3>1. InstallersOf(p)' = InstallersOf(p)
      BY <1>3, <2>1 DEF Uninstall, InstallersOf, Row
    <3>2. installCount'[p] = installCount[p]
      BY <1>3, <1>a, <2>1, <2>a DEF Uninstall, Decremented
    <3>3. doubled'[p] = doubled[p]
      BY <1>3, <1>a, <2>1, <2>a DEF Uninstall
    <3> QED BY <1>b, <2>a, <3>1, <3>2, <3>3
  <2>2. CASE pluginRequest[q].plugin = p
    <3>1. installCount'[p] = IF installCount[p] > 0 THEN installCount[p] - 1 ELSE installCount[p]
      BY <1>3, <1>a, <2>2 DEF Uninstall, Decremented
    <3>2. CASE q \notin outdated
      <4>1. /\ InstallersOf(p)' = InstallersOf(p) \ {pluginRequest[q].user}
            /\ pluginRequest[q].user \in InstallersOf(p)
        <5>1. Row(q) \in installed /\ installed' = installed \ {Row(q)}
          BY <1>3, <1>a, <3>2 DEF Uninstall, RowsHeld
        <5> QED BY <5>1, <1>a, <2>2, RequestTyped DEF InstallersOf, Row
      <4>2. Cardinality(InstallersOf(p)') = Cardinality(InstallersOf(p)) - 1
        <5>1. IsFiniteSet(InstallersOf(p))
          BY InstallerSizes
        <5>2. Cardinality(InstallersOf(p) \ {pluginRequest[q].user}) = Cardinality(InstallersOf(p)) - 1
          BY <4>1, <5>1, OneFewer
        <5> QED BY <4>1, <5>2
      <4>3. doubled' = doubled
        BY <1>3, <3>2 DEF Uninstall
      <4> QED BY <1>a, <2>a, <3>1, <4>2, <4>3, InstallerSizes
    <3>3. CASE q \in outdated
      <4>1. InstallersOf(p)' = InstallersOf(p)
        BY <1>3, <3>3 DEF Uninstall, InstallersOf
      <4>2. doubled'[p] = doubled[p] + 1
        BY <1>3, <1>a, <2>2, <3>3 DEF Uninstall
      <4>3. CASE installCount[p] > 0
        <5>1. installCount'[p] = installCount[p] - 1
          BY <3>1, <4>3
        <5>2. installCount'[p] + doubled'[p] = installCount[p] + doubled[p]
          BY <1>a, <4>2, <5>1
        <5> QED BY <1>a, <2>a, <4>1, <5>1, <5>2, InstallerSizes
      <4>4. CASE ~(installCount[p] > 0)
        <5>1. installCount'[p] = installCount[p]
          BY <3>1, <4>4
        <5> QED BY <1>a, <2>a, <4>1, <4>2, <5>1, InstallerSizes
      <4> QED BY <4>3, <4>4
    <3> QED BY <3>2, <3>3
  <2> QED BY <2>1, <2>2
<1>4. ASSUME NEW u \in Members, DeleteAccount(u) PROVE Explained(p)
  <2>1. /\ installCount' = installCount /\ doubled' = doubled
        /\ cascaded'[p] = IF <<u, p>> \in installed THEN cascaded[p] + 1 ELSE cascaded[p]
    BY <1>4, <1>a DEF DeleteAccount
  <2>a. \A v \in Members : <<v, p>> \in installed' <=> <<v, p>> \in installed /\ v # u
    BY <1>4 DEF DeleteAccount
  <2>b. InstallersOf(p)' = InstallersOf(p) \ {u}
    BY <2>a DEF InstallersOf
  <2>2. CASE <<u, p>> \in installed
    <3>1. u \in InstallersOf(p) /\ IsFiniteSet(InstallersOf(p))
      BY <2>2, InstallerSizes DEF InstallersOf
    <3>2. Cardinality(InstallersOf(p)') = Cardinality(InstallersOf(p)) - 1
      <4>1. Cardinality(InstallersOf(p) \ {u}) = Cardinality(InstallersOf(p)) - 1
        BY <3>1, OneFewer
      <4> QED BY <2>b, <4>1
    <3> QED BY <1>a, <2>1, <2>2, <3>2, InstallerSizes
  <2>3. CASE <<u, p>> \notin installed
    <3>1. InstallersOf(p)' = InstallersOf(p)
      BY <2>b, <2>3 DEF InstallersOf
    <3> QED BY <1>b, <2>1, <2>3, <3>1
  <2> QED BY <2>2, <2>3
<1>5. \/ UNCHANGED <<installed, installCount, doubled, cascaded>>
      \/ \E q \in PluginRequests :
           Uninstall(q) \/ (Install(q) /\ Row(q) \notin installed /\ pluginRequest[q].user \in accounts)
      \/ \E u \in Members : DeleteAccount(u)
  BY DEF MarketplaceNext, Review, ReadPlugin, ReadInstallation, CheckRoom, Install, OnlyRequest,
         marketplaceTables, marketplaceHistory, marketplaceVars
<1> QED BY <1>1, <1>2, <1>3, <1>4, <1>5

(* The counter exceeds the installations of a plugin only by those that     *)
(* went with their user's account, and falls short of them only by the rows *)
(* two requests uninstalled at once.                                        *)
THEOREM InstallCountsAreExplained == MarketplaceSpec => []InstallCountExplained
<1>1. MarketplaceInit => InstallCountExplained
  <2> SUFFICES ASSUME MarketplaceInit, NEW p \in Plugins
               PROVE  /\ installCount[p] <= Cardinality(InstallersOf(p)) + cascaded[p]
                      /\ Cardinality(InstallersOf(p)) <= installCount[p] + doubled[p]
    BY DEF InstallCountExplained
  <2>1. InstallersOf(p) = {} /\ installCount[p] = 0 /\ doubled[p] = 0 /\ cascaded[p] = 0
    BY DEF MarketplaceInit, InstallersOf
  <2> QED BY <2>1, FS_EmptySet
<1> QED BY <1>1, PlacesHold, CountStep, PTL DEF MarketplaceSpec
=============================================================================
