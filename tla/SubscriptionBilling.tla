------------------------ MODULE SubscriptionBilling ------------------------
(***************************************************************************)
(* The subscription of one user: the row of table subscriptions, Stripe,   *)
(* the checkout requests and the webhook (app/services/billing,            *)
(* app/api/routes/billing.py).                                             *)
(*                                                                         *)
(* A request is a transaction at READ COMMITTED: it reads the row, changes *)
(* the object in memory and writes, when it ends, the columns it changed.  *)
(***************************************************************************)
EXTENDS Naturals, FiniteSets, Sequences
LOCAL INSTANCE TLC

CONSTANTS
    Checkouts,   \* checkouts the user may start; each sells one subscription
    NoSub,       \* no Stripe subscription, no Stripe customer
    Hooks,       \* webhook requests the API may be serving at a time
    PaidTiers,   \* the tiers with a Stripe price
    Prices,      \* Stripe prices: those of the tiers, under the same name, and others
    Period,      \* length of a billing period
    MaxTime,     \* bound: the last moment
    MaxLive,     \* bound: subscriptions the user holds at a time
    MaxChanges,  \* bound: what the user and the bank do to subscriptions
    MaxLate,     \* bound: events that arrive before an older one
    MaxRepeats,  \* bound: events Stripe delivers although they were handled
    MaxLost      \* bound: handlers that raise

ASSUME NamesAssumption ==
    /\ NoSub \notin Checkouts
    /\ "free" \notin PaidTiers
    /\ PaidTiers \subseteq Prices
    /\ Prices # {}

ASSUME NumbersAssumption ==
    /\ Period \in Nat \ {0}
    /\ MaxTime \in Nat

VARIABLES
    now,        \* the time, from 1
    stripe,     \* Stripe's subscriptions, by the checkout that sold them
    held,       \* the prices each subscription has had while it was paid for
    event,      \* the events Stripe has to deliver
    sent,       \* how many events Stripe has created
    row,        \* the row of table subscriptions
    checkout,   \* progress of POST /billing/checkout
    customers,  \* the Stripe customers created, by the checkout that did
    hook,       \* progress of POST /billing/webhook
    count       \* how much of each bound is used

stripeVars == <<stripe, held, event, sent>>
billingVars == <<now, stripe, held, event, sent, row, checkout, customers, hook, count>>

Tier == PaidTiers \cup {"free"}

\* A bug this could have: a price it does not know gives some paid tier.
TierOrBest(price) == IF price \in PaidTiers THEN price ELSE CHOOSE tier \in PaidTiers : TRUE

\* PRICE_TO_TIER.get(price_id, PlanTier.FREE)
TierOf(price) == IF price \in PaidTiers THEN price ELSE "free"

-----------------------------------------------------------------------------
(* The row.  start is current_period_start, 0 when it is NULL;             *)
(* current_period_end is always written with it and is start + Period.     *)

Row == [tier     : Tier,
        status   : {"free", "active", "past_due", "canceled"},
        sub      : Checkouts \cup {NoSub},
        customer : Checkouts \cup {NoSub},
        start    : Nat]

\* provision_free_subscription
FreeRow == [tier |-> "free", status |-> "free", sub |-> NoSub,
            customer |-> NoSub, start |-> 0]

\* A column after a flush by a transaction that read seen and wants new.
Column(current, seen, new) == IF new = seen THEN current ELSE new

\* The row after that flush.
Flushed(seen, new) ==
    [tier     |-> Column(row.tier, seen.tier, new.tier),
     status   |-> Column(row.status, seen.status, new.status),
     sub      |-> Column(row.sub, seen.sub, new.sub),
     customer |-> Column(row.customer, seen.customer, new.customer),
     start    |-> Column(row.start, seen.start, new.start)]

-----------------------------------------------------------------------------
(* Stripe, as the handlers see it.                                         *)

StripeSub == [status : {"none", "active", "past_due", "canceled"},
              price  : Prices,
              start  : Nat]

\* Subscription k exists, and is not over.
Sold(k) == stripe[k].status # "none"

Live(k) == stripe[k].status \in {"active", "past_due"}

EventType == {"checkout.session.completed", "customer.subscription.updated",
              "customer.subscription.deleted", "invoice.payment_failed"}

\* An event carries the subscription as it was when the event was created.
Event == [type : EventType, sub : Checkouts, object : StripeSub, at : Nat]

Bound(kind) == CASE kind = "change" -> MaxChanges
                 [] kind = "late"   -> MaxLate
                 [] kind = "repeat" -> MaxRepeats
                 [] kind = "lost"   -> MaxLost

Counted(kind) == /\ count[kind] < Bound(kind)
                 /\ count' = [count EXCEPT ![kind] = @ + 1]

\* Subscription k becomes s, and an event of each type in types tells it.
Emit(k, s, types) ==
    /\ stripe' = [stripe EXCEPT ![k] = s]
    /\ held' = [held EXCEPT ![k] = IF s.status = "active" THEN @ \cup {s.price} ELSE @]
    /\ event' = event \cup
           {[type |-> types[i], sub |-> k, object |-> s, at |-> sent + i] : i \in DOMAIN types}
    /\ sent' = sent + Len(types)

\* The bank refuses, accepts again, the user changes the plan or cancels.
Change(k) ==
    /\ Counted("change")
    /\ \/ /\ stripe[k].status = "active"
          /\ Emit(k, [stripe[k] EXCEPT !.status = "past_due"],
                  <<"customer.subscription.updated", "invoice.payment_failed">>)
       \/ /\ stripe[k].status = "past_due"
          /\ Emit(k, [stripe[k] EXCEPT !.status = "active"],
                  <<"customer.subscription.updated">>)
       \/ /\ stripe[k].status = "active"
          /\ \E p \in Prices \ {stripe[k].price} :
                Emit(k, [stripe[k] EXCEPT !.price = p], <<"customer.subscription.updated">>)
       \/ /\ Live(k)
          /\ Emit(k, [stripe[k] EXCEPT !.status = "canceled"],
                  <<"customer.subscription.deleted">>)
    /\ UNCHANGED <<now, row, checkout, customers, hook>>

\* A period of k is over and the next one begins.
Renew(k) ==
    /\ Live(k)
    /\ now = stripe[k].start + Period
    /\ Emit(k, [stripe[k] EXCEPT !.start = now], <<"customer.subscription.updated">>)
    /\ UNCHANGED <<now, row, checkout, customers, hook, count>>

\* Time passes; Stripe renews on time.
Tick ==
    /\ now < MaxTime
    /\ \A k \in Checkouts : Live(k) => now < stripe[k].start + Period
    /\ now' = now + 1
    /\ UNCHANGED <<stripe, held, event, sent, row, checkout, customers, hook, count>>

-----------------------------------------------------------------------------
(* create_checkout_session.  Its only write, the customer id, is flushed   *)
(* before the session is created and holds the row lock until the commit.  *)

CheckoutRead(k) ==
    /\ checkout[k].pc = "none"
    /\ checkout' = [checkout EXCEPT ![k] =
           [pc       |-> IF row.customer = NoSub THEN "customer" ELSE "session",
            customer |-> row.customer]]
    /\ UNCHANGED <<now, stripe, held, event, sent, row, customers, hook, count>>

CheckoutCustomer(k) ==
    /\ checkout[k].pc = "customer"
    /\ customers' = customers \cup {k}
    /\ checkout' = [checkout EXCEPT ![k] = [pc |-> "session", customer |-> k]]
    /\ UNCHANGED <<now, stripe, held, event, sent, row, hook, count>>

CheckoutSession(k) ==
    /\ checkout[k].pc = "session"
    /\ checkout' = [checkout EXCEPT ![k].pc = "open"]
    /\ row' = IF checkout[k].customer = k THEN [row EXCEPT !.customer = k] ELSE row
    /\ UNCHANGED <<now, stripe, held, event, sent, customers, hook, count>>

\* StripeError, or the request dies: the transaction is rolled back.
CheckoutFails(k) ==
    /\ checkout[k].pc \in {"customer", "session"}
    /\ checkout' = [checkout EXCEPT ![k].pc = "failed"]
    /\ UNCHANGED <<now, stripe, held, event, sent, row, customers, hook, count>>

\* The user pays on Stripe's page.
Pay(k) ==
    /\ checkout[k].pc = "open"
    /\ Cardinality({j \in Checkouts : Live(j)}) < MaxLive
    /\ checkout' = [checkout EXCEPT ![k].pc = "paid"]
    /\ \E p \in Prices :
          Emit(k, [status |-> "active", price |-> p, start |-> now],
               <<"checkout.session.completed", "customer.subscription.updated">>)
    /\ UNCHANGED <<now, row, customers, hook, count>>

-----------------------------------------------------------------------------
(* stripe_webhook and handle_webhook_event.  The events "created" and      *)
(* "updated" of a subscription share a handler.                            *)

NoObject == [status |-> "none", price |-> CHOOSE p \in Prices : TRUE, start |-> 0]

IdleHook == [pc |-> "idle", type |-> "none", sub |-> NoSub, object |-> NoObject,
             seen |-> FreeRow]

\* The webhook route takes event e: the oldest, or one that overtakes others; Stripe
\* may deliver it once more.
Take(e) ==
    /\ e \in event
    /\ \/ /\ \A f \in event : e.at <= f.at
          /\ \/ event' = event \ {e} /\ UNCHANGED count
             \/ Counted("repeat") /\ UNCHANGED event
       \/ /\ \E f \in event : f.at < e.at
          /\ Counted("late")
          /\ event' = event \ {e}

\* _handle_checkout_completed asks Stripe for the subscription first.
HookFetch(h, e) ==
    /\ hook[h].pc = "idle"
    /\ e.type = "checkout.session.completed"
    /\ Take(e)
    /\ hook' = [hook EXCEPT ![h] = [pc |-> "read", type |-> e.type, sub |-> e.sub,
                                    object |-> stripe[e.sub], seen |-> FreeRow]]
    /\ UNCHANGED <<now, stripe, held, sent, row, checkout, customers>>

\* ... and then reads the row.
HookRead(h) ==
    /\ hook[h].pc = "read"
    /\ hook' = [hook EXCEPT ![h].pc = "write", ![h].seen = row]
    /\ UNCHANGED <<now, stripe, held, event, sent, row, checkout, customers, count>>

\* The other handlers read the row with the subscription's id; when there is
\* none, the event is done with.
HookFind(h, e) ==
    /\ hook[h].pc = "idle"
    /\ e.type # "checkout.session.completed"
    /\ Take(e)
    /\ hook' = IF row.sub = e.sub
               THEN [hook EXCEPT ![h] = [pc |-> "write", type |-> e.type, sub |-> e.sub,
                                         object |-> e.object, seen |-> row]]
               ELSE hook
    /\ UNCHANGED <<now, stripe, held, sent, row, checkout, customers>>

\* A bug this could have: the period is written once and not at renewals.
UpdatedOnce(seen, k, s) ==
    [seen EXCEPT !.tier = TierOf(s.price), !.status = s.status, !.sub = k,
                 !.start = IF seen.start = 0 THEN s.start ELSE seen.start]

\* _update_subscription_from_stripe
Updated(seen, k, s) ==
    [seen EXCEPT !.tier = TierOf(s.price), !.status = s.status, !.sub = k, !.start = s.start]

\* A bug this could have: the tier survives the subscription.
HandledKeepTier(h) ==
    LET seen == hook[h].seen
    IN  CASE hook[h].type = "checkout.session.completed" ->
               [Updated(seen, hook[h].sub, hook[h].object)
                  EXCEPT !.customer = checkout[hook[h].sub].customer]
          [] hook[h].type = "customer.subscription.updated" ->
               Updated(seen, hook[h].sub, hook[h].object)
          [] hook[h].type = "customer.subscription.deleted" ->
               [seen EXCEPT !.status = "canceled"]
          [] OTHER -> [seen EXCEPT !.status = "past_due"]

\* What the handler of hook h makes of the row it read.
Handled(h) ==
    LET seen == hook[h].seen
    IN  CASE hook[h].type = "checkout.session.completed" ->
               [Updated(seen, hook[h].sub, hook[h].object)
                  EXCEPT !.customer = checkout[hook[h].sub].customer]
          [] hook[h].type = "customer.subscription.updated" ->
               Updated(seen, hook[h].sub, hook[h].object)
          [] hook[h].type = "customer.subscription.deleted" ->
               [seen EXCEPT !.status = "canceled", !.tier = "free"]
          [] OTHER -> [seen EXCEPT !.status = "past_due"]

HookWrite(h) ==
    /\ hook[h].pc = "write"
    /\ row' = Flushed(hook[h].seen, Handled(h))
    /\ hook' = [hook EXCEPT ![h] = IdleHook]
    /\ UNCHANGED <<now, stripe, held, event, sent, checkout, customers, count>>

\* The handler raises; the route answers 200 all the same.
HookFails(h) ==
    /\ hook[h].pc # "idle"
    /\ Counted("lost")
    /\ hook' = [hook EXCEPT ![h] = IdleHook]
    /\ UNCHANGED <<now, stripe, held, event, sent, row, checkout, customers>>

-----------------------------------------------------------------------------
Init ==
    /\ now = 1
    /\ stripe = [k \in Checkouts |-> NoObject]
    /\ held = [k \in Checkouts |-> {}]
    /\ event = {}
    /\ sent = 0
    /\ row = FreeRow
    /\ checkout = [k \in Checkouts |-> [pc |-> "none", customer |-> NoSub]]
    /\ customers = {}
    /\ hook = [h \in Hooks |-> IdleHook]
    /\ count = [kind \in {"change", "late", "repeat", "lost"} |-> 0]

CheckoutStep(k) ==
    \/ CheckoutRead(k) \/ CheckoutCustomer(k) \/ CheckoutSession(k)
    \/ CheckoutFails(k) \/ Pay(k)

HookStep(h) ==
    \/ \E e \in event : HookFetch(h, e) \/ HookFind(h, e)
    \/ HookRead(h) \/ HookWrite(h) \/ HookFails(h)

Next ==
    \/ \E k \in Checkouts : CheckoutStep(k) \/ Change(k) \/ Renew(k)
    \/ \E h \in Hooks : HookStep(h)
    \/ Tick

Spec == Init /\ [][Next]_billingVars

-----------------------------------------------------------------------------
TypeOK ==
    /\ now \in Nat
    /\ stripe \in [Checkouts -> StripeSub]
    /\ held \in [Checkouts -> SUBSET Prices]
    /\ event \subseteq Event
    /\ sent \in Nat
    /\ row \in Row
    /\ checkout \in [Checkouts -> [pc : {"none", "customer", "session", "open", "paid", "failed"},
                                   customer : Checkouts \cup {NoSub}]]
    /\ customers \subseteq Checkouts
    /\ hook \in [Hooks -> [pc     : {"idle", "read", "write"},
                           type   : EventType \cup {"none"},
                           sub    : Checkouts \cup {NoSub},
                           object : StripeSub,
                           seen   : Row]]
    /\ count \in [{"change", "late", "repeat", "lost"} -> Nat]

\* Every event Stripe created has been handled.
Settled == event = {} /\ \A h \in Hooks : hook[h].pc = "idle"

(* Once all events are handled, the row shows the live subscription as it  *)
(* is at Stripe - tier, status and period - and a canceled one as FREE.    *)
(* Handlers read Stripe or the event, and the row, before they write.      *)
MirrorsStripe ==
    Settled =>
        /\ \A k \in Checkouts : Live(k) =>
              /\ row.sub = k
              /\ row.tier = TierOf(stripe[k].price)
              /\ row.status = stripe[k].status
              /\ row.start = stripe[k].start
        /\ (row.sub # NoSub /\ ~Live(row.sub)) =>
              row.tier = "free" /\ row.status = "canceled"

(* Whatever is late, repeated, lost or handled at the same time, the       *)
(* webhook never shows a tier that the user has not paid for.              *)
Bought(tier) == tier = "free" \/ \E k \in Checkouts : tier \in held[k]

TierWasBought == Bought(row.tier)

(* Why: what Stripe, the events and the handlers under way say of a        *)
(* subscription is a price it has been paid at.                            *)
StripeHeld == \A k \in Checkouts : Sold(k) => stripe[k].price \in held[k]

EventsHeld ==
    \A e \in event :
        /\ Sold(e.sub)
        /\ e.object.status # "none"
        /\ e.object.price \in held[e.sub]

HooksHeld ==
    \A h \in Hooks :
        /\ Bought(hook[h].seen.tier)
        /\ hook[h].pc # "idle" =>
              /\ hook[h].sub \in Checkouts
              /\ hook[h].type \in EventType
              /\ hook[h].object.status # "none"
              /\ Bought(TierOf(hook[h].object.price))

BillingInv == TypeOK /\ StripeHeld /\ EventsHeld /\ HooksHeld /\ TierWasBought

(* models/subscription.py: "One Subscription per user - tracks Stripe      *)
(* state".  A subscription that is being paid for is the one on the row.   *)
PaidIsTracked == Settled => \A k \in Checkouts : Live(k) => row.sub = k

(* create_checkout_session: "Lazily creates a Stripe Customer if the user  *)
(* doesn't have one yet".                                                  *)
OneCustomer == Cardinality(customers) <= 1

\* Checkouts and requests are alike.
CheckoutAndHookSymmetry == Permutations(Checkouts) \cup Permutations(Hooks)
=============================================================================
