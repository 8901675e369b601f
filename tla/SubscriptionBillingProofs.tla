--------------------- MODULE SubscriptionBillingProofs ---------------------
(***************************************************************************)
(* The tier on the row was always bought, however the events of Stripe     *)
(* arrive and however many handlers and checkouts run at a time; the row   *)
(* mirrors Stripe once everything is told, if it is told in order; and     *)
(* no run begins beyond the plan that is paid for, and FREE is exceeded by *)
(* no more than the runs under way at once.                                *)
(***************************************************************************)
EXTENDS SubscriptionQuota, FiniteSetTheorems, TLAPS

Kinds == {"change", "late", "repeat", "lost"}

\* What an idle hook holds has the types of the columns.
LEMMA NoObjectType == NoObject \in StripeSub /\ FreeRow \in Row /\ NoObject.status = "none"
<1>1. (CHOOSE p \in Prices : TRUE) \in Prices
  BY NamesAssumption
<1>2. QED
  BY <1>1 DEF NoObject, StripeSub, FreeRow, Row, Tier

\* A bound that is used leaves a table of numbers.
LEMMA CountedType ==
    ASSUME count \in [Kinds -> Nat], NEW kind \in Kinds, Counted(kind)
    PROVE  count' \in [Kinds -> Nat]
BY DEF Counted, Kinds

\* PRICE_TO_TIER: always a tier, and a bought one if the price was paid.
LEMMA TierOfPrice ==
    ASSUME NEW k \in Checkouts, NEW p \in Prices
    PROVE  /\ TierOf(p) \in Tier
           /\ p \in held[k] => Bought(TierOf(p))
BY DEF TierOf, Tier, Bought

\* A flush leaves a row, and its tier is the one that was there or the new one.
LEMMA FlushedType ==
    ASSUME row \in Row, NEW seen \in Row, NEW new \in Row
    PROVE  /\ Flushed(seen, new) \in Row
           /\ Flushed(seen, new).tier \in {row.tier, new.tier}
BY DEF Flushed, Column, Row

\* What was bought stays bought.
LEMMA BoughtStays ==
    ASSUME \A k \in Checkouts : held[k] \subseteq held'[k],
           NEW tier, Bought(tier)
    PROVE  Bought(tier)'
BY DEF Bought

\* Stripe sells or changes a subscription and creates events.
LEMMA EmitInv ==
    ASSUME BillingInv,
           NEW k \in Checkouts, NEW s \in StripeSub, s.status # "none",
           s.price \in held[k] \/ s.status = "active",
           NEW types \in Seq(EventType), Emit(k, s, types),
           row' = row, hook' = hook
    PROVE  /\ stripe' \in [Checkouts -> StripeSub]
           /\ held' \in [Checkouts -> SUBSET Prices]
           /\ event' \subseteq Event
           /\ sent' \in Nat
           /\ StripeHeld' /\ EventsHeld' /\ HooksHeld' /\ TierWasBought'
<1> USE DEF BillingInv
<1>1. stripe' \in [Checkouts -> StripeSub] /\ held' \in [Checkouts -> SUBSET Prices]
  BY DEF Emit, TypeOK, StripeSub
<1>2. sent' \in Nat
  BY DEF Emit, TypeOK
<1>3. \A j \in Checkouts : held[j] \subseteq held'[j]
  BY DEF Emit, TypeOK
<1>4. s.price \in held'[k]
  BY DEF Emit, TypeOK
<1>5. \A e \in event' : \/ e \in event
                        \/ e \in Event /\ e.sub = k /\ e.object = s
  <2> SUFFICES ASSUME NEW i \in DOMAIN types
               PROVE  [type |-> types[i], sub |-> k, object |-> s, at |-> sent + i] \in Event
    BY DEF Emit
  <2>1. types[i] \in EventType /\ i \in Nat
    OBVIOUS
  <2>2. sent + i \in Nat
    BY <2>1 DEF TypeOK
  <2> QED
    BY <2>1, <2>2 DEF Event
<1>6. event' \subseteq Event
  BY <1>5 DEF TypeOK
<1>7. StripeHeld'
  BY <1>3, <1>4 DEF StripeHeld, Sold, Emit, TypeOK
<1>8. EventsHeld'
  <2> SUFFICES ASSUME NEW e \in event'
               PROVE  /\ Sold(e.sub)'
                      /\ e.object.status # "none"
                      /\ e.object.price \in held'[e.sub]
    BY DEF EventsHeld
  <2>1. CASE e \in event
    <3>1. e.sub \in Checkouts
      BY <2>1 DEF TypeOK, Event
    <3>2. Sold(e.sub) /\ e.object.status # "none" /\ e.object.price \in held[e.sub]
      BY <2>1 DEF EventsHeld
    <3>3. Sold(e.sub)'
      BY <3>1, <3>2 DEF Sold, Emit, TypeOK
    <3>4. QED
      BY <1>3, <3>1, <3>2, <3>3
  <2>2. CASE e.sub = k /\ e.object = s
    <3>1. Sold(k)'
      BY DEF Sold, Emit, TypeOK
    <3>2. QED
      BY <2>2, <1>4, <3>1
  <2>3. QED
    BY <1>5, <2>1, <2>2
<1>9. HooksHeld'
  <2> SUFFICES ASSUME NEW h \in Hooks
               PROVE  /\ Bought(hook[h].seen.tier)'
                      /\ hook[h].pc # "idle" =>
                            /\ hook[h].sub \in Checkouts
                            /\ hook[h].type \in EventType
                            /\ hook[h].object.status # "none"
                            /\ Bought(TierOf(hook[h].object.price))'
    BY DEF HooksHeld
  <2>1. QED
    BY <1>3, BoughtStays DEF HooksHeld
<1>10. TierWasBought'
  BY <1>3, BoughtStays DEF TierWasBought
<1>11. QED
  BY <1>1, <1>2, <1>6, <1>7, <1>8, <1>9, <1>10

-----------------------------------------------------------------------------
\* Stripe: the bank and the user, renewals, and a paid checkout.
LEMMA StripeSteps ==
    ASSUME BillingInv, NEW k \in Checkouts, Change(k) \/ Renew(k) \/ Pay(k)
    PROVE  BillingInv'
<1> USE DEF BillingInv
<1>1. stripe[k] \in StripeSub /\ held[k] \subseteq Prices
  BY DEF TypeOK
<1>2. \A types \in Seq(EventType), s \in StripeSub :
         (/\ Emit(k, s, types)
          /\ s.status # "none"
          /\ s.price \in held[k] \/ s.status = "active"
          /\ row' = row /\ hook' = hook)
         => /\ stripe' \in [Checkouts -> StripeSub]
            /\ held' \in [Checkouts -> SUBSET Prices]
            /\ event' \subseteq Event
            /\ sent' \in Nat
            /\ StripeHeld' /\ EventsHeld' /\ HooksHeld' /\ TierWasBought'
  BY EmitInv
<1>3. CASE Change(k)
  <2>1. PICK types \in Seq(EventType), s \in StripeSub :
           /\ Emit(k, s, types)
           /\ s.status # "none"
           /\ s.price \in held[k] \/ s.status = "active"
    <3>1. CASE /\ stripe[k].status = "active"
               /\ Emit(k, [stripe[k] EXCEPT !.status = "past_due"],
                       <<"customer.subscription.updated", "invoice.payment_failed">>)
      <4>1. <<"customer.subscription.updated", "invoice.payment_failed">> \in Seq(EventType)
        BY DEF EventType
      <4>2. [stripe[k] EXCEPT !.status = "past_due"] \in StripeSub
        BY <1>1 DEF StripeSub
      <4>3. stripe[k].price \in held[k]
        BY <3>1 DEF StripeHeld, Sold
      <4>4. QED
        BY <1>1, <3>1, <4>1, <4>2, <4>3 DEF StripeSub
    <3>2. CASE /\ stripe[k].status = "past_due"
               /\ Emit(k, [stripe[k] EXCEPT !.status = "active"],
                       <<"customer.subscription.updated">>)
      <4>1. <<"customer.subscription.updated">> \in Seq(EventType)
        BY DEF EventType
      <4>2. [stripe[k] EXCEPT !.status = "active"] \in StripeSub
        BY <1>1 DEF StripeSub
      <4>3. QED
        BY <1>1, <3>2, <4>1, <4>2 DEF StripeSub
    <3>3. CASE /\ stripe[k].status = "active"
               /\ \E p \in Prices \ {stripe[k].price} :
                     Emit(k, [stripe[k] EXCEPT !.price = p],
                          <<"customer.subscription.updated">>)
      <4>1. PICK p \in Prices : Emit(k, [stripe[k] EXCEPT !.price = p],
                                      <<"customer.subscription.updated">>)
        BY <3>3
      <4>2. <<"customer.subscription.updated">> \in Seq(EventType)
        BY DEF EventType
      <4>3. [stripe[k] EXCEPT !.price = p] \in StripeSub
        BY <1>1 DEF StripeSub
      <4>4. QED
        BY <1>1, <3>3, <4>1, <4>2, <4>3 DEF StripeSub
    <3>4. CASE /\ Live(k)
               /\ Emit(k, [stripe[k] EXCEPT !.status = "canceled"],
                       <<"customer.subscription.deleted">>)
      <4>1. <<"customer.subscription.deleted">> \in Seq(EventType)
        BY DEF EventType
      <4>2. [stripe[k] EXCEPT !.status = "canceled"] \in StripeSub
        BY <1>1 DEF StripeSub
      <4>3. stripe[k].price \in held[k]
        BY <3>4 DEF StripeHeld, Sold, Live
      <4>4. QED
        BY <1>1, <3>4, <4>1, <4>2, <4>3 DEF StripeSub
    <3>5. QED
      BY <1>3, <3>1, <3>2, <3>3, <3>4 DEF Change
  <2>2. row' = row /\ hook' = hook /\ now' = now /\ checkout' = checkout
        /\ customers' = customers /\ Counted("change")
    BY <1>3 DEF Change
  <2>3. count' \in [Kinds -> Nat]
    BY <2>2, CountedType DEF TypeOK, Kinds
  <2>4. QED
    BY <1>2, <2>1, <2>2, <2>3 DEF TypeOK, Kinds
<1>4. CASE Renew(k)
  <2>1. <<"customer.subscription.updated">> \in Seq(EventType)
    BY DEF EventType
  <2>2. [stripe[k] EXCEPT !.start = now] \in StripeSub
    BY <1>1 DEF StripeSub, TypeOK
  <2>3. stripe[k].price \in held[k] /\ stripe[k].status # "none"
    BY <1>4 DEF Renew, StripeHeld, Sold, Live
  <2>4. /\ Emit(k, [stripe[k] EXCEPT !.start = now], <<"customer.subscription.updated">>)
        /\ UNCHANGED <<now, row, checkout, customers, hook, count>>
    BY <1>4 DEF Renew
  <2>5. /\ [stripe[k] EXCEPT !.start = now].status = stripe[k].status
        /\ [stripe[k] EXCEPT !.start = now].price = stripe[k].price
    BY <1>1 DEF StripeSub
  <2>6. QED
    BY <1>2, <2>1, <2>2, <2>3, <2>4, <2>5 DEF TypeOK
<1>5. CASE Pay(k)
  <2>1. <<"checkout.session.completed", "customer.subscription.updated">> \in Seq(EventType)
    BY DEF EventType
  <2>2. PICK p \in Prices :
           Emit(k, [status |-> "active", price |-> p, start |-> now],
                <<"checkout.session.completed", "customer.subscription.updated">>)
    BY <1>5 DEF Pay
  <2>3. [status |-> "active", price |-> p, start |-> now] \in StripeSub
    BY DEF StripeSub, TypeOK
  <2>4. /\ UNCHANGED <<now, row, customers, hook, count>>
        /\ checkout' = [checkout EXCEPT ![k].pc = "paid"]
    BY <1>5 DEF Pay
  <2>5. checkout' \in [Checkouts -> [pc : {"none", "customer", "session", "open", "paid", "failed"},
                                      customer : Checkouts \cup {NoSub}]]
    BY <2>4 DEF TypeOK
  <2>6. /\ stripe' \in [Checkouts -> StripeSub]
        /\ held' \in [Checkouts -> SUBSET Prices]
        /\ event' \subseteq Event
        /\ sent' \in Nat
        /\ StripeHeld' /\ EventsHeld' /\ HooksHeld' /\ TierWasBought'
    <3> DEFINE s == [status |-> "active", price |-> p, start |-> now]
    <3>1. s \in StripeSub /\ s.status = "active" /\ s.status # "none"
      BY <2>3
    <3>2. QED
      BY <1>2, <2>1, <2>2, <2>4, <3>1
  <2>7. QED
    BY <2>4, <2>5, <2>6 DEF TypeOK
<1>6. QED
  BY <1>3, <1>4, <1>5

-----------------------------------------------------------------------------
\* A step that leaves Stripe, its events, the tier and the hooks alone.
LEMMA Untouched ==
    ASSUME BillingInv, TypeOK', UNCHANGED <<stripeVars, hook>>, row'.tier = row.tier
    PROVE  BillingInv'
BY DEF BillingInv, StripeHeld, EventsHeld, HooksHeld, TierWasBought, Bought, Sold, stripeVars

\* The requests for a checkout write no tier.
LEMMA CheckoutSteps ==
    ASSUME BillingInv, NEW k \in Checkouts,
           \/ CheckoutRead(k) \/ CheckoutCustomer(k)
           \/ CheckoutSession(k) \/ CheckoutFails(k)
    PROVE  BillingInv'
<1>1. TypeOK
  BY DEF BillingInv
<1>2. CASE CheckoutRead(k)
  <2>1. TypeOK'
    BY <1>1, <1>2 DEF TypeOK, CheckoutRead, Row
  <2>2. QED
    BY <1>2, <2>1, Untouched DEF CheckoutRead, stripeVars
<1>3. CASE CheckoutCustomer(k)
  <2>1. TypeOK'
    BY <1>1, <1>3 DEF TypeOK, CheckoutCustomer
  <2>2. QED
    BY <1>3, <2>1, Untouched DEF CheckoutCustomer, stripeVars
<1>4. CASE CheckoutSession(k)
  <2>1. row' \in Row /\ row'.tier = row.tier
    BY <1>1, <1>4 DEF TypeOK, CheckoutSession, Row
  <2>2. TypeOK'
    BY <1>1, <1>4, <2>1 DEF TypeOK, CheckoutSession
  <2>3. QED
    BY <1>4, <2>1, <2>2, Untouched DEF CheckoutSession, stripeVars
<1>5. CASE CheckoutFails(k)
  <2>1. TypeOK'
    BY <1>1, <1>5 DEF TypeOK, CheckoutFails
  <2>2. QED
    BY <1>5, <2>1, Untouched DEF CheckoutFails, stripeVars
<1>6. QED
  BY <1>2, <1>3, <1>4, <1>5

\* Time passes.
LEMMA TickStep == ASSUME BillingInv, Tick PROVE BillingInv'
<1>1. TypeOK'
  BY DEF BillingInv, TypeOK, Tick
<1>2. QED
  BY <1>1, Untouched DEF Tick, stripeVars

-----------------------------------------------------------------------------
\* The webhook takes events and does not make any.
LEMMA TakeEvents ==
    ASSUME TypeOK, NEW e, Take(e)
    PROVE  /\ e \in event /\ e \in Event
           /\ event' \subseteq event
           /\ count' \in [Kinds -> Nat]
<1>1. e \in event /\ e \in Event
  BY DEF Take, TypeOK
<1>2. event' \subseteq event
  BY DEF Take
<1>3. count' \in [Kinds -> Nat]
  BY CountedType DEF Take, TypeOK, Kinds
<1>4. QED
  BY <1>1, <1>2, <1>3

\* A hook in a state that agrees with what was bought, the row being left alone.
LEMMA HookSteps ==
    ASSUME BillingInv, NEW h \in Hooks,
           \/ \E e \in event : HookFetch(h, e) \/ HookFind(h, e)
           \/ HookRead(h) \/ HookFails(h)
    PROVE  BillingInv'
<1>1. TypeOK /\ StripeHeld /\ EventsHeld /\ HooksHeld /\ TierWasBought
  BY DEF BillingInv
<1>2. UNCHANGED <<now, stripe, held, sent, row, checkout, customers>>
  BY DEF HookFetch, HookFind, HookRead, HookFails
<1>3. event' \subseteq event /\ count' \in [Kinds -> Nat]
  <2>1. CASE \E e \in event : HookFetch(h, e) \/ HookFind(h, e)
    BY <1>1, <2>1, TakeEvents DEF HookFetch, HookFind
  <2>2. CASE HookRead(h)
    BY <1>1, <2>2 DEF HookRead, TypeOK, Kinds
  <2>3. CASE HookFails(h)
    BY <1>1, <2>3, CountedType DEF HookFails, TypeOK, Kinds
  <2>4. QED
    BY <2>1, <2>2, <2>3
<1>4. StripeHeld' /\ EventsHeld' /\ TierWasBought'
  BY <1>1, <1>2, <1>3 DEF StripeHeld, EventsHeld, TierWasBought, Bought, Sold
<1> DEFINE HookType == [pc     : {"idle", "read", "write"},
                        type   : EventType \cup {"none"},
                        sub    : Checkouts \cup {NoSub},
                        object : StripeSub,
                        seen   : Row]
           Agrees(r) == /\ Bought(r.seen.tier)
                        /\ r.pc # "idle" => /\ r.sub \in Checkouts
                                            /\ r.type \in EventType
                                            /\ r.object.status # "none"
                                            /\ Bought(TierOf(r.object.price))
<1>5. \E r \in HookType : Agrees(r) /\ hook' = [hook EXCEPT ![h] = r]
  <2>0. Bought(FreeRow.tier)
    BY DEF FreeRow, Bought
  <2>1. ASSUME NEW e \in event, HookFetch(h, e)
        PROVE  \E r \in HookType : Agrees(r) /\ hook' = [hook EXCEPT ![h] = r]
    <3> DEFINE r == [pc |-> "read", type |-> e.type, sub |-> e.sub,
                     object |-> stripe[e.sub], seen |-> FreeRow]
    <3>1. e \in Event /\ stripe[e.sub] \in StripeSub
      BY <1>1 DEF TypeOK, Event
    <3>2. r \in HookType
      BY <3>1, NoObjectType DEF Event
    <3>3. stripe[e.sub].status # "none" /\ stripe[e.sub].price \in held[e.sub]
      BY <1>1, <3>1 DEF EventsHeld, StripeHeld, Sold, Event
    <3>4. Bought(TierOf(stripe[e.sub].price))
      BY <3>1, <3>3, TierOfPrice DEF Event, StripeSub
    <3>5. Agrees(r)
      BY <2>0, <3>1, <3>3, <3>4 DEF Event
    <3>6. QED
      BY <2>1, <3>2, <3>5 DEF HookFetch
  <2>2. ASSUME NEW e \in event, HookFind(h, e)
        PROVE  \E r \in HookType : Agrees(r) /\ hook' = [hook EXCEPT ![h] = r]
    <3> DEFINE r == [pc |-> "write", type |-> e.type, sub |-> e.sub,
                     object |-> e.object, seen |-> row]
    <3>1. e \in Event
      BY <1>1 DEF TypeOK
    <3>2. r \in HookType
      BY <1>1, <3>1 DEF Event, TypeOK
    <3>3. e.object.status # "none" /\ e.object.price \in held[e.sub]
      BY <1>1 DEF EventsHeld
    <3>4. Bought(TierOf(e.object.price))
      BY <3>1, <3>3, TierOfPrice DEF Event, StripeSub
    <3>5. Agrees(r)
      BY <1>1, <3>1, <3>3, <3>4 DEF Event, TierWasBought
    <3>6. CASE row.sub = e.sub
      BY <2>2, <3>2, <3>5, <3>6 DEF HookFind
    <3>7. CASE row.sub # e.sub
      <4>1. hook' = [hook EXCEPT ![h] = hook[h]]
        BY <1>1, <2>2, <3>7 DEF HookFind, TypeOK
      <4>2. hook[h] \in HookType /\ Agrees(hook[h])
        BY <1>1 DEF TypeOK, HooksHeld
      <4>3. QED
        BY <4>1, <4>2
    <3>8. QED
      BY <3>6, <3>7
  <2>3. CASE HookRead(h)
    <3> DEFINE r == [hook[h] EXCEPT !.pc = "write", !.seen = row]
    <3>1. hook[h] \in HookType /\ row \in Row
      BY <1>1 DEF TypeOK
    <3>2. r \in HookType
      BY <3>1
    <3>3. Agrees(r)
      BY <1>1, <2>3, <3>1 DEF HookRead, HooksHeld, TierWasBought
    <3>4. hook' = [hook EXCEPT ![h] = r]
      BY <1>1, <2>3 DEF HookRead, TypeOK
    <3>5. QED
      BY <3>2, <3>3, <3>4
  <2>4. CASE HookFails(h)
    BY <2>0, <2>4, NoObjectType DEF HookFails, IdleHook
  <2>5. QED
    BY <2>1, <2>2, <2>3, <2>4
<1>6. PICK r \in HookType : Agrees(r) /\ hook' = [hook EXCEPT ![h] = r]
  BY <1>5
<1>7. HooksHeld'
  BY <1>1, <1>2, <1>6 DEF HooksHeld, Bought, TypeOK
<1>8. TypeOK'
  BY <1>1, <1>2, <1>3, <1>6 DEF TypeOK, Kinds
<1>9. QED
  BY <1>4, <1>7, <1>8 DEF BillingInv

\* A handler writes: a row, with the tier it read, FREE, or that of a paid price.
LEMMA HandledType ==
    ASSUME BillingInv, NEW h \in Hooks, hook[h].pc = "write"
    PROVE  Handled(h) \in Row /\ Bought(Handled(h).tier)
<1> DEFINE r == hook[h]
           k == hook[h].sub
           s == hook[h].object
<1>1. /\ r.seen \in Row /\ s \in StripeSub
      /\ \A j \in Checkouts : checkout[j].customer \in Checkouts \cup {NoSub}
  BY DEF BillingInv, TypeOK
<1>2. /\ k \in Checkouts /\ r.type \in EventType /\ s.status # "none"
      /\ Bought(TierOf(s.price)) /\ Bought(r.seen.tier)
  BY DEF BillingInv, HooksHeld
<1>3. TierOf(s.price) \in Tier /\ "free" \in Tier /\ Bought("free")
  BY <1>1, <1>2, TierOfPrice DEF StripeSub, Tier, Bought
<1>4. s.status \in {"active", "past_due", "canceled"} /\ s.start \in Nat
  BY <1>1, <1>2 DEF StripeSub
<1>5. Updated(r.seen, k, s) \in Row /\ Updated(r.seen, k, s).tier = TierOf(s.price)
  BY <1>1, <1>2, <1>3, <1>4 DEF Updated, Row
<1>6. CASE r.type = "checkout.session.completed"
  <2>1. Handled(h) = [Updated(r.seen, k, s) EXCEPT !.customer = checkout[k].customer]
    BY <1>6 DEF Handled
  <2>2. QED
    BY <1>1, <1>2, <1>5, <2>1 DEF Row
<1>7. CASE r.type = "customer.subscription.updated"
  <2>1. Handled(h) = Updated(r.seen, k, s)
    BY <1>7 DEF Handled
  <2>2. QED
    BY <1>2, <1>5, <2>1
<1>8. CASE r.type = "customer.subscription.deleted"
  <2>1. Handled(h) = [r.seen EXCEPT !.status = "canceled", !.tier = "free"]
    BY <1>8 DEF Handled
  <2>2. QED
    BY <1>1, <1>3, <2>1 DEF Row
<1>9. CASE r.type = "invoice.payment_failed"
  <2>1. Handled(h) = [r.seen EXCEPT !.status = "past_due"]
    BY <1>9 DEF Handled
  <2>2. QED
    BY <1>1, <1>2, <2>1 DEF Row
<1>10. QED
  BY <1>2, <1>6, <1>7, <1>8, <1>9 DEF EventType

LEMMA HookWriteStep ==
    ASSUME BillingInv, NEW h \in Hooks, HookWrite(h)
    PROVE  BillingInv'
<1>1. TypeOK /\ StripeHeld /\ EventsHeld /\ HooksHeld /\ TierWasBought
  BY DEF BillingInv
<1>2. /\ UNCHANGED <<now, stripe, held, event, sent, checkout, customers, count>>
      /\ hook' = [hook EXCEPT ![h] = IdleHook]
      /\ row' = Flushed(hook[h].seen, Handled(h))
      /\ hook[h].pc = "write"
  BY DEF HookWrite
<1>3. Handled(h) \in Row /\ Bought(Handled(h).tier) /\ hook[h].seen \in Row /\ row \in Row
  BY <1>1, <1>2, HandledType DEF TypeOK
<1>4. row' \in Row /\ Bought(row'.tier)
  BY <1>1, <1>2, <1>3, FlushedType DEF TierWasBought
<1>5. IdleHook.pc = "idle" /\ IdleHook.seen.tier = "free"
  BY DEF IdleHook, FreeRow
<1>6. HooksHeld' /\ TierWasBought'
  BY <1>1, <1>2, <1>4, <1>5 DEF HooksHeld, TierWasBought, Bought, TypeOK
<1>7. TypeOK'
  BY <1>1, <1>2, <1>4, NoObjectType DEF TypeOK, IdleHook
<1>8. StripeHeld' /\ EventsHeld'
  BY <1>1, <1>2 DEF StripeHeld, EventsHeld, Sold
<1>9. QED
  BY <1>6, <1>7, <1>8 DEF BillingInv

-----------------------------------------------------------------------------
LEMMA InitBilling == Init => BillingInv
<1> SUFFICES ASSUME Init PROVE BillingInv
  OBVIOUS
<1>1. TypeOK
  BY NoObjectType DEF Init, TypeOK, IdleHook
<1>2. StripeHeld /\ EventsHeld /\ TierWasBought
  BY NoObjectType DEF Init, StripeHeld, EventsHeld, TierWasBought, Bought, Sold, FreeRow
<1>3. HooksHeld
  BY DEF Init, HooksHeld, IdleHook, Bought, FreeRow
<1>4. QED
  BY <1>1, <1>2, <1>3 DEF BillingInv

LEMMA NextBilling == BillingInv /\ [Next]_billingVars => BillingInv'
<1> SUFFICES ASSUME BillingInv, [Next]_billingVars PROVE BillingInv'
  OBVIOUS
<1>1. ASSUME NEW k \in Checkouts, CheckoutStep(k) \/ Change(k) \/ Renew(k)
      PROVE  BillingInv'
  BY <1>1, CheckoutSteps, StripeSteps DEF CheckoutStep
<1>2. ASSUME NEW h \in Hooks, HookStep(h)
      PROVE  BillingInv'
  BY <1>2, HookSteps, HookWriteStep DEF HookStep
<1>3. CASE Tick
  BY <1>3, TickStep
<1>4. CASE UNCHANGED billingVars
  BY <1>4 DEF billingVars, BillingInv, TypeOK, StripeHeld, EventsHeld, HooksHeld,
              TierWasBought, Bought, Sold
<1>5. QED
  BY <1>1, <1>2, <1>3, <1>4 DEF Next

\* The inductive invariant: types, and prices that were paid wherever they are found.
THEOREM BillingInvariance == Spec => []BillingInv
BY InitBilling, NextBilling, PTL DEF Spec

\* The tier on the row of a user was always paid for, whatever is late, repeated,
\* lost or handled at the same time (handle_webhook_event, create_checkout_session).
THEOREM TierIsBought == Spec => []TierWasBought
<1>1. BillingInv => TierWasBought
  BY DEF BillingInv
<1>2. QED
  BY <1>1, BillingInvariance, PTL

\* The columns, events and requests keep their types.
THEOREM BillingTypes == Spec => []TypeOK
<1>1. BillingInv => TypeOK
  BY DEF BillingInv
<1>2. QED
  BY <1>1, BillingInvariance, PTL

-----------------------------------------------------------------------------
(* What the row says when events are handled one at a time, in order.      *)

\* One webhook request at a time, no event late or lost, one live subscription.
InOrder ==
  /\ MaxLive = 1 /\ MaxLate = 0 /\ MaxLost = 0
  /\ \A g, h \in Hooks : g = h

Completed == "checkout.session.completed"
UpdatedType == "customer.subscription.updated"
Deleted == "customer.subscription.deleted"
Failed == "invoice.payment_failed"

Of(k) == {e \in event : e.sub = k}
Busy(h, k) == hook[h].pc # "idle" /\ hook[h].sub = k
\* The first event of k is still to be handled.
Unopened(k) == \E c \in Of(k) : c.type = Completed

OneLive == \A j, k \in Checkouts : Live(j) /\ Live(k) => j = k
PaidOnce == \A k \in Checkouts : checkout[k].pc # "paid" => ~ Sold(k)

EventOrder ==
  /\ \A e \in event : e.at <= sent
  /\ \A e, f \in event : e.at = f.at => e = f
  /\ \A c, f \in event : c.sub = f.sub /\ c.type = Completed => c.at <= f.at

\* What is told of a subscription after an event of another one begins at its start.
InTurn ==
  \A e \in event, k \in Checkouts :
    k # e.sub /\ (Live(k) \/ \E f \in Of(k) : f.at > e.at) =>
      \E c \in Of(k) : c.type = Completed /\ c.at > e.at

\* What a handler works on was sold, is what it read, and comes before the rest.
HookInTurn ==
  \A h \in Hooks : hook[h].pc # "idle" =>
    /\ Sold(hook[h].sub)
    /\ hook[h].pc = "read" => hook[h].type = Completed
    /\ hook[h].pc = "write" =>
         /\ hook[h].seen.tier = row.tier /\ hook[h].seen.status = row.status
         /\ hook[h].seen.sub = row.sub /\ hook[h].seen.start = row.start
    /\ hook[h].type # Completed => ~ Unopened(hook[h].sub)
    /\ \A k \in Checkouts : k # hook[h].sub /\ (Live(k) \/ Of(k) # {}) => Unopened(k)

\* The row has the subscription of which something is left to tell.
RowInTurn ==
  /\ row.sub # NoSub => Sold(row.sub)
  /\ \A k \in Checkouts :
       /\ Sold(k) /\ ~ Unopened(k)
       /\ \A h \in Hooks : Busy(h, k) => hook[h].type # Completed
       /\ Live(k) \/ Of(k) # {} \/ \E h \in Hooks : Busy(h, k)
       => row.sub = k

\* A refused payment changes the status to what it is already.
Echo(k, f) == f.type = Failed /\ stripe[k].status = "past_due"
Shown(k) ==
  /\ row.sub = k /\ row.tier = TierOf(stripe[k].price)
  /\ row.status = stripe[k].status /\ row.start = stripe[k].start

\* The last thing told of a live subscription is what it is.
ToBeRead(k) ==
  \E e \in Of(k) : /\ e.type = UpdatedType /\ e.object = stripe[k]
                   /\ \A f \in Of(k) : f.at > e.at => Echo(k, f)
ToBeWritten(k) ==
  /\ \E h \in Hooks : /\ Busy(h, k) /\ hook[h].type = UpdatedType /\ hook[h].object = stripe[k]
  /\ \A f \in Of(k) : Echo(k, f)
Written(k) ==
  /\ Shown(k) /\ \A f \in Of(k) : Echo(k, f)
  /\ \A h \in Hooks : Busy(h, k) => Echo(k, hook[h])
LiveIsTold == \A k \in Checkouts : Live(k) => ToBeRead(k) \/ ToBeWritten(k) \/ Written(k)

\* ... and of a canceled one that it is.
EndToBeRead(k) == \E e \in Of(k) : e.type = Deleted /\ \A f \in Of(k) : f.at <= e.at
EndToBeWritten(k) ==
  Of(k) = {} /\ \E h \in Hooks : Busy(h, k) /\ hook[h].type = Deleted
EndWritten(k) ==
  /\ Of(k) = {} /\ \A h \in Hooks : ~ Busy(h, k)
  /\ row.sub = k => row.tier = "free" /\ row.status = "canceled"
EndIsTold ==
  \A k \in Checkouts : Sold(k) /\ ~ Live(k) =>
    EndToBeRead(k) \/ EndToBeWritten(k) \/ EndWritten(k)

Tale ==
  /\ OneLive /\ PaidOnce /\ EventOrder /\ InTurn /\ HookInTurn /\ RowInTurn
  /\ LiveIsTold /\ EndIsTold

\* What a step leaves when it touches neither Stripe nor the webhook.
LEMMA SameTale ==
    ASSUME Tale, UNCHANGED <<stripe, event, sent, hook>>, PaidOnce',
           row'.tier = row.tier, row'.status = row.status, row'.sub = row.sub,
           row'.start = row.start
    PROVE  Tale'
<1>1. \A k \in Checkouts : Live(k)' = Live(k) /\ Sold(k)' = Sold(k) /\ Of(k)' = Of(k)
                           /\ Unopened(k)' = Unopened(k)
  BY DEF Live, Sold, Of, Unopened
<1>2. OneLive' /\ EventOrder' /\ InTurn'
  BY <1>1 DEF Tale, OneLive, EventOrder, InTurn
<1>3. HookInTurn' /\ RowInTurn'
  <2>1. HookInTurn'
    BY DEF Tale, HookInTurn, Live, Sold, Of, Unopened
  <2>2. RowInTurn'
    BY DEF Tale, RowInTurn, Live, Sold, Of, Unopened, Busy
  <2>3. QED
    BY <2>1, <2>2
<1>4. LiveIsTold'
  BY DEF Tale, LiveIsTold, Live, ToBeRead, ToBeWritten, Written, Of, Echo, Busy, Shown
<1>5. EndIsTold'
  BY DEF Tale, EndIsTold, Live, Sold, EndToBeRead, EndToBeWritten, EndWritten, Of, Busy
<1>6. QED
  BY <1>2, <1>3, <1>4, <1>5 DEF Tale

LEMMA InitTale == Init => Tale
<1> SUFFICES ASSUME Init PROVE Tale
  OBVIOUS
<1>1. /\ event = {} /\ \A k \in Checkouts : stripe[k].status = "none"
      /\ row.sub = NoSub /\ \A h \in Hooks : hook[h].pc = "idle"
  BY NoObjectType DEF Init, FreeRow, IdleHook
<1>2. \A k \in Checkouts : ~ Live(k) /\ ~ Sold(k)
  BY <1>1 DEF Live, Sold
<1>3. OneLive /\ PaidOnce /\ EventOrder /\ InTurn /\ HookInTurn
  BY <1>1, <1>2 DEF OneLive, PaidOnce, EventOrder, InTurn, HookInTurn
<1>4. RowInTurn /\ LiveIsTold /\ EndIsTold
  BY <1>1, <1>2 DEF RowInTurn, LiveIsTold, EndIsTold
<1>5. QED
  BY <1>3, <1>4 DEF Tale

\* The user at the checkout, and time: the row changes in its customer at most.
LEMMA CheckoutTale ==
    ASSUME BillingInv, Tale,
           \/ \E k \in Checkouts : \/ CheckoutRead(k) \/ CheckoutCustomer(k)
                                   \/ CheckoutSession(k) \/ CheckoutFails(k)
           \/ Tick
    PROVE  Tale'
<1>1. UNCHANGED <<stripe, event, sent, hook>>
  BY DEF CheckoutRead, CheckoutCustomer, CheckoutSession, CheckoutFails, Tick
<1>2. /\ row'.tier = row.tier /\ row'.status = row.status /\ row'.sub = row.sub
      /\ row'.start = row.start
  <2>1. row' = row \/ \E k : row' = [row EXCEPT !.customer = k]
    BY DEF CheckoutRead, CheckoutCustomer, CheckoutSession, CheckoutFails, Tick
  <2>2. row \in Row
    BY DEF BillingInv, TypeOK
  <2>3. QED
    BY <2>1, <2>2 DEF Row
<1>3. \A k \in Checkouts : checkout'[k].pc # "paid" => checkout[k].pc # "paid"
  <2>1. checkout' = checkout \/
        \E k \in Checkouts : \E c :
          checkout' = [checkout EXCEPT ![k] = c] /\ checkout[k].pc # "paid"
    <3>1. ASSUME NEW k \in Checkouts, CheckoutRead(k) \/ CheckoutCustomer(k)
          PROVE  \E c : checkout' = [checkout EXCEPT ![k] = c] /\ checkout[k].pc # "paid"
      BY <3>1 DEF CheckoutRead, CheckoutCustomer
    <3>2. ASSUME NEW k \in Checkouts, CheckoutSession(k)
          PROVE  \E c : checkout' = [checkout EXCEPT ![k] = c] /\ checkout[k].pc # "paid"
      <4>1. /\ checkout' = [checkout EXCEPT ![k] = [checkout[k] EXCEPT !.pc = "open"]]
            /\ checkout[k].pc = "session"
        BY <3>2 DEF CheckoutSession
      <4>2. QED
        BY <4>1
    <3>3. ASSUME NEW k \in Checkouts, CheckoutFails(k)
          PROVE  \E c : checkout' = [checkout EXCEPT ![k] = c] /\ checkout[k].pc # "paid"
      <4>1. /\ checkout' = [checkout EXCEPT ![k] = [checkout[k] EXCEPT !.pc = "failed"]]
            /\ checkout[k].pc \in {"customer", "session"}
        BY <3>3 DEF CheckoutFails
      <4>2. QED
        BY <4>1
    <3>4. Tick => checkout' = checkout
      BY DEF Tick
    <3>5. QED
      BY <3>1, <3>2, <3>3, <3>4
  <2>2. checkout \in [Checkouts -> [pc : {"none", "customer", "session", "open", "paid", "failed"},
                                    customer : Checkouts \cup {NoSub}]]
    BY DEF BillingInv, TypeOK
  <2>3. QED
    BY <2>1, <2>2
<1>4. PaidOnce'
  BY <1>1, <1>3 DEF Tale, PaidOnce, Sold
<1>5. QED
  BY <1>1, <1>2, <1>4, SameTale

\* Stripe sells k, which opens with its checkout event, or changes it; the last
\* event tells what it is now.
LEMMA EmitTale ==
    ASSUME BillingInv, Tale, NEW k \in Checkouts, NEW s, NEW types \in Seq(EventType),
           Emit(k, s, types), row' = row, hook' = hook, PaidOnce',
           s.status \in {"active", "past_due", "canceled"},
           \/ Live(k) /\ \A i \in DOMAIN types : types[i] # Completed
           \/ /\ ~ Sold(k) /\ \A j \in Checkouts : ~ Live(j)
              /\ 1 \in DOMAIN types /\ types[1] = Completed
              /\ \A i \in DOMAIN types : types[i] = Completed => i = 1,
           s.status # "canceled" =>
             \E i \in DOMAIN types :
               /\ types[i] = UpdatedType
               /\ \A j \in DOMAIN types : j > i => types[j] = Failed /\ s.status = "past_due",
           s.status = "canceled" =>
             \E i \in DOMAIN types : types[i] = Deleted /\ \A j \in DOMAIN types : j <= i
    PROVE  Tale'
<1> DEFINE new(i) == [type |-> types[i], sub |-> k, object |-> s, at |-> sent + i]
           changed == Live(k) /\ \A i \in DOMAIN types : types[i] # Completed
           sold == /\ ~ Sold(k) /\ \A j \in Checkouts : ~ Live(j)
                   /\ 1 \in DOMAIN types /\ types[1] = Completed
                   /\ \A i \in DOMAIN types : types[i] = Completed => i = 1
<1>0. /\ TypeOK /\ EventsHeld /\ HooksHeld
      /\ OneLive /\ EventOrder /\ InTurn /\ HookInTurn /\ RowInTurn /\ LiveIsTold /\ EndIsTold
  BY DEF BillingInv, Tale
<1>1. /\ sent \in Nat /\ \A e \in event : e.at \in Nat /\ e.sub \in Checkouts
      /\ \A i \in DOMAIN types : i \in Nat /\ i >= 1 /\ i <= Len(types)
      /\ Len(types) \in Nat /\ DOMAIN types = 1..Len(types)
  BY <1>0 DEF TypeOK, Event
<1>2. /\ stripe'[k] = s /\ \A j \in Checkouts : j # k => stripe'[j] = stripe[j]
      /\ sent' = sent + Len(types)
      /\ event' = event \cup {new(i) : i \in DOMAIN types}
  BY <1>0 DEF Emit, TypeOK
<1>3. /\ \A i \in DOMAIN types : /\ new(i) \in event' /\ new(i).sub = k /\ new(i).object = s
                                 /\ new(i).type = types[i] /\ new(i).at = sent + i
      /\ \A e \in event' : e \in event \/ \E i \in DOMAIN types : e = new(i)
      /\ event \subseteq event'
  BY <1>2
<1> HIDE DEF new
<1>4. /\ \A i \in DOMAIN types : new(i) \in event' /\ new(i).sub = k /\ new(i).object = s
                                 /\ new(i).type = types[i]
                                 /\ new(i).at \in Nat /\ new(i).at > sent /\ new(i).at <= sent'
      /\ \A i, j \in DOMAIN types : /\ new(i).at = new(j).at => i = j
                                    /\ new(j).at > new(i).at => j > i
                                    /\ j <= i => new(j).at <= new(i).at
      /\ sent' \in Nat /\ sent' >= sent
  <2>1. sent' \in Nat /\ sent' >= sent
    BY <1>1, <1>2
  <2> HIDE DEF changed, sold
  <2>2. ASSUME NEW i \in DOMAIN types
        PROVE  /\ new(i) \in event' /\ new(i).sub = k /\ new(i).object = s
               /\ new(i).type = types[i]
               /\ new(i).at \in Nat /\ new(i).at > sent /\ new(i).at <= sent'
    <3>1. i \in Nat /\ i >= 1 /\ i <= Len(types) /\ new(i).at = sent + i
      BY <1>1, <1>3, <2>2
    <3>2. new(i).at \in Nat /\ new(i).at > sent /\ new(i).at <= sent'
      BY <1>1, <1>2, <3>1
    <3>3. QED
      BY <1>3, <2>2, <3>2
  <2>3. ASSUME NEW i \in DOMAIN types, NEW j \in DOMAIN types
        PROVE  /\ new(i).at = new(j).at => i = j
               /\ new(j).at > new(i).at => j > i
               /\ j <= i => new(j).at <= new(i).at
    <3>1. /\ i \in Nat /\ new(i).at = sent + i
          /\ j \in Nat /\ new(j).at = sent + j
      BY <1>1, <1>3, <2>3
    <3>2. QED
      BY <1>1, <3>1
  <2>4. QED
    BY <2>1, <2>2, <2>3
<1>5. changed \/ sold
  OBVIOUS
<1>6. /\ \A j \in Checkouts : j # k => /\ Of(j)' = Of(j) /\ Sold(j)' = Sold(j)
                                       /\ Live(j)' = Live(j) /\ ~ Live(j)
                                       /\ Unopened(j)' = Unopened(j)
      /\ Sold(k)' /\ (Live(k)' <=> s.status # "canceled")
      /\ Of(k) \subseteq Of(k)' /\ \A i \in DOMAIN types : new(i) \in Of(k)'
      /\ \A e \in Of(k)' : e \in Of(k) \/ \E i \in DOMAIN types : e = new(i)
  <2>1. \A j \in Checkouts : j # k => ~ Live(j)
    BY <1>0, <1>5 DEF OneLive
  <2>2. \A j \in Checkouts : j # k => Of(j)' = Of(j)
    BY <1>3, <1>4 DEF Of
  <2>3. \A j \in Checkouts : j # k => Sold(j)' = Sold(j) /\ Live(j)' = Live(j)
    BY <1>2 DEF Sold, Live
  <2>4. \A j \in Checkouts : j # k => Unopened(j)' = Unopened(j)
    BY <2>2 DEF Unopened
  <2>5. Sold(k)' /\ (Live(k)' <=> s.status # "canceled")
    BY <1>2 DEF Sold, Live
  <2>6. /\ Of(k) \subseteq Of(k)' /\ \A i \in DOMAIN types : new(i) \in Of(k)'
        /\ \A e \in Of(k)' : e \in Of(k) \/ \E i \in DOMAIN types : e = new(i)
    BY <1>3, <1>4 DEF Of
  <2>7. QED
    BY <2>1, <2>2, <2>3, <2>4, <2>5, <2>6
<1>7. sold => Of(k) = {}
  BY <1>0 DEF EventsHeld, Of
<1>8. /\ Unopened(k) => Unopened(k)'
      /\ changed => (Unopened(k)' <=> Unopened(k))
      /\ sold => Unopened(k)'
  BY <1>4, <1>6 DEF Unopened
<1>9. OneLive'
  BY <1>6 DEF OneLive
<1>10. EventOrder'
  <2>1. \A e \in event : e.at <= sent /\ e.at \in Nat
    BY <1>0, <1>1 DEF EventOrder
  <2>2. \A e \in event' : e.at <= sent'
    BY <1>1, <1>3, <1>4, <2>1
  <2>3. ASSUME NEW e \in event', NEW f \in event', e.at = f.at PROVE e = f
    BY <1>0, <1>1, <1>3, <1>4, <2>1, <2>3 DEF EventOrder
  <2>4. ASSUME NEW c \in event', NEW f \in event', c.sub = f.sub, c.type = Completed
        PROVE  c.at <= f.at
    <3>1. CASE c \in event /\ f \in event
      BY <1>0, <2>4, <3>1 DEF EventOrder
    <3>2. CASE c \in event /\ f \notin event
      BY <1>1, <1>3, <1>4, <2>1, <3>2
    <3>3. CASE c \notin event
      <4>1. PICK i \in DOMAIN types : c = new(i)
        BY <1>3, <3>3
      <4>2. sold /\ i = 1
        BY <1>4, <1>5, <2>4, <4>1
      <4>3. PICK j \in DOMAIN types : f = new(j)
        <5>1. f \notin event
          BY <1>4, <1>7, <2>4, <4>1, <4>2 DEF Of
        <5>2. QED
          BY <1>3, <5>1
      <4>4. QED
        BY <1>1, <1>4, <4>1, <4>2, <4>3
    <3>4. QED
      BY <3>1, <3>2, <3>3
  <2>5. QED
    BY <2>2, <2>3, <2>4 DEF EventOrder
<1>11. InTurn'
  <2> SUFFICES ASSUME NEW e \in event', NEW j \in Checkouts, j # e.sub,
                      Live(j)' \/ \E f \in Of(j)' : f.at > e.at
               PROVE  \E c \in Of(j)' : c.type = Completed /\ c.at > e.at
    BY DEF InTurn
  <2>1. CASE j # k
    <3>1. PICK f \in Of(j) : f.at > e.at
      BY <1>6, <2>1
    <3>2. e \in event
      <4>1. f.at <= sent /\ f.at \in Nat
        BY <1>0, <1>1 DEF Of, EventOrder
      <4>2. QED
        BY <1>1, <1>3, <1>4, <3>1, <4>1
    <3>3. QED
      BY <1>0, <1>6, <2>1, <3>1, <3>2 DEF InTurn
  <2>2. CASE j = k
    <3>1. e \in event
      BY <1>3, <1>4, <2>2
    <3>2. CASE changed
      <4>1. \E c \in Of(k) : c.type = Completed /\ c.at > e.at
        BY <1>0, <2>2, <3>1, <3>2 DEF InTurn
      <4>2. QED
        BY <1>6, <2>2, <4>1
    <3>3. CASE sold
      <4>1. e.at <= sent /\ e.at \in Nat
        BY <1>0, <1>1, <3>1 DEF EventOrder
      <4>2. new(1) \in Of(k)' /\ new(1).type = Completed /\ new(1).at > e.at
        BY <1>1, <1>4, <1>6, <3>3, <4>1
      <4>3. QED
        BY <2>2, <4>2
    <3>4. QED
      BY <1>5, <3>2, <3>3
  <2>3. QED
    BY <2>1, <2>2
<1>12. HookInTurn'
  <2> SUFFICES ASSUME NEW h \in Hooks, hook[h].pc # "idle"
               PROVE  /\ Sold(hook[h].sub)'
                      /\ hook[h].type # Completed => ~ Unopened(hook[h].sub)'
                      /\ \A j \in Checkouts : j # hook[h].sub /\ (Live(j)' \/ Of(j)' # {}) =>
                                                Unopened(j)'
    BY <1>0 DEF HookInTurn
  <2>1. /\ Sold(hook[h].sub) /\ hook[h].sub \in Checkouts
        /\ hook[h].type # Completed => ~ Unopened(hook[h].sub)
        /\ \A j \in Checkouts : j # hook[h].sub /\ (Live(j) \/ Of(j) # {}) => Unopened(j)
    BY <1>0 DEF HookInTurn, HooksHeld
  <2>2. QED
    BY <1>5, <1>6, <1>8, <2>1
<1>13. RowInTurn'
  <2>1. row.sub # NoSub => Sold(row.sub)'
    <3>1. row.sub \in Checkouts \cup {NoSub}
      BY <1>0 DEF TypeOK, Row
    <3>2. QED
      BY <1>0, <1>6, <3>1 DEF RowInTurn
  <2>2. ASSUME NEW j \in Checkouts, Sold(j)', ~ Unopened(j)',
               \A h \in Hooks : Busy(h, j)' => hook[h].type # Completed,
               Live(j)' \/ Of(j)' # {} \/ \E h \in Hooks : Busy(h, j)'
        PROVE  row.sub = j
    <3>1. \A h \in Hooks : Busy(h, j)' = Busy(h, j)
      BY DEF Busy
    <3>2. CASE j # k
      BY <1>0, <1>6, <2>2, <3>1, <3>2 DEF RowInTurn
    <3>3. CASE j = k
      <4>1. changed /\ ~ Unopened(k) /\ Live(k) /\ Sold(k)
        BY <1>5, <1>8, <2>2, <3>3 DEF Live, Sold
      <4>2. QED
        BY <1>0, <2>2, <3>1, <3>3, <4>1 DEF RowInTurn
    <3>4. QED
      BY <3>2, <3>3
  <2>3. QED
    BY <2>1, <2>2 DEF RowInTurn
<1>14. LiveIsTold'
  <2> SUFFICES ASSUME s.status # "canceled" PROVE ToBeRead(k)'
    BY <1>6 DEF LiveIsTold
  <2>1. PICK i \in DOMAIN types :
          /\ types[i] = UpdatedType
          /\ \A j \in DOMAIN types : j > i => types[j] = Failed /\ s.status = "past_due"
    OBVIOUS
  <2>2. ASSUME NEW f \in Of(k)', f.at > new(i).at PROVE Echo(k, f)'
    <3>1. f \notin Of(k)
      BY <1>0, <1>1, <1>4, <2>2 DEF EventOrder, Of
    <3>2. PICK j \in DOMAIN types : f = new(j)
      BY <1>6, <3>1
    <3>3. j > i
      BY <1>4, <2>2, <3>2
    <3>4. QED
      BY <1>2, <1>4, <2>1, <3>2, <3>3 DEF Echo
  <2>3. QED
    BY <1>2, <1>4, <1>6, <2>1, <2>2 DEF ToBeRead
<1>15. EndIsTold'
  <2> SUFFICES ASSUME NEW j \in Checkouts, Sold(j)', ~ Live(j)'
               PROVE  (EndToBeRead(j) \/ EndToBeWritten(j) \/ EndWritten(j))'
    BY DEF EndIsTold
  <2>1. CASE j # k
    <3>1. EndToBeRead(j) \/ EndToBeWritten(j) \/ EndWritten(j)
      BY <1>0, <1>6, <2>1 DEF EndIsTold
    <3>2. Of(j)' = Of(j) /\ \A h \in Hooks : Busy(h, j)' = Busy(h, j)
      BY <1>6, <2>1 DEF Busy
    <3>3. QED
      BY <3>1, <3>2 DEF EndToBeRead, EndToBeWritten, EndWritten
  <2>2. CASE j = k
    <3>1. PICK i \in DOMAIN types : types[i] = Deleted /\ \A n \in DOMAIN types : n <= i
      BY <1>6, <2>2
    <3>2. \A f \in Of(k)' : f.at <= new(i).at
      BY <1>0, <1>1, <1>4, <1>6, <3>1 DEF EventOrder, Of
    <3>3. EndToBeRead(k)'
      BY <1>4, <1>6, <3>1, <3>2 DEF EndToBeRead
    <3>4. QED
      BY <2>2, <3>3
  <2>3. QED
    BY <2>1, <2>2
<1>16. QED
  BY <1>9, <1>10, <1>11, <1>12, <1>13, <1>14, <1>15 DEF Tale

\* A live subscription changes.
LEMMA ChangeTale ==
    ASSUME BillingInv, Tale, NEW k \in Checkouts, Live(k), NEW s,
           row' = row, hook' = hook, checkout' = checkout,
           \/ s.status \in {"active", "past_due"} /\ Emit(k, s, <<UpdatedType>>)
           \/ s.status = "past_due" /\ Emit(k, s, <<UpdatedType, Failed>>)
           \/ s.status = "canceled" /\ Emit(k, s, <<Deleted>>)
    PROVE  Tale'
<1>1. PaidOnce'
  <2>1. checkout[k].pc = "paid"
    BY DEF Tale, PaidOnce, Sold, Live
  <2>2. \A j \in Checkouts : j # k => stripe'[j] = stripe[j]
    BY DEF Emit, BillingInv, TypeOK
  <2>3. QED
    BY <2>1, <2>2 DEF Tale, PaidOnce, Sold
<1> DEFINE tells(types) ==
             /\ \A i \in DOMAIN types : types[i] # Completed
             /\ s.status # "canceled" =>
                  \E i \in DOMAIN types :
                    /\ types[i] = UpdatedType
                    /\ \A j \in DOMAIN types : j > i => types[j] = Failed /\ s.status = "past_due"
             /\ s.status = "canceled" =>
                  \E i \in DOMAIN types : types[i] = Deleted /\ \A j \in DOMAIN types : j <= i
<1>2. \E types \in Seq(EventType) : Emit(k, s, types) /\ tells(types)
  <2>1. CASE s.status \in {"active", "past_due"} /\ Emit(k, s, <<UpdatedType>>)
    <3>1. <<UpdatedType>> \in Seq(EventType) /\ tells(<<UpdatedType>>)
      BY <2>1 DEF EventType, UpdatedType, Completed
    <3>2. QED
      BY <2>1, <3>1
  <2>2. CASE s.status = "past_due" /\ Emit(k, s, <<UpdatedType, Failed>>)
    <3>1. <<UpdatedType, Failed>> \in Seq(EventType)
      BY DEF EventType, UpdatedType, Failed
    <3>2. tells(<<UpdatedType, Failed>>)
      <4> DEFINE types == <<UpdatedType, Failed>>
      <4>1. DOMAIN types = {1, 2} /\ types[1] = UpdatedType /\ types[2] = Failed
        OBVIOUS
      <4> HIDE DEF types
      <4>2. tells(types)
        <5>1. \A i \in DOMAIN types : types[i] # Completed
          BY <4>1 DEF UpdatedType, Completed, Failed
        <5>2. \A j \in DOMAIN types : j > 1 => types[j] = Failed /\ s.status = "past_due"
          BY <2>2, <4>1
        <5>3. QED
          BY <2>2, <4>1, <5>1, <5>2
      <4>3. QED
        BY <4>2 DEF types
    <3>3. QED
      BY <2>2, <3>1, <3>2
  <2>3. CASE s.status = "canceled" /\ Emit(k, s, <<Deleted>>)
    <3>1. <<Deleted>> \in Seq(EventType) /\ tells(<<Deleted>>)
      BY <2>3 DEF EventType, Deleted, Completed
    <3>2. QED
      BY <2>3, <3>1
  <2>4. QED
    BY <2>1, <2>2, <2>3
<1>3. s.status \in {"active", "past_due", "canceled"}
  OBVIOUS
<1>4. QED
  BY <1>1, <1>2, <1>3, EmitTale

LEMMA StripeTale ==
    ASSUME InOrder, BillingInv, Tale, NEW k \in Checkouts, Change(k) \/ Renew(k) \/ Pay(k)
    PROVE  Tale'
<1>0. stripe[k] \in StripeSub
  BY DEF BillingInv, TypeOK
<1>1. CASE Change(k)
  <2>1. row' = row /\ hook' = hook /\ checkout' = checkout
    BY <1>1 DEF Change
  <2>2. \E s : Live(k) /\ \/ s.status \in {"active", "past_due"} /\ Emit(k, s, <<UpdatedType>>)
                          \/ s.status = "past_due" /\ Emit(k, s, <<UpdatedType, Failed>>)
                          \/ s.status = "canceled" /\ Emit(k, s, <<Deleted>>)
    <3>1. CASE /\ stripe[k].status = "active"
               /\ Emit(k, [stripe[k] EXCEPT !.status = "past_due"], <<UpdatedType, Failed>>)
      <4>1. [stripe[k] EXCEPT !.status = "past_due"].status = "past_due" /\ Live(k)
        BY <1>0, <3>1 DEF StripeSub, Live
      <4>2. QED
        BY <3>1, <4>1
    <3>2. CASE /\ stripe[k].status = "past_due"
               /\ Emit(k, [stripe[k] EXCEPT !.status = "active"], <<UpdatedType>>)
      <4>1. [stripe[k] EXCEPT !.status = "active"].status = "active" /\ Live(k)
        BY <1>0, <3>2 DEF StripeSub, Live
      <4>2. QED
        BY <3>2, <4>1
    <3>3. CASE /\ stripe[k].status = "active"
               /\ \E p \in Prices \ {stripe[k].price} :
                     Emit(k, [stripe[k] EXCEPT !.price = p], <<UpdatedType>>)
      <4>1. PICK p : Emit(k, [stripe[k] EXCEPT !.price = p], <<UpdatedType>>)
        BY <3>3
      <4>2. [stripe[k] EXCEPT !.price = p].status = "active" /\ Live(k)
        BY <1>0, <3>3 DEF StripeSub, Live
      <4>3. QED
        BY <4>1, <4>2
    <3>4. CASE /\ Live(k)
               /\ Emit(k, [stripe[k] EXCEPT !.status = "canceled"], <<Deleted>>)
      <4>1. [stripe[k] EXCEPT !.status = "canceled"].status = "canceled"
        BY <1>0 DEF StripeSub
      <4>2. QED
        BY <3>4, <4>1
    <3>5. QED
      BY <1>1, <3>1, <3>2, <3>3, <3>4 DEF Change, UpdatedType, Failed, Deleted
  <2>3. QED
    BY <2>1, <2>2, ChangeTale
<1>2. CASE Renew(k)
  <2>1. /\ row' = row /\ hook' = hook /\ checkout' = checkout /\ Live(k)
        /\ Emit(k, [stripe[k] EXCEPT !.start = now], <<UpdatedType>>)
    BY <1>2 DEF Renew, UpdatedType
  <2>2. [stripe[k] EXCEPT !.start = now].status \in {"active", "past_due"}
    BY <1>0, <2>1 DEF StripeSub, Live
  <2>3. QED
    BY <2>1, <2>2, ChangeTale
<1>3. CASE Pay(k)
  <2>1. PICK p \in Prices :
          Emit(k, [status |-> "active", price |-> p, start |-> now], <<Completed, UpdatedType>>)
    BY <1>3 DEF Pay, Completed, UpdatedType
  <2> DEFINE s == [status |-> "active", price |-> p, start |-> now]
             types == <<Completed, UpdatedType>>
  <2>2. /\ row' = row /\ hook' = hook /\ checkout' = [checkout EXCEPT ![k].pc = "paid"]
        /\ checkout[k].pc = "open" /\ Cardinality({j \in Checkouts : Live(j)}) < 1
    BY <1>3 DEF Pay, InOrder
  <2>3. ~ Sold(k)
    BY <2>2 DEF Tale, PaidOnce
  <2>4. \A j \in Checkouts : ~ Live(j)
    <3>1. ASSUME NEW j \in Checkouts, Live(j) PROVE FALSE
      <4>1. {i \in Checkouts : Live(i)} = {j}
        BY <3>1 DEF Tale, OneLive
      <4>2. Cardinality({j}) = 1
        BY FS_Singleton
      <4>3. QED
        BY <2>2, <4>1, <4>2
    <3>2. QED
      BY <3>1
  <2>5. PaidOnce'
    <3>1. /\ checkout'[k].pc = "paid"
          /\ \A j \in Checkouts : j # k => checkout'[j] = checkout[j] /\ stripe'[j] = stripe[j]
      BY <2>1, <2>2 DEF Emit, BillingInv, TypeOK
    <3>2. QED
      BY <3>1 DEF Tale, PaidOnce, Sold
  <2>6. /\ types \in Seq(EventType) /\ DOMAIN types = {1, 2}
        /\ types[1] = Completed /\ types[2] = UpdatedType
    BY DEF EventType, Completed, UpdatedType
  <2>7. s.status = "active" /\ Emit(k, s, types)
    BY <2>1
  <2> HIDE DEF types, s
  <2>8. \E i \in DOMAIN types :
          /\ types[i] = UpdatedType
          /\ \A j \in DOMAIN types : j > i => types[j] = Failed /\ s.status = "past_due"
    <3>1. \A j \in DOMAIN types : ~ (j > 2)
      BY <2>6
    <3>2. QED
      BY <2>6, <3>1
  <2>9. \A i \in DOMAIN types : types[i] = Completed => i = 1
    BY <2>6 DEF Completed, UpdatedType
  <2>10. QED
    BY <2>2, <2>3, <2>4, <2>5, <2>6, <2>7, <2>8, <2>9, EmitTale
<1>4. QED
  BY <1>1, <1>2, <1>3

\* The event that is taken is the oldest.
LEMMA TakeOldest ==
    ASSUME InOrder, BillingInv, Tale, NEW e \in event, Take(e),
           UNCHANGED <<stripe, sent, row, checkout>>
    PROVE  /\ \A f \in event : f # e => e.at < f.at
           /\ \A k \in Checkouts : /\ Of(k)' \subseteq Of(k) /\ Of(k) \ {e} \subseteq Of(k)'
                                   /\ Of(k)' = Of(k) \/ (Of(k)' = Of(k) \ {e} /\ e \in Of(k))
                                   /\ k # e.sub => Of(k)' = Of(k)
                                   /\ Live(k)' = Live(k) /\ Sold(k)' = Sold(k)
                                   /\ k # e.sub /\ (Live(k) \/ Of(k) # {}) => Unopened(k)'
           /\ e.type # Completed => ~ Unopened(e.sub)
           /\ OneLive' /\ PaidOnce' /\ EventOrder' /\ InTurn'
<1>1. /\ count \in [Kinds -> Nat] /\ \A f \in event : f.at \in Nat /\ f.sub \in Checkouts
      /\ OneLive /\ PaidOnce /\ EventOrder /\ InTurn
  BY DEF BillingInv, TypeOK, Kinds, Event, Tale
<1>2. ~ Counted("late")
  BY <1>1 DEF InOrder, Counted, Bound, Kinds
<1>3. \A f \in event : e.at <= f.at
  BY <1>2 DEF Take
<1>4. event' = event \/ event' = event \ {e}
  BY DEF Take
<1>5. \A f \in event : f # e => e.at < f.at
  BY <1>1, <1>3 DEF EventOrder
<1>6. \A k \in Checkouts : /\ Of(k)' \subseteq Of(k) /\ Of(k) \ {e} \subseteq Of(k)'
                           /\ Of(k)' = Of(k) \/ (Of(k)' = Of(k) \ {e} /\ e \in Of(k))
                           /\ k # e.sub => Of(k)' = Of(k)
                           /\ Live(k)' = Live(k) /\ Sold(k)' = Sold(k)
  BY <1>4 DEF Of, Live, Sold
<1>7. ASSUME NEW k \in Checkouts, k # e.sub, Live(k) \/ Of(k) # {}
      PROVE  Unopened(k)'
  <2>1. Live(k) \/ \E f \in Of(k) : f.at > e.at
    <3>1. \A f \in Of(k) : f \in event /\ f # e
      BY <1>7 DEF Of
    <3>2. \A f \in Of(k) : f.at > e.at
      BY <1>1, <1>5, <3>1
    <3>3. QED
      BY <1>7, <3>2
  <2>2. \E c \in Of(k) : c.type = Completed
    BY <1>1, <1>7, <2>1 DEF InTurn
  <2>3. QED
    BY <1>6, <1>7, <2>2 DEF Unopened
<1>8. e.type # Completed => ~ Unopened(e.sub)
  <2> SUFFICES ASSUME e.type # Completed, NEW c \in Of(e.sub), c.type = Completed PROVE FALSE
    BY DEF Unopened
  <2>1. c \in event /\ c.sub = e.sub /\ c # e
    BY DEF Of
  <2>2. c.at <= e.at /\ e.at < c.at /\ c.at \in Nat /\ e.at \in Nat
    BY <1>1, <1>5, <2>1 DEF EventOrder
  <2>3. QED
    BY <2>2
<1>9. OneLive' /\ PaidOnce'
  BY <1>1, <1>6 DEF OneLive, PaidOnce, Sold
<1>10. EventOrder'
  BY <1>1, <1>4 DEF EventOrder
<1>11. InTurn'
  <2> SUFFICES ASSUME NEW x \in event', NEW k \in Checkouts, k # x.sub,
                      Live(k)' \/ \E f \in Of(k)' : f.at > x.at
               PROVE  \E c \in Of(k)' : c.type = Completed /\ c.at > x.at
    BY DEF InTurn
  <2>1. x \in event /\ (Live(k) \/ \E f \in Of(k) : f.at > x.at)
    BY <1>4, <1>6
  <2>2. PICK c \in Of(k) : c.type = Completed /\ c.at > x.at
    BY <1>1, <2>1 DEF InTurn
  <2>3. c # e
    BY <1>1, <1>3, <2>1, <2>2 DEF Of
  <2>4. QED
    BY <1>6, <2>2, <2>3
<1>12. QED
  BY <1>5, <1>6, <1>7, <1>8, <1>9, <1>10, <1>11

LEMMA FetchTale ==
    ASSUME InOrder, BillingInv, Tale, NEW h \in Hooks, NEW e \in event, HookFetch(h, e)
    PROVE  Tale'
<1>1. /\ UNCHANGED <<stripe, sent, row, checkout>> /\ Take(e)
      /\ hook[h].pc = "idle" /\ e.type = Completed /\ \A g \in Hooks : g = h
  BY DEF HookFetch, Completed, InOrder
<1>2. /\ hook'[h].pc = "read" /\ hook'[h].type = Completed /\ hook'[h].sub = e.sub
      /\ e.sub \in Checkouts /\ Sold(e.sub)
  BY DEF HookFetch, BillingInv, TypeOK, Event, EventsHeld, Completed
<1>3. /\ \A f \in event : f # e => e.at < f.at
      /\ \A k \in Checkouts : /\ Of(k)' \subseteq Of(k) /\ Of(k) \ {e} \subseteq Of(k)'
                              /\ Of(k)' = Of(k) \/ (Of(k)' = Of(k) \ {e} /\ e \in Of(k))
                              /\ k # e.sub => Of(k)' = Of(k)
                              /\ Live(k)' = Live(k) /\ Sold(k)' = Sold(k)
                              /\ k # e.sub /\ (Live(k) \/ Of(k) # {}) => Unopened(k)'
      /\ OneLive' /\ PaidOnce' /\ EventOrder' /\ InTurn'
  BY <1>1, TakeOldest
<1>4. \A g \in Hooks, k \in Checkouts : ~ Busy(g, k) /\ (Busy(g, k)' => k = e.sub)
  BY <1>1, <1>2 DEF Busy
<1>5. HookInTurn'
  BY <1>1, <1>2, <1>3 DEF HookInTurn
<1>6. RowInTurn'
  <2>1. row.sub # NoSub => Sold(row.sub)'
    <3>1. row.sub # NoSub => Sold(row.sub)
      BY DEF Tale, RowInTurn
    <3>2. QED
      BY <1>1, <3>1 DEF Sold
  <2>2. ASSUME NEW k \in Checkouts, Sold(k)', ~ Unopened(k)',
               \A g \in Hooks : Busy(g, k)' => hook'[g].type # Completed,
               Live(k)' \/ Of(k)' # {} \/ \E g \in Hooks : Busy(g, k)'
        PROVE  row.sub = k
    <3>1. k # e.sub
      BY <1>2, <2>2 DEF Busy
    <3>2. Unopened(k)' = Unopened(k)
      BY <1>3, <3>1 DEF Unopened
    <3>3. QED
      BY <1>3, <1>4, <2>2, <3>1, <3>2 DEF Tale, RowInTurn
  <2>3. QED
    BY <1>1, <2>1, <2>2 DEF RowInTurn
<1>7. e \in Of(e.sub)
  BY DEF Of
<1>8. LiveIsTold'
  <2> SUFFICES ASSUME NEW k \in Checkouts, Live(k)
               PROVE  ToBeRead(k)' \/ Written(k)'
    BY <1>3 DEF LiveIsTold
  <2>1. ToBeRead(k) \/ Written(k)
    BY <1>4 DEF Tale, LiveIsTold, ToBeWritten
  <2>2. CASE ToBeRead(k)
    <3>1. PICK x \in Of(k) : /\ x.type = UpdatedType /\ x.object = stripe[k]
                             /\ \A f \in Of(k) : f.at > x.at => Echo(k, f)
      BY <2>2 DEF ToBeRead
    <3>2. x \in Of(k)'
      BY <1>1, <1>3, <3>1 DEF UpdatedType, Completed
    <3>3. \A f \in Of(k)' : f.at > x.at => Echo(k, f)'
      BY <1>1, <1>3, <3>1 DEF Echo
    <3>4. QED
      BY <1>1, <3>1, <3>2, <3>3 DEF ToBeRead
  <2>3. CASE Written(k)
    <3>1. k # e.sub
      BY <1>1, <1>7, <2>3 DEF Written, Echo, Failed, Completed
    <3>2. Of(k)' = Of(k) /\ \A g \in Hooks : ~ Busy(g, k)'
      BY <1>3, <1>4, <3>1
    <3>3. QED
      BY <1>1, <2>3, <3>2 DEF Written, Shown, Echo
  <2>4. QED
    BY <2>1, <2>2, <2>3
<1>9. EndIsTold'
  <2> SUFFICES ASSUME NEW k \in Checkouts, Sold(k), ~ Live(k)
               PROVE  EndToBeRead(k)' \/ EndWritten(k)'
    BY <1>3 DEF EndIsTold
  <2>1. EndToBeRead(k) \/ EndWritten(k)
    BY <1>4 DEF Tale, EndIsTold, EndToBeWritten
  <2>2. CASE EndToBeRead(k)
    BY <1>1, <1>3, <2>2 DEF EndToBeRead, Deleted, Completed
  <2>3. CASE EndWritten(k)
    <3>1. k # e.sub
      BY <1>7, <2>3 DEF EndWritten
    <3>2. Of(k)' = Of(k) /\ \A g \in Hooks : ~ Busy(g, k)'
      BY <1>3, <1>4, <3>1
    <3>3. QED
      BY <1>1, <2>3, <3>2 DEF EndWritten
  <2>4. QED
    BY <2>1, <2>2, <2>3
<1>10. QED
  BY <1>3, <1>5, <1>6, <1>8, <1>9 DEF Tale

LEMMA FindTale ==
    ASSUME InOrder, BillingInv, Tale, NEW h \in Hooks, NEW e \in event, HookFind(h, e)
    PROVE  Tale'
<1>1. /\ UNCHANGED <<stripe, sent, row, checkout>> /\ Take(e)
      /\ hook[h].pc = "idle" /\ e.type # Completed /\ \A g \in Hooks : g = h
  BY DEF HookFind, Completed, InOrder
<1>2. /\ e.sub \in Checkouts /\ Sold(e.sub) /\ e \in Of(e.sub)
  BY DEF BillingInv, TypeOK, Event, EventsHeld, Of
<1>3. /\ \A f \in event : f # e => e.at < f.at
      /\ \A k \in Checkouts : /\ Of(k)' \subseteq Of(k) /\ Of(k) \ {e} \subseteq Of(k)'
                              /\ Of(k)' = Of(k) \/ (Of(k)' = Of(k) \ {e} /\ e \in Of(k))
                              /\ k # e.sub => Of(k)' = Of(k)
                              /\ Live(k)' = Live(k) /\ Sold(k)' = Sold(k)
                              /\ k # e.sub /\ (Live(k) \/ Of(k) # {}) => Unopened(k)'
      /\ ~ Unopened(e.sub)
      /\ OneLive' /\ PaidOnce' /\ EventOrder' /\ InTurn'
  BY <1>1, TakeOldest
<1>4. \A g \in Hooks, k \in Checkouts : ~ Busy(g, k)
  BY <1>1 DEF Busy
<1>5. row.sub = e.sub
  BY <1>2, <1>3, <1>4 DEF Tale, RowInTurn
<1>6. /\ hook'[h].pc = "write" /\ hook'[h].type = e.type /\ hook'[h].sub = e.sub
      /\ hook'[h].object = e.object /\ hook'[h].seen = row
  BY <1>5 DEF HookFind, BillingInv, TypeOK
<1>7. \A g \in Hooks, k \in Checkouts : Busy(g, k)' <=> k = e.sub
  BY <1>1, <1>6 DEF Busy
<1>8. ~ Unopened(e.sub)'
  BY <1>2, <1>3 DEF Unopened
<1>9. HookInTurn'
  BY <1>1, <1>2, <1>3, <1>6, <1>8 DEF HookInTurn
<1>10. RowInTurn'
  <2>1. row.sub # NoSub => Sold(row.sub)'
    BY <1>1, <1>2, <1>5 DEF Sold
  <2>2. ASSUME NEW k \in Checkouts, Sold(k)', ~ Unopened(k)',
               \A g \in Hooks : Busy(g, k)' => hook'[g].type # Completed,
               Live(k)' \/ Of(k)' # {} \/ \E g \in Hooks : Busy(g, k)'
        PROVE  row.sub = k
    <3>1. CASE k = e.sub
      BY <1>5, <3>1
    <3>2. CASE k # e.sub
      BY <1>3, <1>7, <2>2, <3>2
    <3>3. QED
      BY <3>1, <3>2
  <2>3. QED
    BY <1>1, <2>1, <2>2 DEF RowInTurn
<1>11. LiveIsTold'
  <2> SUFFICES ASSUME NEW k \in Checkouts, Live(k)
               PROVE  ToBeRead(k)' \/ ToBeWritten(k)' \/ Written(k)'
    BY <1>3 DEF LiveIsTold
  <2>1. ToBeRead(k) \/ Written(k)
    BY <1>4 DEF Tale, LiveIsTold, ToBeWritten
  <2>2. CASE ToBeRead(k)
    <3>1. PICK x \in Of(k) : /\ x.type = UpdatedType /\ x.object = stripe[k]
                             /\ \A f \in Of(k) : f.at > x.at => Echo(k, f)
      BY <2>2 DEF ToBeRead
    <3>2. CASE x \in Of(k)'
      <4>1. \A f \in Of(k)' : f.at > x.at => Echo(k, f)'
        BY <1>1, <1>3, <3>1 DEF Echo
      <4>2. QED
        BY <1>1, <3>1, <3>2, <4>1 DEF ToBeRead
    <3>3. CASE x \notin Of(k)'
      <4>1. x = e /\ k = e.sub /\ Of(k)' = Of(k) \ {e}
        BY <1>3, <3>1, <3>3
      <4>2. \A f \in Of(k)' : f.at > e.at
        <5>1. \A f \in Of(k)' : f \in event /\ f # e /\ e.at < f.at
          BY <1>3, <4>1 DEF Of
        <5>2. \A f \in event : f.at \in Nat
          BY DEF BillingInv, TypeOK, Event
        <5>3. QED
          BY <5>1, <5>2
      <4>3. \A f \in Of(k)' : Echo(k, f)'
        BY <1>1, <1>3, <3>1, <4>1, <4>2 DEF Echo
      <4>4. QED
        BY <1>1, <1>6, <1>7, <3>1, <4>1, <4>3 DEF ToBeWritten
    <3>4. QED
      BY <3>2, <3>3
  <2>3. CASE Written(k)
    <3>1. \A f \in Of(k)' : Echo(k, f)'
      BY <1>1, <1>3, <2>3 DEF Written, Echo
    <3>2. \A g \in Hooks : Busy(g, k)' => Echo(k, hook[g])'
      BY <1>1, <1>2, <1>6, <1>7, <2>3 DEF Written, Echo
    <3>3. QED
      BY <1>1, <2>3, <3>1, <3>2 DEF Written, Shown
  <2>4. QED
    BY <2>1, <2>2, <2>3
<1>12. EndIsTold'
  <2> SUFFICES ASSUME NEW k \in Checkouts, Sold(k), ~ Live(k)
               PROVE  EndToBeRead(k)' \/ EndToBeWritten(k)' \/ EndWritten(k)'
    BY <1>3 DEF EndIsTold
  <2>1. EndToBeRead(k) \/ EndWritten(k)
    BY <1>4 DEF Tale, EndIsTold, EndToBeWritten
  <2>2. CASE EndToBeRead(k)
    <3>1. PICK x \in Of(k) : x.type = Deleted /\ \A f \in Of(k) : f.at <= x.at
      BY <2>2 DEF EndToBeRead
    <3>2. CASE x \in Of(k)'
      BY <1>3, <3>1, <3>2 DEF EndToBeRead
    <3>3. CASE x \notin Of(k)'
      <4>1. x = e /\ k = e.sub /\ Of(k)' = Of(k) \ {e}
        BY <1>3, <3>1, <3>3
      <4>2. Of(k)' = {}
        <5>1. \A f \in Of(k) : f.at \in Nat /\ e.at \in Nat /\ f \in event
          BY DEF BillingInv, TypeOK, Event, Of
        <5>2. QED
          BY <1>3, <3>1, <4>1, <5>1
      <4>3. QED
        BY <1>1, <1>6, <1>7, <3>1, <4>1, <4>2 DEF EndToBeWritten
    <3>4. QED
      BY <3>2, <3>3
  <2>3. CASE EndWritten(k)
    <3>1. k # e.sub
      BY <1>2, <2>3 DEF EndWritten
    <3>2. Of(k)' = Of(k) /\ \A g \in Hooks : ~ Busy(g, k)'
      BY <1>3, <1>7, <3>1
    <3>3. QED
      BY <1>1, <2>3, <3>2 DEF EndWritten
  <2>4. QED
    BY <2>1, <2>2, <2>3
<1>13. QED
  BY <1>3, <1>9, <1>10, <1>11, <1>12 DEF Tale

\* The handler of a checkout reads the row, which nothing else can write meanwhile.
LEMMA ReadTale ==
    ASSUME InOrder, BillingInv, Tale, NEW h \in Hooks, HookRead(h)
    PROVE  Tale'
<1>1. /\ UNCHANGED <<stripe, sent, row, checkout, event>>
      /\ hook[h].pc = "read" /\ \A g \in Hooks : g = h
  BY DEF HookRead, InOrder
<1>2. /\ hook'[h].pc = "write" /\ hook'[h].seen = row /\ hook'[h].type = hook[h].type
      /\ hook'[h].sub = hook[h].sub /\ hook'[h].object = hook[h].object
  BY DEF HookRead, BillingInv, TypeOK
<1>3. \A k \in Checkouts : /\ Live(k)' = Live(k) /\ Sold(k)' = Sold(k) /\ Of(k)' = Of(k)
                           /\ Unopened(k)' = Unopened(k)
                           /\ \A g \in Hooks : Busy(g, k)' = Busy(g, k)
  BY <1>1, <1>2 DEF Live, Sold, Of, Unopened, Busy
<1>4. OneLive' /\ PaidOnce' /\ EventOrder' /\ InTurn'
  BY <1>1, <1>3 DEF Tale, OneLive, PaidOnce, EventOrder, InTurn
<1>5. HookInTurn'
  <2>1. hook[h].sub \in Checkouts
    BY <1>1 DEF BillingInv, HooksHeld
  <2>2. QED
    BY <1>1, <1>2, <1>3, <2>1 DEF Tale, HookInTurn
<1>6. RowInTurn'
  <2>1. row.sub # NoSub => Sold(row.sub)'
    <3>1. row.sub # NoSub => Sold(row.sub)
      BY DEF Tale, RowInTurn
    <3>2. QED
      BY <1>1, <3>1 DEF Sold
  <2>2. QED
    BY <1>1, <1>2, <1>3, <2>1 DEF Tale, RowInTurn
<1>7. LiveIsTold'
  BY <1>1, <1>2, <1>3 DEF Tale, LiveIsTold, ToBeRead, ToBeWritten, Written, Echo, Shown
<1>8. EndIsTold'
  BY <1>1, <1>2, <1>3 DEF Tale, EndIsTold, EndToBeRead, EndToBeWritten, EndWritten
<1>9. QED
  BY <1>4, <1>5, <1>6, <1>7, <1>8 DEF Tale

\* What the handler writes is what it worked on.
LEMMA WriteTale ==
    ASSUME InOrder, BillingInv, Tale, NEW h \in Hooks, HookWrite(h)
    PROVE  Tale'
<1> DEFINE k0 == hook[h].sub
           type == hook[h].type
           object == hook[h].object
<1>1. /\ UNCHANGED <<stripe, sent, checkout, event>>
      /\ hook[h].pc = "write" /\ \A g \in Hooks : g = h
  BY DEF HookWrite, InOrder
<1>2. /\ hook'[h].pc = "idle" /\ k0 \in Checkouts /\ type \in EventType
  BY <1>1 DEF HookWrite, BillingInv, TypeOK, HooksHeld, IdleHook
<1>3. /\ \A k \in Checkouts : /\ Live(k)' = Live(k) /\ Sold(k)' = Sold(k) /\ Of(k)' = Of(k)
                              /\ Unopened(k)' = Unopened(k)
                              /\ \A g \in Hooks : ~ Busy(g, k)' /\ (Busy(g, k) <=> k = k0)
      /\ \A g \in Hooks : hook'[g].pc = "idle"
  BY <1>1, <1>2 DEF Live, Sold, Of, Unopened, Busy
<1>4. /\ Sold(k0) /\ (type # Completed => ~ Unopened(k0))
      /\ \A k \in Checkouts : k # k0 /\ (Live(k) \/ Of(k) # {}) => Unopened(k)
  BY <1>1 DEF Tale, HookInTurn
<1>5. /\ row'.tier = Handled(h).tier /\ row'.status = Handled(h).status
      /\ row'.sub = Handled(h).sub /\ row'.start = Handled(h).start
  <2>1. /\ hook[h].seen.tier = row.tier /\ hook[h].seen.status = row.status
        /\ hook[h].seen.sub = row.sub /\ hook[h].seen.start = row.start
    BY <1>1 DEF Tale, HookInTurn
  <2>2. row' = Flushed(hook[h].seen, Handled(h))
    BY DEF HookWrite
  <2>3. QED
    BY <2>1, <2>2 DEF Flushed, Column
<1>6. /\ hook[h].seen \in Row
      /\ hook[h].seen.tier = row.tier /\ hook[h].seen.status = row.status
      /\ hook[h].seen.sub = row.sub /\ hook[h].seen.start = row.start
  BY <1>1 DEF Tale, HookInTurn, BillingInv, TypeOK
<1>7. type \in {Completed, UpdatedType} =>
        /\ row'.tier = TierOf(object.price) /\ row'.status = object.status
        /\ row'.sub = k0 /\ row'.start = object.start
  <2>1. CASE type = Completed
    BY <1>5, <1>6, <2>1 DEF Handled, Updated, Completed, Row
  <2>2. CASE type = UpdatedType
    BY <1>5, <1>6, <2>2 DEF Handled, Updated, UpdatedType, Row
  <2>3. QED
    BY <2>1, <2>2
<1>8. type = Deleted =>
        row'.tier = "free" /\ row'.status = "canceled" /\ row'.sub = row.sub
  BY <1>5, <1>6 DEF Handled, Deleted, Row
<1>9. type = Failed =>
        /\ row'.tier = row.tier /\ row'.status = "past_due"
        /\ row'.sub = row.sub /\ row'.start = row.start
  BY <1>5, <1>6 DEF Handled, Failed, Row
<1> HIDE DEF k0, type, object
<1>10. row'.sub = k0
  <2>1. type # Completed => row.sub = k0
    <3>1. \A g \in Hooks : Busy(g, k0) => (type # Completed => hook[g].type # Completed)
      BY <1>1 DEF type
    <3>2. Busy(h, k0)
      BY <1>2, <1>3
    <3>3. QED
      BY <1>2, <1>4, <3>1, <3>2 DEF Tale, RowInTurn
  <2>2. type \in {Completed, UpdatedType, Deleted, Failed}
    BY <1>2 DEF EventType, Completed, UpdatedType, Deleted, Failed
  <2>3. QED
    BY <1>7, <1>8, <1>9, <2>1, <2>2
<1>11. OneLive' /\ PaidOnce' /\ EventOrder' /\ InTurn'
  BY <1>1, <1>3 DEF Tale, OneLive, PaidOnce, EventOrder, InTurn
<1>12. HookInTurn'
  BY <1>3 DEF HookInTurn
<1>13. RowInTurn'
  <2>1. Sold(row.sub)'
    BY <1>1, <1>4, <1>10 DEF Sold
  <2>2. ASSUME NEW k \in Checkouts, ~ Unopened(k)',
               Live(k)' \/ Of(k)' # {} \/ \E g \in Hooks : Busy(g, k)'
        PROVE  row'.sub = k
    BY <1>3, <1>4, <1>10, <2>2
  <2>3. QED
    BY <2>1, <2>2 DEF RowInTurn
<1>14. LiveIsTold'
  <2> SUFFICES ASSUME NEW k \in Checkouts, Live(k) PROVE ToBeRead(k)' \/ Written(k)'
    BY <1>3 DEF LiveIsTold
  <2>1. CASE ToBeRead(k)
    BY <1>1, <1>3, <2>1 DEF ToBeRead, Echo
  <2>2. CASE ToBeWritten(k)
    <3>1. k = k0 /\ type = UpdatedType /\ object = stripe[k] /\ \A f \in Of(k) : Echo(k, f)
      BY <1>1, <1>3, <2>2 DEF ToBeWritten, type, object
    <3>2. Shown(k)'
      BY <1>1, <1>7, <3>1 DEF Shown
    <3>3. QED
      BY <1>1, <1>3, <3>1, <3>2 DEF Written, Echo
  <2>3. CASE Written(k)
    <3>1. CASE k = k0
      <4>1. type = Failed /\ stripe[k].status = "past_due"
        BY <1>3, <2>3, <3>1 DEF Written, Echo, type
      <4>2. Shown(k)'
        BY <1>1, <1>9, <2>3, <4>1 DEF Shown, Written
      <4>3. QED
        BY <1>1, <1>3, <2>3, <4>2 DEF Written, Echo
    <3>2. CASE k # k0
      <4>1. PICK c \in Of(k) : c.type = Completed
        BY <1>4, <3>2 DEF Unopened
      <4>2. QED
        BY <2>3, <4>1 DEF Written, Echo, Completed, Failed
    <3>3. QED
      BY <3>1, <3>2
  <2>4. QED
    BY <2>1, <2>2, <2>3 DEF Tale, LiveIsTold
<1>15. EndIsTold'
  <2> SUFFICES ASSUME NEW k \in Checkouts, Sold(k), ~ Live(k)
               PROVE  EndToBeRead(k)' \/ EndWritten(k)'
    BY <1>3 DEF EndIsTold
  <2>1. CASE EndToBeRead(k)
    BY <1>3, <2>1 DEF EndToBeRead
  <2>2. CASE EndToBeWritten(k)
    BY <1>1, <1>3, <1>8, <2>2 DEF EndToBeWritten, EndWritten, type
  <2>3. CASE EndWritten(k)
    <3>1. k # k0
      BY <1>3, <2>3 DEF EndWritten
    <3>2. QED
      BY <1>3, <1>10, <2>3, <3>1 DEF EndWritten
  <2>4. QED
    BY <2>1, <2>2, <2>3 DEF Tale, EndIsTold
<1>16. QED
  BY <1>11, <1>12, <1>13, <1>14, <1>15 DEF Tale

\* With no handler lost, every step keeps the tale.
LEMMA NextTale == InOrder /\ BillingInv /\ Tale /\ [Next]_billingVars => Tale'
<1> SUFFICES ASSUME InOrder, BillingInv, Tale, [Next]_billingVars PROVE Tale'
  OBVIOUS
<1>1. CASE UNCHANGED billingVars
  <2>1. UNCHANGED <<stripe, event, sent, hook, row, checkout>>
    BY <1>1 DEF billingVars
  <2>2. PaidOnce'
    BY <2>1 DEF Tale, PaidOnce, Sold
  <2>3. QED
    BY <2>1, <2>2, SameTale
<1>2. ASSUME NEW k \in Checkouts, CheckoutStep(k) \/ Change(k) \/ Renew(k) PROVE Tale'
  BY <1>2, CheckoutTale, StripeTale DEF CheckoutStep
<1>3. ASSUME NEW h \in Hooks, HookStep(h) PROVE Tale'
  <2>1. ASSUME NEW e \in event, HookFetch(h, e) \/ HookFind(h, e) PROVE Tale'
    BY <2>1, FetchTale, FindTale
  <2>2. CASE HookRead(h) \/ HookWrite(h)
    BY <2>2, ReadTale, WriteTale
  <2>3. ~ HookFails(h)
    <3>1. count \in [Kinds -> Nat]
      BY DEF BillingInv, TypeOK, Kinds
    <3>2. QED
      BY <3>1 DEF HookFails, InOrder, Counted, Bound, Kinds
  <2>4. QED
    BY <1>3, <2>1, <2>2, <2>3 DEF HookStep
<1>4. CASE Tick
  BY <1>4, CheckoutTale
<1>5. QED
  BY <1>1, <1>2, <1>3, <1>4 DEF Next

\* What the tale says once every event has been handled.
LEMMA TaleMirrors == BillingInv /\ Tale => MirrorsStripe
<1> SUFFICES ASSUME BillingInv, Tale, Settled PROVE MirrorsStripe
  BY DEF MirrorsStripe
<1>1. \A k \in Checkouts : Of(k) = {} /\ \A h \in Hooks : ~ Busy(h, k)
  BY DEF Settled, Of, Busy
<1>2. ASSUME NEW k \in Checkouts, Live(k) PROVE Shown(k)
  BY <1>1, <1>2 DEF Tale, LiveIsTold, ToBeRead, ToBeWritten, Written
<1>3. ASSUME row.sub # NoSub, ~ Live(row.sub) PROVE row.tier = "free" /\ row.status = "canceled"
  <2>1. row.sub \in Checkouts /\ Sold(row.sub)
    BY <1>3 DEF BillingInv, TypeOK, Row, Tale, RowInTurn
  <2>2. EndWritten(row.sub)
    BY <1>1, <1>3, <2>1 DEF Tale, EndIsTold, EndToBeRead, EndToBeWritten
  <2>3. QED
    BY <2>2 DEF EndWritten
<1>4. QED
  BY <1>2, <1>3 DEF MirrorsStripe, Shown

\* Where webhook requests are served one at a time, in order, none raises and the
\* user holds one subscription, the row says what Stripe says whenever every event
\* has been handled, whatever is repeated, renewed or changed (handle_webhook_event).
THEOREM RowMirrorsStripe == InOrder => (Spec => []MirrorsStripe)
<1>1. InOrder => (Spec => [](BillingInv /\ Tale))
  <2> SUFFICES ASSUME InOrder PROVE Spec => [](BillingInv /\ Tale)
    OBVIOUS
  <2>1. Init => BillingInv /\ Tale
    BY InitBilling, InitTale
  <2>2. BillingInv /\ Tale /\ [Next]_billingVars => (BillingInv /\ Tale)'
    BY NextBilling, NextTale
  <2>3. QED
    BY <2>1, <2>2, PTL DEF Spec
<1>2. BillingInv /\ Tale => MirrorsStripe
  BY TaleMirrors
<1>3. QED
  BY <1>1, <1>2, PTL

-----------------------------------------------------------------------------
(* What check_quota counts.                                                *)

\* No usage record is from the future.
NoneFromTheFuture ==
  now >= 1 /\ \A p \in Packs : pack[p].pc = "recorded" => pack[p].at <= now

\* No more is under way than the bound lets begin.
FewAreOpen == Cardinality(Open) <= MaxOpen

\* Stripe renews on time: now is in the period of a live subscription.
LiveWithinPeriod ==
  \A k \in Checkouts : Live(k) =>
    /\ stripe[k].start >= 1 /\ stripe[k].start <= now
    /\ now <= stripe[k].start + Period

QuotaInv ==
  BillingInv /\ QuotaTypeOK /\ NoneFromTheFuture /\ FewAreOpen /\ LiveWithinPeriod

\* A step of the quota is a step of the subscription or one of a pack.
LEMMA QuotaStep ==
    ASSUME [QuotaNext]_quotaVars
    PROVE  /\ [Next]_billingVars
           /\ pack' = pack \/ (UNCHANGED billingVars /\ \E p \in Packs : PackStep(p))
BY DEF QuotaNext, quotaVars, billingVars

\* A set of packs is finite, and its subsets are smaller.
LEMMA PackSets ==
    ASSUME NEW X \in SUBSET Packs
    PROVE  /\ IsFiniteSet(X) /\ Cardinality(X) \in Nat
           /\ \A Y \in SUBSET X : Cardinality(Y) \in Nat /\ Cardinality(Y) <= Cardinality(X)
<1>1. IsFiniteSet(X)
  BY PacksAssumption, FS_Subset
<1>2. QED
  BY <1>1, FS_Subset, FS_CardinalityType

\* One more element makes a set one larger at most; one less, one smaller.
LEMMA OneMore ==
    ASSUME NEW X \in SUBSET Packs, NEW p \in Packs
    PROVE  /\ Cardinality(X \cup {p}) <= Cardinality(X) + 1
           /\ p \in X => Cardinality(X \ {p}) = Cardinality(X) - 1
<1>1. IsFiniteSet(X) /\ Cardinality(X) \in Nat
  BY PackSets
<1>2. Cardinality(X \cup {p}) <= Cardinality(X) + 1
  <2>1. Cardinality(X \cup {p}) = IF p \in X THEN Cardinality(X) ELSE Cardinality(X) + 1
    BY <1>1, FS_AddElement
  <2>2. QED
    BY <1>1, <2>1
<1>3. p \in X => Cardinality(X \ {p}) = Cardinality(X) - 1
  BY <1>1, FS_RemoveElement
<1>4. QED
  BY <1>2, <1>3

\* Where more moments are counted, more packs are.
LEMMA UsedMore ==
    ASSUME NEW a, NEW b, NEW c, NEW d,
           \A p \in Packs : pack[p].pc = "recorded" /\ a <= pack[p].at /\ pack[p].at <= b
                               => c <= pack[p].at /\ pack[p].at <= d
    PROVE  /\ UsedBetween(a, b) \in Nat /\ UsedBetween(c, d) \in Nat
           /\ UsedBetween(a, b) <= UsedBetween(c, d)
<1>1. /\ RecordedBetween(a, b) \in SUBSET RecordedBetween(c, d)
      /\ RecordedBetween(c, d) \in SUBSET Packs
  BY DEF RecordedBetween
<1>2. QED
  BY <1>1, PackSets DEF UsedBetween

\* What a step does to one pack leaves the others alone.
LEMMA OthersStay ==
    ASSUME QuotaTypeOK, NEW p \in Packs, PackStep(p)
    PROVE  /\ \A q \in Packs \ {p} : pack'[q] = pack[q]
           /\ pack'[p].pc # pack[p].pc
           /\ pack'[p].pc = "recorded" => pack'[p].at = now
           /\ \/ pack'[p].seen = FreeRow
              \/ pack'[p].seen = row
<1>1. pack \in [Packs -> Pack] /\ pack[p] \in Pack
  BY DEF QuotaTypeOK
<1>2. CASE CheckQuota(p)
  <2>1. pack' = [pack EXCEPT ![p] = [pack[p] EXCEPT !.pc = "checking", !.seen = row]]
    BY <1>1, <1>2 DEF CheckQuota
  <2>2. QED
    BY <1>1, <1>2, <2>1 DEF CheckQuota, Pack
<1>3. CASE Admit(p)
  BY <1>1, <1>3 DEF Admit, NoPack, Pack
<1>4. CASE Refuse(p)
  BY <1>1, <1>4 DEF Refuse, NoPack, Pack
<1>5. CASE RecordUsage(p)
  BY <1>1, <1>5 DEF RecordUsage, NoPack, Pack
<1>6. CASE EndUncounted(p)
  BY <1>1, <1>6 DEF EndUncounted, NoPack, Pack
<1>7. QED
  BY <1>2, <1>3, <1>4, <1>5, <1>6 DEF PackStep

LEMMA QuotaInvStep == QuotaInv /\ [QuotaNext]_quotaVars => QuotaInv'
<1> SUFFICES ASSUME QuotaInv, [QuotaNext]_quotaVars PROVE QuotaInv'
  OBVIOUS
<1>1. BillingInv /\ [Next]_billingVars
  BY QuotaStep DEF QuotaInv
<1>2. BillingInv'
  BY <1>1, NextBilling
<1>3. now \in Nat /\ now >= 1 /\ (now' = now \/ now' = now + 1)
  <2>1. CASE Tick
    BY <2>1 DEF Tick, QuotaInv, BillingInv, TypeOK, NoneFromTheFuture
  <2>2. CASE UNCHANGED billingVars
    BY <2>2 DEF billingVars, QuotaInv, BillingInv, TypeOK, NoneFromTheFuture
  <2>3. ASSUME NEW k \in Checkouts, CheckoutStep(k) \/ Change(k) \/ Renew(k)
        PROVE  now' = now
    BY <2>3 DEF CheckoutStep, CheckoutRead, CheckoutCustomer, CheckoutSession,
                CheckoutFails, Pay, Change, Renew
  <2>4. ASSUME NEW h \in Hooks, HookStep(h) PROVE now' = now
    BY <2>4 DEF HookStep, HookFetch, HookFind, HookRead, HookWrite, HookFails
  <2>5. QED
    BY <1>1, <2>1, <2>2, <2>3, <2>4 DEF Next, QuotaInv, BillingInv, TypeOK, NoneFromTheFuture
<1>4. QuotaTypeOK'
  <2>1. now \in Nat /\ row \in Row /\ FreeRow \in Row
    BY NoObjectType DEF QuotaInv, BillingInv, TypeOK
  <2>2. ASSUME NEW p \in Packs, PackStep(p) PROVE QuotaTypeOK'
    <3>1. pack \in [Packs -> Pack] /\ NoPack \in Pack
      BY <2>1 DEF QuotaInv, QuotaTypeOK, Pack, NoPack
    <3>2. CASE CheckQuota(p)
      BY <2>1, <3>1, <3>2 DEF CheckQuota, QuotaTypeOK, Pack
    <3>3. CASE Admit(p)
      BY <3>1, <3>3 DEF Admit, QuotaTypeOK, Pack
    <3>4. CASE Refuse(p) \/ EndUncounted(p)
      BY <3>1, <3>4 DEF Refuse, EndUncounted, QuotaTypeOK
    <3>5. CASE RecordUsage(p)
      BY <2>1, <3>1, <3>5 DEF RecordUsage, QuotaTypeOK, Pack
    <3>6. QED
      BY <2>2, <3>2, <3>3, <3>4, <3>5 DEF PackStep
  <2>3. QED
    BY <2>2, QuotaStep DEF QuotaInv, QuotaTypeOK
<1>6. NoneFromTheFuture'
  <2>1. CASE pack' = pack
    BY <1>3, <2>1 DEF QuotaInv, NoneFromTheFuture, QuotaTypeOK, Pack
  <2>2. ASSUME NEW p \in Packs, PackStep(p), UNCHANGED billingVars PROVE NoneFromTheFuture'
    <3>1. now' = now
      BY <2>2 DEF billingVars
    <3>2. pack'[p].pc = "recorded" => pack'[p].at = now
      BY <2>2, OthersStay DEF QuotaInv
    <3>3. QED
      BY <1>3, <2>2, <3>1, <3>2, OthersStay DEF QuotaInv, NoneFromTheFuture
  <2>3. QED
    BY <2>1, <2>2, QuotaStep
<1>7. FewAreOpen'
  <2>1. CASE pack' = pack
    BY <2>1 DEF QuotaInv, FewAreOpen, Open
  <2>2. ASSUME NEW p \in Packs, PackStep(p) PROVE FewAreOpen'
    <3>0. /\ Open \in SUBSET Packs /\ Open' \in SUBSET Packs
          /\ MaxOpen \in Nat /\ Cardinality(Open) \in Nat /\ Cardinality(Open') \in Nat
          /\ Cardinality(Open) <= MaxOpen
      BY PacksAssumption, PackSets DEF Open, QuotaInv, FewAreOpen
    <3>1. CASE CheckQuota(p)
      <4>1. Open' \in SUBSET (Open \cup {p})
        BY <2>2, OthersStay DEF QuotaInv, Open
      <4>2. Open \cup {p} \in SUBSET Packs
        BY <3>0
      <4>3. Cardinality(Open') <= Cardinality(Open \cup {p})
        BY <4>1, <4>2, PackSets
      <4>4. Cardinality(Open) < MaxOpen
        BY <3>1 DEF CheckQuota
      <4>5. Cardinality(Open \cup {p}) <= Cardinality(Open) + 1 /\ Cardinality(Open \cup {p}) \in Nat
        BY <3>0, <4>2, OneMore, PackSets
      <4>6. QED
        BY <3>0, <4>3, <4>4, <4>5 DEF FewAreOpen
    <3>2. CASE Admit(p) \/ Refuse(p) \/ RecordUsage(p) \/ EndUncounted(p)
      <4>1. p \in Open
        BY <3>2 DEF Admit, Refuse, RecordUsage, EndUncounted, Open
      <4>2. Open' \in SUBSET Open
        BY <2>2, <4>1, OthersStay DEF QuotaInv, Open
      <4>3. QED
        BY <3>0, <4>2, PackSets DEF FewAreOpen
    <3>3. QED
      BY <2>2, <3>1, <3>2 DEF PackStep
  <2>3. QED
    BY <2>1, <2>2, QuotaStep
<1>5. LiveWithinPeriod'
  <2> SUFFICES ASSUME NEW k \in Checkouts, Live(k)'
               PROVE  /\ stripe'[k].start >= 1 /\ stripe'[k].start <= now'
                      /\ now' <= stripe'[k].start + Period
    BY DEF LiveWithinPeriod
  <2>0. Period \in Nat /\ stripe[k] \in StripeSub /\ stripe[k].start \in Nat
    BY NumbersAssumption DEF QuotaInv, BillingInv, TypeOK, StripeSub
  <2>1. CASE stripe'[k] = stripe[k] /\ now' = now
    BY <2>1 DEF QuotaInv, LiveWithinPeriod, Live
  <2>2. CASE Tick
    BY <1>3, <2>0, <2>2 DEF Tick, QuotaInv, LiveWithinPeriod, Live
  <2>3. ASSUME NEW j \in Checkouts, Pay(j) \/ Change(j) \/ Renew(j)
        PROVE  /\ stripe'[k].start >= 1 /\ stripe'[k].start <= now'
               /\ now' <= stripe'[k].start + Period
    <3>1. now' = now
      BY <2>3 DEF Pay, Change, Renew
    <3>2. CASE j # k
      <4>1. stripe'[k] = stripe[k]
        BY <2>3, <3>2 DEF Pay, Change, Renew, Emit, QuotaInv, BillingInv, TypeOK
      <4>2. QED
        BY <2>1, <3>1, <4>1
    <3>3. CASE j = k
      <4>1. stripe'[k].start = now \/ (Live(k) /\ stripe'[k].start = stripe[k].start)
        <5>1. CASE Pay(k)
          BY <5>1 DEF Pay, Emit, QuotaInv, BillingInv, TypeOK
        <5>2. CASE Renew(k)
          BY <2>0, <5>2 DEF Renew, Emit, QuotaInv, BillingInv, TypeOK, StripeSub
        <5>3. CASE Change(k)
          BY <2>0, <5>3 DEF Change, Emit, QuotaInv, BillingInv, TypeOK, StripeSub, Live
        <5>4. QED
          BY <2>3, <3>3, <5>1, <5>2, <5>3
      <4>2. QED
        BY <1>3, <2>0, <3>1, <4>1 DEF QuotaInv, LiveWithinPeriod
    <3>4. QED
      BY <3>2, <3>3
  <2>4. CASE UNCHANGED billingVars
    BY <2>1, <2>4 DEF billingVars
  <2>5. ASSUME NEW j \in Checkouts, \/ CheckoutRead(j) \/ CheckoutCustomer(j)
                                   \/ CheckoutSession(j) \/ CheckoutFails(j)
        PROVE  stripe' = stripe /\ now' = now
    BY <2>5 DEF CheckoutRead, CheckoutCustomer, CheckoutSession, CheckoutFails
  <2>6. ASSUME NEW h \in Hooks, HookStep(h) PROVE stripe' = stripe /\ now' = now
    BY <2>6 DEF HookStep, HookFetch, HookFind, HookRead, HookWrite, HookFails
  <2>7. QED
    BY <1>1, <2>1, <2>2, <2>3, <2>4, <2>5, <2>6 DEF Next, CheckoutStep
<1>8. QED
  BY <1>2, <1>4, <1>5, <1>6, <1>7 DEF QuotaInv

LEMMA QuotaInitInv == QuotaInit => QuotaInv
<1> SUFFICES ASSUME QuotaInit PROVE QuotaInv
  OBVIOUS
<1>1. BillingInv
  BY InitBilling DEF QuotaInit
<1>2. QuotaTypeOK /\ NoneFromTheFuture
  BY NoObjectType DEF QuotaInit, Init, QuotaTypeOK, NoneFromTheFuture, Pack, NoPack
<1>5. FewAreOpen
  <2>1. Open = {}
    BY DEF QuotaInit, Open, NoPack
  <2>2. QED
    BY <2>1, FS_EmptySet, PacksAssumption DEF FewAreOpen
<1>3. LiveWithinPeriod
  BY NoObjectType DEF QuotaInit, Init, LiveWithinPeriod, Live
<1>4. QED
  BY <1>1, <1>2, <1>3, <1>5 DEF QuotaInv

\* Where events are handled one at a time and in order, a request of a user whose
\* events have all been handled starts no run beyond the plan in the period Stripe
\* charges for, unless the row changed under it (check_quota, _count_usage_this_period).
THEOREM PaidLimitHolds == InOrder => (QuotaSpec => PaidLimitWhenSettled)
<1> DEFINE within ==
             \A p \in Packs, k \in Checkouts :
               (/\ pack[p].pc = "checking" /\ pack'[p].pc = "running"
                /\ pack[p].seen = row /\ Settled /\ Live(k)) =>
                 ~ OverQuota(TierOf(stripe[k].price), UsedBetween(stripe[k].start, now))
<1>1. QuotaInv /\ Tale /\ [QuotaNext]_quotaVars => within
  <2> SUFFICES ASSUME QuotaInv, Tale, [QuotaNext]_quotaVars,
                      NEW p \in Packs, NEW k \in Checkouts,
                      pack[p].pc = "checking", pack'[p].pc = "running",
                      pack[p].seen = row, Settled, Live(k)
               PROVE  ~ OverQuota(TierOf(stripe[k].price), UsedBetween(stripe[k].start, now))
    OBVIOUS
  <2>1. ~ OverQuota(row.tier, UsedThisPeriod(row))
    <3>1. PICK q \in Packs : PackStep(q)
      BY QuotaStep
    <3>2. q = p
      BY <3>1, OthersStay DEF QuotaInv
    <3>3. Admit(p)
      BY <3>1, <3>2 DEF PackStep, CheckQuota, Admit, Refuse, RecordUsage, EndUncounted,
                        QuotaInv, QuotaTypeOK, NoPack
    <3>4. QED
      BY <3>3 DEF Admit
  <2>2. row.tier = TierOf(stripe[k].price) /\ row.start = stripe[k].start
    BY TaleMirrors DEF QuotaInv, MirrorsStripe
  <2>3. /\ row.start >= 1 /\ now <= row.start + Period
        /\ row.start \in Nat /\ now \in Nat /\ Period \in Nat
    BY <2>2, NumbersAssumption DEF QuotaInv, LiveWithinPeriod, BillingInv, TypeOK, Row
  <2>4. UsedThisPeriod(row) = UsedBetween(row.start, row.start + Period)
    BY <2>3 DEF UsedThisPeriod
  <2>5. \A q \in Packs : pack[q].pc = "recorded" /\ row.start <= pack[q].at /\ pack[q].at <= now =>
                        row.start <= pack[q].at /\ pack[q].at <= row.start + Period
    BY <2>3 DEF QuotaInv, QuotaTypeOK, Pack
  <2>6. /\ UsedBetween(row.start, now) \in Nat
        /\ UsedBetween(row.start, row.start + Period) \in Nat
        /\ UsedBetween(row.start, now) <= UsedBetween(row.start, row.start + Period)
    BY <2>5, UsedMore
  <2>7. PacksPerMonth[row.tier] \in Nat \cup {Unlimited}
    BY PlansAssumption DEF QuotaInv, BillingInv, TypeOK, Row
  <2>8. ~ OverQuota(row.tier, UsedBetween(row.start, now))
    BY <2>1, <2>4, <2>6, <2>7 DEF OverQuota
  <2>9. QED
    BY <2>2, <2>8
<1>2. InOrder => (QuotaSpec => [](QuotaInv /\ Tale))
  <2> SUFFICES ASSUME InOrder PROVE QuotaSpec => [](QuotaInv /\ Tale)
    OBVIOUS
  <2>1. QuotaInit => QuotaInv /\ Tale
    BY QuotaInitInv, InitTale DEF QuotaInit
  <2>2. QuotaInv /\ Tale /\ [QuotaNext]_quotaVars => (QuotaInv /\ Tale)'
    BY QuotaInvStep, QuotaStep, NextTale DEF QuotaInv
  <2>3. QED
    BY <2>1, <2>2, PTL DEF QuotaSpec
<1>3. InOrder => (QuotaSpec => [][within]_quotaVars)
  BY <1>1, <1>2, PTL DEF QuotaSpec
<1>4. QED
  BY <1>3 DEF PaidLimitWhenSettled

NothingHeld == \A k \in Checkouts : held[k] = {}

\* The runs under way are part of the overrun: each was let through.
RunsAreCounted ==
  NothingHeld =>
    \/ PacksPerMonth["free"] = Unlimited
    \/ UsedBetween(MonthStart, now) + Cardinality(Running) < PacksPerMonth["free"] + MaxOpen

\* Who never paid has no handler at work, no period on the row or on a row that was
\* read, and is within FREE but for the runs under way.
FreeInv ==
  /\ \A h \in Hooks : hook[h].pc # "idle" => ~ NothingHeld
  /\ NothingHeld => row.start = 0
  /\ NothingHeld => \A p \in Packs : pack[p].seen.start = 0 /\ pack[p].seen.tier = "free"
  /\ RunsAreCounted

\* A month begins no earlier than the month before it.
LEMMA MonthsAdvance ==
    ASSUME NEW n \in Nat, NEW m \in Nat \ {0}
    PROVE  /\ n - (n % m) \in Int /\ (n + 1) - ((n + 1) % m) \in Int
           /\ n - (n % m) <= (n + 1) - ((n + 1) % m)
<1>1. n % m \in 0..(m - 1) /\ (n + 1) % m \in 0..(m - 1)
  OBVIOUS
<1>2. (n + 1) % m <= (n % m) + 1
  <2>1. CASE n % m = m - 1
    BY <1>1, <2>1
  <2>2. CASE n % m < m - 1
    <3>1. (n + 1) \div m = n \div m
      BY <1>1, <2>2
    <3>2. QED
      BY <1>1, <3>1
  <2>3. QED
    BY <1>1, <2>1, <2>2
<1>3. QED
  BY <1>1, <1>2

\* What was paid for stays paid for.
LEMMA HeldStays == BillingInv /\ [Next]_billingVars /\ NothingHeld' => NothingHeld
<1> SUFFICES ASSUME BillingInv, [Next]_billingVars, NothingHeld' PROVE NothingHeld
  OBVIOUS
<1>1. CASE held' = held
  BY <1>1 DEF NothingHeld
<1>2. ASSUME NEW k \in Checkouts, Pay(k) \/ Change(k) \/ Renew(k) PROVE NothingHeld
  <2>1. \A j \in Checkouts : held[j] \subseteq held'[j]
    BY <1>2 DEF Pay, Change, Renew, Emit, BillingInv, TypeOK
  <2>2. QED
    BY <2>1 DEF NothingHeld
<1>3. ASSUME NEW k \in Checkouts, \/ CheckoutRead(k) \/ CheckoutCustomer(k)
                                 \/ CheckoutSession(k) \/ CheckoutFails(k)
      PROVE  held' = held
  BY <1>3 DEF CheckoutRead, CheckoutCustomer, CheckoutSession, CheckoutFails
<1>4. ASSUME NEW h \in Hooks, HookStep(h) PROVE held' = held
  BY <1>4 DEF HookStep, HookFetch, HookFind, HookRead, HookWrite, HookFails
<1>5. Tick \/ UNCHANGED billingVars => held' = held
  BY DEF Tick, billingVars
<1>6. QED
  BY <1>1, <1>2, <1>3, <1>4, <1>5 DEF Next, CheckoutStep

LEMMA FreeInvStep == QuotaInv /\ FreeInv /\ [QuotaNext]_quotaVars => FreeInv'
<1> SUFFICES ASSUME QuotaInv, FreeInv, [QuotaNext]_quotaVars, NothingHeld'
             PROVE  /\ \A h \in Hooks : hook'[h].pc = "idle"
                    /\ row'.start = 0
                    /\ \A p \in Packs : pack'[p].seen.start = 0 /\ pack'[p].seen.tier = "free"
                    /\ RunsAreCounted'
  <2>1. ~ NothingHeld' => RunsAreCounted'
    BY DEF RunsAreCounted
  <2>2. QED
    BY <2>1 DEF FreeInv
<1>1. BillingInv /\ [Next]_billingVars
  BY QuotaStep DEF QuotaInv
<1>2. NothingHeld
  BY <1>1, HeldStays
<1>3. /\ \A h \in Hooks : hook[h].pc = "idle"
      /\ row.start = 0 /\ row.tier = "free" /\ event = {}
  <2>1. \A e \in event : e.sub \in Checkouts /\ e.object.price \in held[e.sub]
    BY <1>1 DEF BillingInv, EventsHeld, TypeOK, Event
  <2>2. QED
    BY <1>1, <1>2, <2>1 DEF FreeInv, NothingHeld, BillingInv, TierWasBought, Bought
<1>4. \/ /\ now' = now \/ Tick
         /\ hook' = hook /\ row'.start = row.start
  <2>1. ASSUME NEW k \in Checkouts, CheckoutStep(k)
        PROVE  now' = now /\ hook' = hook /\ row'.start = row.start
    BY <1>1, <2>1 DEF CheckoutStep, CheckoutRead, CheckoutCustomer, CheckoutSession,
                      CheckoutFails, Pay, BillingInv, TypeOK, Row
  <2>2. ASSUME NEW k \in Checkouts, Change(k) \/ Renew(k)
        PROVE  now' = now /\ hook' = hook /\ row' = row
    BY <2>2 DEF Change, Renew
  <2>3. ASSUME NEW h \in Hooks PROVE ~ HookStep(h)
    BY <1>3 DEF HookStep, HookRead, HookWrite, HookFails
  <2>4. Tick => hook' = hook /\ row' = row
    BY DEF Tick
  <2>5. UNCHANGED billingVars => now' = now /\ hook' = hook /\ row' = row
    BY DEF billingVars
  <2>6. QED
    BY <1>1, <2>1, <2>2, <2>3, <2>4, <2>5 DEF Next
<1>5. /\ \/ PacksPerMonth["free"] = Unlimited
         \/ UsedBetween(MonthStart, now) + Cardinality(Running) < PacksPerMonth["free"] + MaxOpen
      /\ PacksPerMonth["free"] \in Nat \cup {Unlimited}
      /\ now \in Nat /\ Month \in Nat \ {0} /\ MaxOpen \in Nat
  BY <1>1, <1>2, PlansAssumption, PacksAssumption
     DEF FreeInv, RunsAreCounted, BillingInv, TypeOK, Tier
<1>6. \A p \in Packs : pack'[p].seen.start = 0 /\ pack'[p].seen.tier = "free"
  <2>1. \A p \in Packs : pack[p].seen.start = 0 /\ pack[p].seen.tier = "free"
    BY <1>2 DEF FreeInv
  <2>2. ASSUME NEW p \in Packs, PackStep(p)
        PROVE  pack'[p].seen.start = 0 /\ pack'[p].seen.tier = "free"
    BY <1>3, <2>1, <2>2, OthersStay DEF QuotaInv, FreeRow
  <2>3. QED
    BY <2>1, <2>2, QuotaStep, OthersStay DEF QuotaInv
<1>7. RunsAreCounted'
  <2> SUFFICES ASSUME PacksPerMonth["free"] # Unlimited
               PROVE  UsedBetween(MonthStart, now)' + Cardinality(Running')
                        < PacksPerMonth["free"] + MaxOpen
    BY DEF RunsAreCounted
  <2> DEFINE first == MonthStart
             first2 == MonthStart'
             X == {p \in Packs : pack[p].pc = "recorded" /\ first <= pack[p].at /\ pack[p].at <= now}
             X2 == {p \in Packs : pack'[p].pc = "recorded" /\ first2 <= pack'[p].at
                                     /\ pack'[p].at <= now'}
  <2>1. /\ UsedBetween(MonthStart, now) = Cardinality(X)
        /\ UsedBetween(MonthStart, now)' = Cardinality(X2)
    BY DEF UsedBetween, RecordedBetween
  <2>2. /\ X \in SUBSET Packs /\ X2 \in SUBSET Packs
        /\ Running \in SUBSET Packs /\ Running' \in SUBSET Packs
    BY DEF Running
  <2>3. /\ Cardinality(X) \in Nat /\ Cardinality(X2) \in Nat
        /\ Cardinality(Running) \in Nat /\ Cardinality(Running') \in Nat
        /\ Cardinality(X) + Cardinality(Running) < PacksPerMonth["free"] + MaxOpen
        /\ PacksPerMonth["free"] \in Nat /\ MaxOpen \in Nat
    BY <1>5, <2>1, <2>2, PackSets
  <2> HIDE DEF X, X2
  <2>4. CASE X2 \in SUBSET X /\ Running' \in SUBSET Running
    <3>1. Cardinality(X2) <= Cardinality(X) /\ Cardinality(Running') <= Cardinality(Running)
      BY <2>2, <2>4, PackSets
    <3>2. QED
      BY <2>1, <2>3, <3>1
  <2>5. CASE pack' = pack
    <3>1. first \in Int /\ first2 \in Int /\ first <= first2
      <4>1. CASE now' = now
        BY <1>5, <4>1 DEF MonthStart
      <4>2. CASE Tick
        <5>1. now' = now + 1
          BY <4>2 DEF Tick
        <5>2. first = now - (now % Month) /\ first2 = now' - (now' % Month)
          BY DEF MonthStart
        <5> HIDE DEF first, first2
        <5>3. QED
          BY <1>5, <5>1, <5>2, MonthsAdvance
      <4>3. QED
        BY <1>4, <4>1, <4>2
    <3>2. \A p \in Packs : pack[p].pc = "recorded" => pack[p].at \in Nat /\ pack[p].at <= now
      BY DEF QuotaInv, NoneFromTheFuture, QuotaTypeOK, Pack
    <3> HIDE DEF first, first2
    <3>3. X2 \in SUBSET X
      BY <2>5, <3>1, <3>2 DEF X, X2
    <3>4. QED
      BY <2>4, <2>5, <3>3 DEF Running
  <2>6. ASSUME NEW p \in Packs, PackStep(p), UNCHANGED billingVars
        PROVE  UsedBetween(MonthStart, now)' + Cardinality(Running') < PacksPerMonth["free"] + MaxOpen
    <3>0. first2 = first /\ now' = now
      BY <2>6 DEF billingVars, MonthStart
    <3>1. \A q \in Packs \ {p} : pack'[q] = pack[q]
      BY <2>6, OthersStay DEF QuotaInv
    <3> HIDE DEF first, first2
    <3>2. CASE CheckQuota(p) \/ Refuse(p) \/ EndUncounted(p)
      <4>1. pack'[p].pc # "recorded" /\ pack'[p].pc # "running"
        BY <3>2 DEF CheckQuota, Refuse, EndUncounted, QuotaInv, QuotaTypeOK, NoPack, Pack
      <4>2. X2 \in SUBSET X /\ Running' \in SUBSET Running
        BY <3>0, <3>1, <4>1 DEF X, X2, Running
      <4>3. QED
        BY <2>4, <4>2
    <3>3. CASE RecordUsage(p)
      <4>1. p \in Running /\ pack'[p].pc = "recorded"
        BY <3>3 DEF RecordUsage, QuotaInv, QuotaTypeOK, NoPack, Pack, Running
      <4>2. X2 \in SUBSET (X \cup {p}) /\ Running' \in SUBSET (Running \ {p})
        BY <3>0, <3>1, <4>1 DEF X, X2, Running
      <4>3. Cardinality(X2) <= Cardinality(X) + 1
        <5>1. X \cup {p} \in SUBSET Packs
          BY <2>2
        <5>2. /\ Cardinality(X \cup {p}) \in Nat
              /\ Cardinality(X2) <= Cardinality(X \cup {p})
          BY <4>2, <5>1, PackSets
        <5>3. Cardinality(X \cup {p}) <= Cardinality(X) + 1
          BY <2>2, OneMore
        <5>4. QED
          BY <2>3, <5>2, <5>3
      <4>4. Cardinality(Running') <= Cardinality(Running) - 1
        <5>1. Running \ {p} \in SUBSET Packs
          BY <2>2
        <5>2. Cardinality(Running') <= Cardinality(Running \ {p})
          BY <4>2, <5>1, PackSets
        <5>3. QED
          BY <2>2, <2>3, <4>1, <5>2, OneMore
      <4>5. QED
        BY <2>1, <2>3, <4>3, <4>4
    <3>4. CASE Admit(p)
      <4>1. Cardinality(X) < PacksPerMonth["free"]
        <5>1. pack[p].seen.start = 0 /\ pack[p].seen.tier = "free"
          BY <1>2 DEF FreeInv
        <5>2. ~ OverQuota("free", UsedBetween(MonthStart, now))
          BY <3>4, <5>1 DEF Admit, UsedThisPeriod
        <5>3. QED
          BY <2>1, <2>3, <5>2 DEF OverQuota
      <4>2. pack[p].pc = "checking" /\ pack'[p].pc = "running"
        BY <3>4 DEF Admit, QuotaInv, QuotaTypeOK, NoPack, Pack
      <4>3. X2 \in SUBSET X /\ Running' \in SUBSET Open
        BY <3>0, <3>1, <4>2 DEF X, X2, Running, Open
      <4>4. Open \in SUBSET Packs /\ Cardinality(Open) \in Nat /\ Cardinality(Open) <= MaxOpen
        BY PackSets DEF Open, QuotaInv, FewAreOpen
      <4>5. Cardinality(X2) <= Cardinality(X) /\ Cardinality(Running') <= Cardinality(Open)
        BY <2>2, <4>3, <4>4, PackSets
      <4>6. QED
        BY <2>1, <2>3, <4>1, <4>4, <4>5
    <3>5. QED
      BY <2>6, <3>2, <3>3, <3>4 DEF PackStep
  <2>7. QED
    BY <2>5, <2>6, QuotaStep
<1>8. QED
  BY <1>3, <1>4, <1>6, <1>7

\* A user who never paid exceeds FREE in a month by fewer packs than may be under way
\* at once, for every limit and number of packs (check_quota, _count_usage_this_period).
THEOREM FreeOverrun == QuotaSpec => []FreeOverrunIsBounded
<1>1. QuotaInit => FreeInv
  <2> SUFFICES ASSUME QuotaInit PROVE FreeInv
    OBVIOUS
  <2>1. row.start = 0 /\ \A h \in Hooks : hook[h].pc = "idle"
    BY DEF QuotaInit, Init, FreeRow, IdleHook
  <2>2. \A p \in Packs : pack[p].seen.start = 0 /\ pack[p].seen.tier = "free"
    BY DEF QuotaInit, NoPack, FreeRow
  <2>3. RunsAreCounted
    <3>1. RecordedBetween(MonthStart, now) = {} /\ Running = {}
      BY DEF QuotaInit, NoPack, RecordedBetween, Running
    <3>2. UsedBetween(MonthStart, now) = 0 /\ Cardinality(Running) = 0
      BY <3>1, FS_EmptySet DEF UsedBetween
    <3>3. PacksPerMonth["free"] \in Nat \cup {Unlimited}
      BY PlansAssumption DEF Tier
    <3>4. QED
      BY <3>2, <3>3, PacksAssumption DEF RunsAreCounted
  <2>4. QED
    BY <2>1, <2>2, <2>3 DEF FreeInv
<1>2. QuotaInv /\ FreeInv /\ [QuotaNext]_quotaVars => (QuotaInv /\ FreeInv)'
  BY QuotaInvStep, FreeInvStep
<1>3. QuotaInit => QuotaInv
  BY QuotaInitInv
<1>4. QuotaInv /\ FreeInv => FreeOverrunIsBounded
  <2> SUFFICES ASSUME QuotaInv, FreeInv, NothingHeld, PacksPerMonth["free"] # Unlimited
               PROVE  UsedBetween(MonthStart, now) < PacksPerMonth["free"] + MaxOpen
    BY DEF FreeOverrunIsBounded, NothingHeld
  <2>1. Running \in SUBSET Packs /\ RecordedBetween(MonthStart, now) \in SUBSET Packs
    BY DEF Running, RecordedBetween
  <2>2. Cardinality(Running) \in Nat /\ UsedBetween(MonthStart, now) \in Nat
    BY <2>1, PackSets DEF UsedBetween
  <2>3. PacksPerMonth["free"] \in Nat /\ MaxOpen \in Nat
    BY PlansAssumption, PacksAssumption DEF Tier
  <2>4. QED
    BY <2>2, <2>3 DEF FreeInv, RunsAreCounted
<1>5. QED
  BY <1>1, <1>2, <1>3, <1>4, PTL DEF QuotaSpec
=============================================================================
