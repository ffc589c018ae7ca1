----------------------------- MODULE StripePack -----------------------------
(***************************************************************************)
(* The Stripe pack (src/providers/packs/stripePack.ts) behind the proxy:   *)
(* a local imitation of the provider whose objects, webhook events and     *)
(* idempotency receipts are entries of one state file.  A request that     *)
(* passes the fault lab and the validation is one transaction on that file *)
(* (transactState in src/proxy/proxyHandler.ts); what the fault lab or the *)
(* validation answers, and every GET, leaves the state alone and is left   *)
(* out.  Names, currencies, metadata and periods are abstracted away, an   *)
(* event is only an entry that takes its place.                            *)
(***************************************************************************)
EXTENDS Clock, Integers, FiniteSets

CONSTANTS
    IdempotencyKey,
    UnitAmount,             \* unit_amount and amount in requests
    MaxOfKind,              \* bound: the objects of each kind
    IdempotencyTTL,         \* IDEMPOTENCY_TTL_SECONDS
    MaxStateEntries,        \* MAX_STATE_ENTRIES
    Absent                  \* null, or a parameter that is not given

Kind == {"customer", "product", "price", "payment_method", "checkout.session",
         "payment_intent", "refund", "subscription", "invoice"}

ASSUME StripeAssumption ==
    /\ UnitAmount \subseteq Nat \ {0} /\ MaxStateEntries \in Nat /\ IdempotencyTTL \in Nat \ {0}
    /\ Absent \notin Nat \cup (Kind \X Nat)

VARIABLES
    objects,        \* the entry of each id, <<kind, number>>
    events,         \* how many webhook events are stored
    receipts,       \* what is stored for each idempotency key
    effects         \* history: the effects under each key since a POST last opened its window

stripeOnly == <<objects, events, receipts, effects>>
stripeVars == <<now, stripeOnly>>

Nil == [x \in {} |-> x]

\* stateWrites: the entry that is written under an id, and writes over entries that are there.
Entry(id, object) == [i \in {id} |-> object]
Over(writes, entries) ==
    [i \in DOMAIN writes \cup DOMAIN entries |->
        IF i \in DOMAIN writes THEN writes[i] ELSE entries[i]]

StripeInit ==
    /\ now = 0
    /\ objects = Nil /\ events = 0 /\ receipts = Nil
    /\ effects = [k \in IdempotencyKey |-> [at |-> 0, count |-> 0]]

\* A deleted customer is kept as a tombstone that nothing finds.
getResource(id, kind) ==
    /\ id \in DOMAIN objects /\ id[1] = kind
    /\ kind = "customer" => ~objects[id].deleted

\* idGenerator: ids are never used again; clearState() forgets them all.
Fresh(kind) == <<kind, 1 + Cardinality({id \in DOMAIN objects : id[1] = kind})>>

\* The pack's numberOr() takes the number it is given second if it is one.
numberOr(current, other) == IF other \in Nat THEN other ELSE current
-----------------------------------------------------------------------------
(***************************************************************************)
(* An answer: its status, the object in its body and what it writes.       *)
(***************************************************************************)
Answer(status, id, writes, announced) ==
    [status |-> status, id |-> id, writes |-> writes, events |-> announced]

stripeFailure(status) == Answer(status, Absent, Nil, 0)
stripeObject(id, object) == Answer(200, id, Entry(id, object), 0)
responseWithWebhookWrites(id, object, announced) == Answer(200, id, Entry(id, object), announced)
cardDeclined(writes, announced) == Answer(402, Absent, writes, announced)

isDeclined(card) == card = "declined"
-----------------------------------------------------------------------------
handleCustomers(r) ==
    IF r.id = Absent THEN stripeObject(Fresh("customer"), [deleted |-> FALSE])
    ELSE IF ~getResource(r.id, "customer") THEN stripeFailure(404)
    ELSE stripeObject(r.id, [deleted |-> r.method = "DELETE"])

\* A product carries nothing that another object depends on.
handleProducts(r) ==
    IF r.id = Absent THEN stripeObject(Fresh("product"), <<>>)
    ELSE IF ~getResource(r.id, "product") THEN stripeFailure(404)
    ELSE stripeObject(r.id, objects[r.id])

handlePrices(r) ==
    IF r.id # Absent
    THEN IF getResource(r.id, "price") THEN stripeObject(r.id, objects[r.id]) ELSE stripeFailure(404)
    ELSE IF r.product # Absent /\ ~getResource(r.product, "product") THEN stripeFailure(404)
    ELSE stripeObject(Fresh("price"), [unit_amount |-> r.amount, recurring |-> r.flag])

handlePaymentMethods(r) == stripeObject(Fresh("payment_method"), <<>>)
handleCheckoutSessions(r) == stripeObject(Fresh("checkout.session"), <<>>)

createPaymentIntent(amount, confirmed) ==
    [amount |-> amount, amount_received |-> IF confirmed THEN amount ELSE 0, amount_refunded |-> 0,
     status |-> IF confirmed THEN "succeeded" ELSE "requires_payment_method"]

handlePaymentIntents(r) ==
    LET intent == objects[r.id] IN
    IF r.id # Absent /\ ~getResource(r.id, "payment_intent") THEN stripeFailure(404)
    ELSE IF r.action # "update" /\ isDeclined(r.card) THEN cardDeclined(Nil, 0)
    ELSE IF r.action = "create"
    THEN responseWithWebhookWrites(Fresh("payment_intent"), createPaymentIntent(r.amount, r.flag),
                                   IF r.flag THEN 1 ELSE 0)
    ELSE IF r.action = "confirm"
    THEN responseWithWebhookWrites(r.id,
            [intent EXCEPT !.status = "succeeded", !.amount_received = intent.amount], 1)
    ELSE stripeObject(r.id, [intent EXCEPT !.amount = numberOr(@, r.amount)])

\* A refund is not compared with what was received, and the total that the
\* intent then shows is numberOr(amount_refunded, 0) + amount.
handleRefunds(r) ==
    LET intent == objects[r.intent]
        amount == IF r.amount # Absent \/ r.intent = Absent THEN r.amount ELSE intent.amount
        refund == Fresh("refund")
        answer == responseWithWebhookWrites(refund,
                        [amount |-> amount, payment_intent |-> r.intent], 1)
    IN  IF r.intent # Absent /\ ~getResource(r.intent, "payment_intent") THEN stripeFailure(404)
        ELSE IF amount \in {0, Absent} THEN stripeFailure(400)
        ELSE IF r.intent = Absent THEN answer
        ELSE [answer EXCEPT !.writes = Over(@, Entry(r.intent,
                [intent EXCEPT !.amount_refunded = numberOr(@, 0) + amount, !.status = "succeeded"]))]
-----------------------------------------------------------------------------
createInvoice(subscription, price, status) ==
    LET amount == numberOr(objects[price].unit_amount, 0) IN
    [subscription |-> subscription, status |-> status, payment_intent |-> Absent, attempt_count |-> 1,
     amount_due |-> amount, amount_paid |-> IF status = "paid" THEN amount ELSE 0,
     amount_remaining |-> IF status = "paid" THEN 0 ELSE amount]

\* The first period, or a renewal, that is paid: invoice and payment intent.
Paid(subscription, price) ==
    LET intent == Fresh("payment_intent") IN
    Over(Entry(Fresh("invoice"),
               [createInvoice(subscription, price, "paid") EXCEPT !.payment_intent = intent]),
         Entry(intent, createPaymentIntent(objects[price].unit_amount, TRUE)))

\* The card is not asked when a subscription is created.
createSubscription(r) ==
    LET id == Fresh("subscription")
        subscription == [customer |-> r.customer, price |-> r.price, card |-> r.card,
                         status |-> "trialing", latest_invoice |-> Absent]
    IN  IF ~getResource(r.customer, "customer") \/ ~getResource(r.price, "price") THEN stripeFailure(404)
        ELSE IF ~objects[r.price].recurring THEN stripeFailure(400)
        ELSE IF r.flag THEN responseWithWebhookWrites(id, subscription, 1)
        ELSE Answer(200, id,
                Over(Entry(id, [subscription EXCEPT !.status = "active",
                                                    !.latest_invoice = Fresh("invoice")]),
                     Paid(id, r.price)), 3)

\* The card of the request, or else the one the subscription keeps.
CardFor(r, subscription) ==
    IF r.card = Absent /\ subscription # Absent THEN objects[subscription].card ELSE r.card

\* Variant: the subscription is active again before the card is asked.
renewOptimistic(r) ==
    LET subscription == objects[r.id]
        invoice == Fresh("invoice")
        billed == [subscription EXCEPT !.latest_invoice = invoice, !.status = "active"]
    IN  IF subscription.status = "canceled" THEN stripeFailure(400)
        ELSE IF isDeclined(CardFor(r, r.id))
        THEN cardDeclined(Over(Entry(invoice, createInvoice(r.id, subscription.price, "open")),
                               Entry(r.id, billed)), 2)
        ELSE Answer(200, r.id, Over(Entry(r.id, billed), Paid(r.id, subscription.price)), 3)

renewSubscription(r) ==
    LET subscription == objects[r.id]
        invoice == Fresh("invoice")
        billed == [subscription EXCEPT !.latest_invoice = invoice]
    IN  IF subscription.status = "canceled" THEN stripeFailure(400)
        ELSE IF isDeclined(CardFor(r, r.id))
        THEN cardDeclined(Over(Entry(invoice, createInvoice(r.id, subscription.price, "open")),
                               Entry(r.id, [billed EXCEPT !.status = "past_due"])), 2)
        ELSE Answer(200, r.id, Over(Entry(r.id, [billed EXCEPT !.status = "active"]),
                                    Paid(r.id, subscription.price)), 3)

updateSubscriptionStatus(id, status) ==
    responseWithWebhookWrites(id, [objects[id] EXCEPT !.status = status], 1)

handleSubscriptions(r) ==
    IF r.action = "create" THEN createSubscription(r)
    ELSE IF ~getResource(r.id, "subscription") THEN stripeFailure(404)
    ELSE IF r.action = "renew" THEN renewSubscription(r)
    ELSE IF r.action = "cancel" THEN updateSubscriptionStatus(r.id, "canceled")
    ELSE responseWithWebhookWrites(r.id,
            [objects[r.id] EXCEPT !.card = IF r.card = Absent THEN @ ELSE r.card], 1)

\* A paid invoice is returned as it is.  Otherwise the subscription follows
\* the outcome, a canceled one too.
payInvoice(r) ==
    LET invoice == objects[r.id]
        subscription == invoice.subscription
        attempted == [invoice EXCEPT !.attempt_count = numberOr(@, 0) + 1]
        paid == [attempted EXCEPT !.status = "paid", !.amount_paid = invoice.amount_due,
                                    !.amount_remaining = 0]
    IN  IF invoice.status = "paid" THEN stripeObject(r.id, invoice)
        ELSE IF invoice.status = "void" THEN stripeFailure(400)
        ELSE IF isDeclined(CardFor(r, subscription))
        THEN cardDeclined(Over(Entry(r.id, [attempted EXCEPT !.status = "open"]),
                Entry(subscription, [objects[subscription] EXCEPT !.status = "past_due"])), 2)
        ELSE Answer(200, r.id, Over(Entry(r.id, paid),
                Entry(subscription, [objects[subscription] EXCEPT
                        !.status = "active", !.latest_invoice = r.id])), 2)

\* Voiding asks nothing of the invoice, which may be paid.
handleInvoices(r) ==
    IF ~getResource(r.id, "invoice") THEN stripeFailure(404)
    ELSE IF r.action = "pay" THEN payInvoice(r)
    ELSE responseWithWebhookWrites(r.id, [objects[r.id] EXCEPT !.status = "void"], 1)

dispatchStripeRequest(r) ==
    CASE r.kind = "customer" -> handleCustomers(r)
      [] r.kind = "product" -> handleProducts(r)
      [] r.kind = "price" -> handlePrices(r)
      [] r.kind = "payment_method" -> handlePaymentMethods(r)
      [] r.kind = "checkout.session" -> handleCheckoutSessions(r)
      [] r.kind = "payment_intent" -> handlePaymentIntents(r)
      [] r.kind = "refund" -> handleRefunds(r)
      [] r.kind = "subscription" -> handleSubscriptions(r)
      [] r.kind = "invoice" -> handleInvoices(r)
-----------------------------------------------------------------------------
(***************************************************************************)
(* Requests that the validation lets through.  Ids are those of stored     *)
(* objects, or one that no object has.                                     *)
(***************************************************************************)
Blank == [method |-> "POST", kind |-> "customer", action |-> "create", id |-> Absent,
          customer |-> Absent, price |-> Absent, product |-> Absent, intent |-> Absent,
          card |-> Absent, amount |-> Absent, flag |-> FALSE]

Post(kind, action, id, card, amount) ==
    [Blank EXCEPT !.kind = kind, !.action = action, !.id = id, !.card = card, !.amount = amount]
Delete(kind, action, id) ==
    [Blank EXCEPT !.method = "DELETE", !.kind = kind, !.action = action, !.id = id]
PostPrice(amount, recurring, product) ==
    [Blank EXCEPT !.kind = "price", !.amount = amount, !.flag = recurring, !.product = product]
PostIntent(amount, confirm, card) ==
    [Blank EXCEPT !.kind = "payment_intent", !.amount = amount, !.flag = confirm, !.card = card]
PostSubscription(customer, price, card, trial) ==
    [Blank EXCEPT !.kind = "subscription", !.customer = customer, !.price = price, !.card = card,
                  !.flag = trial]
PostRefund(intent, amount) ==
    [Blank EXCEPT !.kind = "refund", !.intent = intent, !.amount = amount]

IdsOf(kind) == {id \in DOMAIN objects : id[1] = kind} \cup {<<kind, 0>>}
Cards == {Absent, "good", "declined"}

Creations ==
    {Post(kind, "create", Absent, Absent, Absent) :
        kind \in {"customer", "product", "payment_method", "checkout.session"}}
    \cup {PostPrice(a, recurring, p) :
        a \in UnitAmount, recurring \in BOOLEAN, p \in IdsOf("product") \cup {Absent}}
    \cup {PostIntent(a, confirm, c) : a \in UnitAmount, confirm \in BOOLEAN, c \in Cards}
    \cup {PostSubscription(u, p, c, trial) :
        u \in IdsOf("customer"), p \in IdsOf("price"), c \in Cards, trial \in BOOLEAN}
    \cup {PostRefund(i, a) :
        i \in IdsOf("payment_intent") \cup {Absent}, a \in UnitAmount \cup {Absent}}

\* The amount of an update is not validated: 0 stands for one that is not positive.
Changes ==
    {Post(id[1], "update", id, Absent, Absent) :
        id \in IdsOf("customer") \cup IdsOf("product") \cup IdsOf("price")}
    \cup {Delete("customer", "delete", id) : id \in IdsOf("customer")}
    \cup {Post("payment_intent", "confirm", id, c, Absent) :
        id \in IdsOf("payment_intent"), c \in Cards}
    \cup {Post("payment_intent", "update", id, Absent, a) :
        id \in IdsOf("payment_intent"), a \in UnitAmount \cup {0, Absent}}
    \cup {Post("subscription", action, id, c, Absent) :
        action \in {"renew", "update"}, id \in IdsOf("subscription"), c \in Cards}
    \cup {Post("subscription", "cancel", id, Absent, Absent) : id \in IdsOf("subscription")}
    \cup {Delete("subscription", "cancel", id) : id \in IdsOf("subscription")}
    \cup {Post("invoice", "pay", id, c, Absent) : id \in IdsOf("invoice"), c \in Cards}
    \cup {Post("invoice", "void", id, Absent, Absent) : id \in IdsOf("invoice")}
-----------------------------------------------------------------------------
Live(k) == k \in DOMAIN receipts /\ receipts[k].created + IdempotencyTTL > now

\* resolveIdempotencyReplay(): the same request is replayed and writes nothing.
Replayed(r, k) == Live(k) /\ receipts[k].request = r

handleDeterministic(r, k) ==
    IF Live(k) THEN stripeFailure(400) ELSE dispatchStripeRequest(r)

Receipt(r, answer) == [request |-> r, created |-> now, status |-> answer.status, id |-> answer.id]

\* Variant: only successful answers are remembered.
RememberedSuccess(r, k, answer) ==
    IF k = Absent \/ r.method # "POST" \/ answer.status # 200 THEN receipts
    ELSE [j \in DOMAIN receipts \cup {k} |-> IF j = k THEN Receipt(r, answer) ELSE receipts[j]]

\* transitionState(): an answer to a POST is remembered for its key whatever
\* its status, also the one that refuses the key to another request.
Remembered(r, k, answer) ==
    IF k = Absent \/ r.method # "POST" THEN receipts
    ELSE [j \in DOMAIN receipts \cup {k} |-> IF j = k THEN Receipt(r, answer) ELSE receipts[j]]

\* A POST opens the window of its key; in it every effect counts, a DELETE's too.
InWindow(k) == effects[k].count > 0 /\ now < effects[k].at + IdempotencyTTL
HasEffect(r, k, answer) ==
    k # Absent /\ answer.writes # Nil /\ (r.method = "POST" \/ InWindow(k))

Counted(k) ==
    IF InWindow(k) THEN [effects[k] EXCEPT !.count = @ + 1] ELSE [at |-> now, count |-> 1]

\* boundState(): the transaction throws when the entries are too many.
Fits == Cardinality(DOMAIN objects) + events + Cardinality(DOMAIN receipts) <= MaxStateEntries

WithinBound == \A id \in DOMAIN objects : id[2] <= MaxOfKind[id[1]]

Serve(r, k) ==
    /\ ~Replayed(r, k)
    /\ LET answer == handleDeterministic(r, k) IN
        /\ objects' = Over(answer.writes, objects)
        /\ events' = events + answer.events
        /\ receipts' = Remembered(r, k, answer)
        /\ effects' = IF HasEffect(r, k, answer) THEN [effects EXCEPT ![k] = Counted(k)] ELSE effects
    /\ Fits' /\ WithinBound'
    /\ UNCHANGED now

ClearState ==
    /\ objects' = Nil /\ events' = 0 /\ receipts' = Nil
    /\ effects' = [k \in IdempotencyKey |-> [at |-> 0, count |-> 0]]
    /\ UNCHANGED now

\* Clients ask for the operations in asked, <<kind, action>>.
StripeNext(asked) ==
    \/ \E r \in {r \in Creations \cup Changes : <<r.kind, r.action>> \in asked},
          k \in IdempotencyKey \cup {Absent} : Serve(r, k)
    \/ ClearState
    \/ Tick /\ UNCHANGED stripeOnly

StripeSpec(asked) == StripeInit /\ [][StripeNext(asked)]_stripeVars
-----------------------------------------------------------------------------
ObjectType(kind) ==
    CASE kind = "customer" -> [deleted : BOOLEAN]
      [] kind = "price" -> [unit_amount : UnitAmount, recurring : BOOLEAN]
      [] kind = "payment_intent" -> [amount : Nat, amount_received : Nat, amount_refunded : Nat,
                                     status : {"succeeded", "requires_payment_method"}]
      [] kind = "refund" -> [amount : Nat, payment_intent : IdsOf("payment_intent") \cup {Absent}]
      [] kind = "subscription" -> [customer : IdsOf("customer"), price : IdsOf("price"), card : Cards,
                                   status : {"trialing", "active", "past_due", "canceled"},
                                   latest_invoice : IdsOf("invoice") \cup {Absent}]
      [] kind = "invoice" -> [subscription : IdsOf("subscription"), status : {"open", "paid", "void"},
                              payment_intent : IdsOf("payment_intent") \cup {Absent}, attempt_count : Nat,
                              amount_due : Nat, amount_paid : Nat, amount_remaining : Nat]
      [] OTHER -> {<<>>}

\* Every entry is an object of its kind that names stored objects only, and
\* the state file keeps to its bound.
StripeTypeOK ==
    /\ \A id \in DOMAIN objects : objects[id] \in ObjectType(id[1])
    /\ events \in Nat /\ DOMAIN receipts \subseteq IdempotencyKey /\ Fits

\* Once a POST has acted under an idempotency key, nothing acts under it again within
\* the life of the key: not a retry, not a request whose card was declined, not one that
\* comes after another was refused the key, and not a DELETE.  (A DELETE stores no
\* receipt: repeated under a key that no POST has used it acts and announces again.)
OneEffectPerKey == \A k \in IdempotencyKey : effects[k].count <= 1

\* Subscriptions, invoices and payments agree after any sequence of requests:
\* an active subscription shows an invoice of its own that is not open, one
\* on trial shows none, and an invoice with a payment intent is not open and the
\* intent has succeeded.
BillingAgrees ==
    \A id \in DOMAIN objects :
        LET object == objects[id] IN
        /\ id[1] = "subscription" =>
            /\ object.status = "trialing" => object.latest_invoice = Absent
            /\ object.latest_invoice # Absent => objects[object.latest_invoice].subscription = id
            /\ object.status = "active" =>
                /\ object.latest_invoice # Absent
                /\ objects[object.latest_invoice].status # "open"
        /\ id[1] = "invoice" /\ object.payment_intent # Absent =>
            /\ object.status # "open"
            /\ objects[object.payment_intent].status = "succeeded"

\* docs/providers/stripe-core-pack.md:39: "A repeated mutation with the same key
\* and parameters returns the original response".  So while a key lives, what
\* is stored for it must stay.
RepeatsAreReplayed ==
    [][\A k \in DOMAIN receipts : Live(k) /\ receipts' # Nil => receipts'[k] = receipts[k]]_stripeVars
==============================================================================
