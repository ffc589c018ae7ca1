-------------------------- MODULE SafetyController --------------------------
(***************************************************************************)
(* LocalSafetyController (src/safety/safetyController.ts): kill switches,  *)
(* budgets, circuit breakers, the queue with its dead letters, and the     *)
(* leases under which callers perform side effects.  The store is one JSON *)
(* file; mutate() runs under its lock (module FileStore), so each call of  *)
(* it is one step here.  A lease is an object in its caller's memory: what *)
(* it is worth is looked up in the store by ledger key at every use.       *)
(* An operation that throws inside mutate() writes nothing.                *)
(***************************************************************************)
EXTENDS Naturals, Sequences, FiniteSets, FiniteSetsExt

CONSTANTS
    Caller,         \* concurrent users of the controller
    Action,         \* one per ledger key, i.e. idempotency key and action hash
    idempotencyKey, \* of each action
    cost,           \* of each action, per cost dimension
    Scope,          \* the scopes in use
    Global,         \* the scope that matches every action
    scopeMatches,   \* the actions that each scope matches
    BudgetId, BudgetChoice,    \* ids, and the budgets an operator configures
    CircuitId, CircuitChoice,  \* ids, and the circuits an operator configures
    Outcome,        \* what callers report to complete()
    Reason,         \* lengths of the reasons that operators give
    None,           \* nothing configured, nothing held, nobody
    LeaseTtl,       \* leaseTtlMs
    MaxControls, MaxLedger, MaxQueue, MaxDeadLetters, MaxAudit,  \* limits of the code
    MaxTime         \* bound: the clock stops here

ASSUME ScopeAssumption ==
    /\ Global \in Scope
    /\ scopeMatches \in [Scope -> SUBSET Action]
    /\ scopeMatches[Global] = Action
ASSUME NoneAssumption ==
    /\ None \notin Action \cup BudgetChoice \cup CircuitChoice
    /\ None \notin {"operator", "drill", "disabled"}

\* What validateAction, validateBudget and validateCircuit let an operator configure and a
\* caller ask for; validateState applies them to the store again.
CostKey == {"monetaryAmountMinor", "requests", "messages", "mutations", "deletes", "tokenCost"}

ValidCosts(costs) == costs \in [CostKey -> Nat]

ValidBudget(b) ==
    /\ b.scope \in Scope
    /\ {b.windowMs, b.velocityWindowMs} \subseteq Nat \ {0}
    /\ DOMAIN b.limits # {} /\ DOMAIN b.limits \subseteq CostKey \cup {"concurrency", "velocity"}
    /\ \A k \in DOMAIN b.limits : b.limits[k] \in Nat

ValidCircuit(c) ==
    c \in [scope : Scope, windowMs : Nat \ {0}, minimumSamples : 1 .. MaxLedger,
          maxFailureRateBps : 0 .. 10000, maxLatencyMs : Nat,
          maxPolicyViolations : 0 .. MaxLedger,
          maxReconciliationMismatches : 0 .. MaxLedger, state : {"closed", "open"}]

ASSUME ControlAssumption ==
    /\ \A a \in Action : ValidCosts(cost[a])
    /\ \A b \in BudgetChoice : ValidBudget(b)
    /\ \A c \in CircuitChoice : ValidCircuit(c)
ASSUME LimitAssumption ==
    /\ LeaseTtl \in Nat /\ MaxTime \in Nat /\ Reason \subseteq Nat
    /\ MaxControls \in Nat /\ MaxLedger \in Nat /\ MaxAudit \in Nat
    /\ MaxQueue \in Nat /\ MaxDeadLetters \in Nat /\ MaxQueue <= MaxDeadLetters

VARIABLES
    clock,        \* Date.now()
    switches,     \* of each scope: no record (None), "disabled", or who enabled it
    budgets, circuits,
    ledger,       \* the reservation or completion of each action
    queue, deadLetters,
    auditLen,     \* length of the audit chain
    pc,           \* how far each caller is with its lease
    lease,        \* the action of the lease a caller holds, and its admittedAt
    effects,      \* history: the leases under which a side effect was performed
    stopCall,     \* a stop() that passed its argument checks, or None
    drill         \* runScheduledGameDay: its step and its reason

store == <<switches, budgets, circuits, ledger, queue, deadLetters, auditLen>>
callers == <<pc, lease, effects>>
operator == <<stopCall, drill>>
vars == <<clock, switches, budgets, circuits, ledger, queue, deadLetters,
          auditLen, pc, lease, effects, stopCall, drill>>

Absent == [status |-> "absent"]
Reserved(t) == [status |-> "reserved", admittedAt |-> t]
Completed(entry, t, o) ==
    [status |-> "completed", admittedAt |-> entry.admittedAt,
     completedAt |-> t, outcome |-> o]

NoLease == [action |-> None, admittedAt |-> 0]
NoDrill == [step |-> "idle", reason |-> 0]

Init ==
    /\ clock = 0
    /\ switches = [s \in Scope |-> None]
    /\ budgets = [b \in BudgetId |-> None]
    /\ circuits = [c \in CircuitId |-> None]
    /\ ledger = [a \in Action |-> Absent]
    /\ queue = <<>>
    /\ deadLetters = <<>>
    /\ auditLen = 0
    /\ pc = [w \in Caller |-> "idle"]
    /\ lease = [w \in Caller |-> NoLease]
    /\ effects = {}
    /\ stopCall = None
    /\ drill = NoDrill
-----------------------------------------------------------------------------
(***************************************************************************)
(* Helpers                                                                 *)
(***************************************************************************)
\* appendAudit throws when the chain is full, and takes the operation with it.
AppendAudit(n) ==
    /\ auditLen + n <= MaxAudit
    /\ auditLen' = auditLen + n

TextLimit == 200                \* text(reason, ..., 200)
KillSwitchPrefix == 13          \* "kill switch: "
StopDrillSuffix == 11           \* " stop drill"
RecoveryDrillSuffix == 15       \* " recovery drill"

Present(led) == {a \in Action : led[a].status # "absent"}

\* leaseExpired: only a reservation expires.
LeaseExpired(entry, now) ==
    entry.status = "reserved" /\ now > entry.admittedAt + LeaseTtl

\* pruneExpiredLeases
Prune(led, now) ==
    [a \in Action |-> IF LeaseExpired(led[a], now) THEN Absent ELSE led[a]]

\* The completions that evaluateCircuit looks at.
Samples(c, led, now) ==
    {a \in scopeMatches[c.scope] :
        /\ led[a].status = "completed"
        /\ led[a].completedAt + c.windowMs >= now}

rateBps(count, total) == IF total = 0 THEN 0 ELSE (count * 10000) \div total

\* evaluateCircuit: would this circuit open now?
Trips(c, led, now) ==
    LET samples == Samples(c, led, now)
        Count(P(_)) == Cardinality({a \in samples : P(led[a].outcome)})
    IN  /\ Cardinality(samples) >= c.minimumSamples
        /\ \/ rateBps(Count(LAMBDA o : ~o.success), Cardinality(samples))
                > c.maxFailureRateBps
           \/ Count(LAMBDA o : o.policyViolation) > c.maxPolicyViolations
           \/ Count(LAMBDA o : o.reconciliationMismatch)
                > c.maxReconciliationMismatches
           \/ \E a \in samples : led[a].outcome.latencyMs > c.maxLatencyMs

\* The circuits that cover an action.
CircuitsOf(a) ==
    {id \in CircuitId : circuits[id] # None /\ a \in scopeMatches[circuits[id].scope]}

Tripping(a, led, now) ==
    {id \in CircuitsOf(a) :
        circuits[id].state = "closed" /\ Trips(circuits[id], led, now)}

\* Faulty variant: the opening is not saved.
OpenInMemory(ids) == circuits

OpenCircuits(ids) ==
    [id \in CircuitId |->
        IF id \in ids THEN [circuits[id] EXCEPT !.state = "open"] ELSE circuits[id]]

Enabled(s) == switches[s] \notin {None, "disabled"}
Stopped(a) == \E s \in Scope : Enabled(s) /\ a \in scopeMatches[s]
Broken(a) == \E id \in CircuitsOf(a) : circuits[id].state = "open"

\* assertActionAllowed.  A circuit it finds tripping is opened in memory and
\* makes it throw; only dequeue, which catches the error, saves the opening.
ActionAllowed(a, led, now) ==
    ~Stopped(a) /\ ~Broken(a) /\ Tripping(a, led, now) = {}

\* The ledger entries a budget counts, over one of its two windows.
BudgetEntries(b, led, now, window) ==
    {a \in Present(led) \cap scopeMatches[b.scope] : led[a].admittedAt + window >= now}

\* What the entries in the ledger have taken of limit k of a budget.
Usage(b, led, now, k) ==
    CASE k = "concurrency" ->
            Cardinality({a \in BudgetEntries(b, led, now, b.windowMs) :
                            led[a].status = "reserved"})
      [] k = "velocity" ->
            MapThenSumSet(LAMBDA a : cost[a]["requests"],
                          BudgetEntries(b, led, now, b.velocityWindowMs))
      [] OTHER ->
            MapThenSumSet(LAMBDA a : cost[a][k],
                          BudgetEntries(b, led, now, b.windowMs))

\* What admitting an action adds to it.
Charge(a, k) ==
    CASE k = "concurrency" -> 1
      [] k = "velocity" -> cost[a]["requests"]
      [] OTHER -> cost[a][k]

\* Faulty variant: the entries are compared with the limit, not the sum.
BudgetsAllowExisting(a, led, now) ==
    \A id \in BudgetId :
        budgets[id] # None /\ a \in scopeMatches[budgets[id].scope] =>
            \A k \in DOMAIN budgets[id].limits :
                Usage(budgets[id], led, now, k) <= budgets[id].limits[k]

\* assertBudgets
BudgetsAllow(a, led, now) ==
    \A id \in BudgetId :
        budgets[id] # None /\ a \in scopeMatches[budgets[id].scope] =>
            \A k \in DOMAIN budgets[id].limits :
                Usage(budgets[id], led, now, k) + Charge(a, k)
                    <= budgets[id].limits[k]

\* addDeadLetter for a sequence of items: the oldest letters are shifted out.
AddDeadLetters(items) ==
    LET all == deadLetters \o items
    IN  SubSeq(all, Len(all) - Min({Len(all), MaxDeadLetters}) + 1, Len(all))

\* validateState takes no two items of one id, which is made of the action and queuedAt.
UniqueIds(items) == \A i, j \in 1..Len(items) : items[i] = items[j] => i = j

\* Is there a record of this control, or room for one more?
RoomFor(controls, id) ==
    \/ controls[id] # None
    \/ Cardinality({x \in DOMAIN controls : controls[x] # None}) < MaxControls
-----------------------------------------------------------------------------
(***************************************************************************)
(* The emergency operator.  authorize() and the argument checks come       *)
(* before mutate(); a stop() that passed them waits in stopCall.           *)
(***************************************************************************)
ConfigureBudget(id, b) ==
    /\ RoomFor(budgets, id)
    /\ AppendAudit(1)
    /\ budgets' = [budgets EXCEPT ![id] = b]
    /\ UNCHANGED <<clock, switches, circuits, ledger, queue, deadLetters,
                   callers, operator>>

ConfigureCircuit(id, c) ==
    /\ RoomFor(circuits, id)
    /\ AppendAudit(1)
    /\ circuits' = [circuits EXCEPT ![id] = c]
    /\ UNCHANGED <<clock, switches, budgets, ledger, queue, deadLetters,
                   callers, operator>>

CallStop(s, r) ==
    /\ stopCall = None
    /\ r <= TextLimit
    /\ stopCall' = [scope |-> s, reason |-> r]
    /\ UNCHANGED <<clock, store, callers, drill>>

\* The items of a queue that are for some actions, in their order.
ItemsFor(actions, items) ==
    LET upTo[i \in 0 .. Len(items)] ==
            IF i = 0 THEN <<>>
            ELSE IF items[i].action \in actions THEN Append(upTo[i - 1], items[i])
            ELSE upTo[i - 1]
    IN  upTo[Len(items)]

\* Faulty variant: the queued actions are left where they are.
SetSwitchOnly(s, r, by) ==
    /\ AppendAudit(1)
    /\ switches' = [switches EXCEPT ![s] = by]
    /\ UNCHANGED <<queue, deadLetters>>

\* Faulty variant: matching actions are dropped, not dead-lettered.
SetSwitchAndDrop(s, r, by) ==
    /\ AppendAudit(1)
    /\ switches' = [switches EXCEPT ![s] = by]
    /\ queue' = ItemsFor(Action \ scopeMatches[s], queue)
    /\ UNCHANGED deadLetters

MatchingQueued(s) == ItemsFor(scopeMatches[s], queue)

\* Faulty variant: dead letters keep a shorter reason than operators may give.
SwitchAcceptedShort(s, r) ==
    /\ RoomFor(switches, s)
    /\ MatchingQueued(s) # <<>> => r + KillSwitchPrefix <= 32
    /\ UniqueIds(AddDeadLetters(MatchingQueued(s)))
    /\ auditLen + Len(MatchingQueued(s)) + 1 <= MaxAudit

\* Does the mutation of stop() get through?  There is a limit to the switches; the reason of
\* a dead letter is the operator's with a prefix, under the same limit; the audit chain needs
\* room; and an action that was dead-lettered, queued again and stopped within one
\* millisecond would be a dead letter twice under one id, which validateState refuses.
SwitchAccepted(s, r) ==
    /\ RoomFor(switches, s)
    /\ MatchingQueued(s) # <<>> => r + KillSwitchPrefix <= TextLimit
    /\ UniqueIds(AddDeadLetters(MatchingQueued(s)))
    /\ auditLen + Len(MatchingQueued(s)) + 1 <= MaxAudit

\* The mutation of stop(): setSwitch, deadLetterMatchingQueued, appendAudit.
SetSwitch(s, r, by) ==
    /\ SwitchAccepted(s, r)
    /\ AppendAudit(Len(MatchingQueued(s)) + 1)
    /\ switches' = [switches EXCEPT ![s] = by]
    /\ queue' = ItemsFor(Action \ scopeMatches[s], queue)
    /\ deadLetters' = AddDeadLetters(MatchingQueued(s))

Stop ==
    /\ stopCall # None
    /\ SetSwitch(stopCall.scope, stopCall.reason, "operator")
    /\ stopCall' = None
    /\ UNCHANGED <<clock, budgets, circuits, ledger, callers, drill>>

\* The mutation throws: the call ends and nothing is written.
StopThrows ==
    /\ stopCall # None
    /\ ~SwitchAccepted(stopCall.scope, stopCall.reason)
    /\ stopCall' = None
    /\ UNCHANGED <<clock, store, callers, drill>>

\* The mutation is never run: the lock is not obtained in time, or read() refuses a store
\* that has grown beyond MAX_STORE_BYTES.  How many bytes a store has is left open.
StopUnread ==
    /\ stopCall # None
    /\ stopCall' = None
    /\ UNCHANGED <<clock, store, callers, drill>>

ClearSwitch(s) ==
    /\ Enabled(s)
    /\ AppendAudit(1)
    /\ switches' = [switches EXCEPT ![s] = "disabled"]
    /\ UNCHANGED <<clock, budgets, circuits, ledger, queue, deadLetters, callers>>

Reenable(s) == ClearSwitch(s) /\ UNCHANGED operator
-----------------------------------------------------------------------------
(***************************************************************************)
(* admit() and the lease it returns                                        *)
(***************************************************************************)
NoIdempotencyCollision(a, led) ==
    \A b \in Present(led) : idempotencyKey[b] = idempotencyKey[a] => b = a

\* Faulty variant: no look at the other hashes under the idempotency key.
AdmitUnchecked(w, a) ==
    LET led == Prune(ledger, clock)
    IN  /\ pc[w] = "idle"
        /\ a \notin Present(led)
        /\ ActionAllowed(a, led, clock)
        /\ Cardinality(Present(led)) < MaxLedger
        /\ BudgetsAllow(a, led, clock)
        /\ AppendAudit(1)
        /\ ledger' = [led EXCEPT ![a] = Reserved(clock)]
        /\ pc' = [pc EXCEPT ![w] = "leased"]
        /\ lease' = [lease EXCEPT ![w] = [action |-> a, admittedAt |-> clock]]
        /\ UNCHANGED <<clock, switches, budgets, circuits, queue, deadLetters,
                       effects, operator>>

Admit(w, a) ==
    LET led == Prune(ledger, clock)
    IN  /\ pc[w] = "idle"
        /\ NoIdempotencyCollision(a, led)
        /\ a \notin Present(led)
        /\ ActionAllowed(a, led, clock)
        /\ Cardinality(Present(led)) < MaxLedger
        /\ BudgetsAllow(a, led, clock)
        /\ AppendAudit(1)
        /\ ledger' = [led EXCEPT ![a] = Reserved(clock)]
        /\ pc' = [pc EXCEPT ![w] = "leased"]
        /\ lease' = [lease EXCEPT ![w] = [action |-> a, admittedAt |-> clock]]
        /\ UNCHANGED <<clock, switches, budgets, circuits, queue, deadLetters,
                       effects, operator>>

\* The action is in the ledger: a replay lease.  Its commit() throws and its
\* assertActive() and complete() do nothing, so the caller is done.
AdmitReplay(w, a) ==
    LET led == Prune(ledger, clock)
    IN  /\ pc[w] = "idle"
        /\ a \in Present(led)
        /\ NoIdempotencyCollision(a, led)
        /\ ledger' = led
        /\ UNCHANGED <<clock, switches, budgets, circuits, queue, deadLetters,
                       auditLen, callers, operator>>

\* findLedger, leaseExpired and the status check of assertActive and commit.
ReservationActive(a) ==
    ledger[a].status = "reserved" /\ ~LeaseExpired(ledger[a], clock)

AssertActive(w) ==
    /\ pc[w] = "leased"
    /\ ReservationActive(lease[w].action)
    /\ ActionAllowed(lease[w].action, ledger, clock)
    /\ AppendAudit(1)
    /\ UNCHANGED <<clock, switches, budgets, circuits, ledger, queue,
                   deadLetters, callers, operator>>

\* Faulty variant: the first phase only looks at the lease.
CommitCheckLeaseOnly(w) ==
    /\ pc[w] = "leased"
    /\ ReservationActive(lease[w].action)
    /\ pc' = [pc EXCEPT ![w] = "committing"]
    /\ UNCHANGED <<clock, store, lease, effects, operator>>

\* commit(), first mutate().
CommitCheck(w) ==
    /\ pc[w] = "leased"
    /\ ReservationActive(lease[w].action)
    /\ ActionAllowed(lease[w].action, ledger, clock)
    /\ pc' = [pc EXCEPT ![w] = "committing"]
    /\ UNCHANGED <<clock, store, lease, effects, operator>>

\* commit(), operation(): the side effect, outside the controller's lock.
Operation(w) ==
    /\ pc[w] = "committing"
    /\ effects' = effects \cup {lease[w]}
    /\ pc' = [pc EXCEPT ![w] = "performed"]
    /\ UNCHANGED <<clock, store, lease, operator>>

\* commit(), second mutate().
CommitSeal(w) ==
    /\ pc[w] = "performed"
    /\ ReservationActive(lease[w].action)
    /\ AppendAudit(1)
    /\ pc' = [pc EXCEPT ![w] = "committed"]
    /\ UNCHANGED <<clock, switches, budgets, circuits, ledger, queue,
                   deadLetters, lease, effects, operator>>

\* A phase of commit() or the operation throws.  The caller may still
\* complete() the lease.
CommitThrows(w) ==
    /\ \/ /\ pc[w] = "leased"
          /\ ~(/\ ReservationActive(lease[w].action)
               /\ ActionAllowed(lease[w].action, ledger, clock))
       \/ pc[w] = "committing"
       \/ /\ pc[w] = "performed"
          /\ ~(ReservationActive(lease[w].action) /\ auditLen < MaxAudit)
    /\ pc' = [pc EXCEPT ![w] = "thrown"]
    /\ UNCHANGED <<clock, store, lease, effects, operator>>

\* complete(): tolerant of a pruned lease, for which it only leaves an audit
\* record, and of a lease completed before, for which it does nothing.
Complete(w, o) ==
    LET a == lease[w].action
        led == [ledger EXCEPT ![a] = Completed(@, clock, o)]
        tripped == Tripping(a, led, clock)
    IN  /\ pc[w] \in {"leased", "thrown", "committed"}
        /\ \/ /\ ledger[a].status = "reserved"
              /\ ledger' = led
              /\ circuits' = OpenCircuits(tripped)
              /\ AppendAudit(1 + Cardinality(tripped))
           \/ /\ ledger[a].status = "absent"
              /\ AppendAudit(1)
              /\ UNCHANGED <<ledger, circuits>>
           \/ /\ ledger[a].status = "completed"
              /\ UNCHANGED <<ledger, circuits, auditLen>>
        /\ pc' = [pc EXCEPT ![w] = "idle"]
        /\ lease' = [lease EXCEPT ![w] = NoLease]
        /\ UNCHANGED <<clock, switches, budgets, queue, deadLetters, effects,
                       operator>>

\* The caller crashes, or complete() throws: the lease is forgotten while its
\* reservation stays in the store.
Abandon(w) ==
    /\ pc[w] # "idle"
    /\ pc' = [pc EXCEPT ![w] = "idle"]
    /\ lease' = [lease EXCEPT ![w] = NoLease]
    /\ UNCHANGED <<clock, store, effects, operator>>
-----------------------------------------------------------------------------
(***************************************************************************)
(* The queue                                                               *)
(***************************************************************************)
Queued(a) == \E i \in 1..Len(queue) : queue[i].action = a

\* An action that is queued already is answered with its item, unchanged.
Enqueue(a) ==
    /\ ActionAllowed(a, ledger, clock)
    /\ ~Queued(a)
    /\ Len(queue) < MaxQueue
    /\ queue' = Append(queue, [action |-> a, queuedAt |-> clock])
    /\ AppendAudit(1)
    /\ UNCHANGED <<clock, switches, budgets, circuits, ledger, deadLetters,
                   callers, operator>>

Dequeue ==
    /\ queue # <<>>
    /\ ActionAllowed(Head(queue).action, ledger, clock)
    /\ queue' = Tail(queue)
    /\ AppendAudit(1)
    /\ UNCHANGED <<clock, switches, budgets, circuits, ledger, deadLetters,
                   callers, operator>>

\* The denial is caught and the dead letter saved, together with the circuits
\* that assertActionAllowed opened: it opens none when a switch or an open
\* circuit makes it throw first.
DequeueDenied ==
    LET a == Head(queue).action
        tripped == IF Stopped(a) \/ Broken(a) THEN {} ELSE Tripping(a, ledger, clock)
    IN  /\ queue # <<>>
        /\ ~ActionAllowed(a, ledger, clock)
        /\ queue' = Tail(queue)
        /\ UniqueIds(AddDeadLetters(<<Head(queue)>>))
        /\ deadLetters' = AddDeadLetters(<<Head(queue)>>)
        /\ circuits' = OpenCircuits(tripped)
        /\ AppendAudit(1 + Cardinality(tripped))
        /\ UNCHANGED <<clock, switches, budgets, ledger, callers, operator>>
-----------------------------------------------------------------------------
(***************************************************************************)
(* runScheduledGameDay: a read without the lock, then stop(), admit() and  *)
(* reenable(), each with its own mutate().                                 *)
(***************************************************************************)
DrillStep(step) == drill' = [drill EXCEPT !.step = step]

DrillRead(r) ==
    /\ drill = NoDrill
    /\ r <= TextLimit
    /\ ~Enabled(Global)
    /\ drill' = [step |-> "checked", reason |-> r]
    /\ UNCHANGED <<clock, store, callers, stopCall>>

DrillStop ==
    /\ drill.step = "checked"
    /\ drill.reason + StopDrillSuffix <= TextLimit
    /\ SetSwitch(Global, drill.reason + StopDrillSuffix, "drill")
    /\ DrillStep("stopped")
    /\ UNCHANGED <<clock, budgets, circuits, ledger, callers, stopCall>>

\* admit() must fail with the kill-switch code, which assertActionAllowed
\* gives whenever a switch matches and the action is not in the ledger.
DrillAdmit(a) ==
    LET led == Prune(ledger, clock)
    IN  /\ drill.step = "stopped"
        /\ NoIdempotencyCollision(a, led) /\ a \notin Present(led)
        /\ Stopped(a)
        /\ DrillStep("blocked")
        /\ UNCHANGED <<clock, store, callers, stopCall>>

DrillReenable ==
    /\ drill.step = "blocked"
    /\ drill.reason + RecoveryDrillSuffix <= TextLimit
    /\ ClearSwitch(Global)
    /\ DrillStep("reenabled")
    /\ UNCHANGED stopCall

DrillPassed ==
    /\ drill.step = "reenabled"
    /\ AppendAudit(1)
    /\ drill' = NoDrill
    /\ UNCHANGED <<clock, switches, budgets, circuits, ledger, queue,
                   deadLetters, callers, stopCall>>

\* Any step of the drill throws, or its process dies: what it did stays.  (An
\* admit() that is not blocked leaves a reservation that nobody uses, as after
\* Admit and Abandon.)
DrillFails ==
    /\ drill # NoDrill
    /\ drill' = NoDrill
    /\ UNCHANGED <<clock, store, callers, stopCall>>
-----------------------------------------------------------------------------
Tick ==
    /\ clock < MaxTime
    /\ clock' = clock + 1
    /\ UNCHANGED <<store, callers, operator>>

OperatorStep ==
    \/ \E id \in BudgetId, b \in BudgetChoice : ConfigureBudget(id, b)
    \/ \E id \in CircuitId, c \in CircuitChoice : ConfigureCircuit(id, c)
    \/ \E s \in Scope, r \in Reason : CallStop(s, r)
    \/ Stop \/ StopThrows \/ StopUnread
    \/ \E s \in Scope : Reenable(s)

CallerStep(w) ==
    \/ \E a \in Action : Admit(w, a) \/ AdmitReplay(w, a)
    \/ AssertActive(w) \/ CommitCheck(w) \/ Operation(w) \/ CommitSeal(w)
    \/ CommitThrows(w) \/ Abandon(w)
    \/ \E o \in Outcome : Complete(w, o)

QueueStep ==
    \/ \E a \in Action : Enqueue(a)
    \/ Dequeue \/ DequeueDenied

DrillNext ==
    \/ \E r \in Reason : DrillRead(r)
    \/ DrillStop \/ DrillReenable \/ DrillPassed \/ DrillFails
    \/ \E a \in Action : DrillAdmit(a)

Next ==
    \/ OperatorStep
    \/ \E w \in Caller : CallerStep(w)
    \/ QueueStep
    \/ DrillNext
    \/ Tick

Spec == Init /\ [][Next]_vars
-----------------------------------------------------------------------------
(***************************************************************************)
(* Properties                                                              *)
(***************************************************************************)
Entry ==
    {Absent} \cup [status : {"reserved"}, admittedAt : Nat]
    \cup [status : {"completed"}, admittedAt : Nat, completedAt : Nat, outcome : Outcome]

QueueItem == [action : Action, queuedAt : Nat]

\* The store's schema (validateState) and what the callers hold.  Two hashes under one
\* idempotency key would make every later read of the store throw.
TypeOK ==
    /\ clock \in 0..MaxTime
    /\ switches \in [Scope -> {None, "disabled", "operator", "drill"}]
    /\ Cardinality({s \in Scope : switches[s] # None}) <= MaxControls
    /\ DOMAIN budgets = BudgetId /\ DOMAIN circuits = CircuitId
    /\ \A id \in BudgetId : budgets[id] # None => ValidBudget(budgets[id])
    /\ \A id \in CircuitId : circuits[id] # None => ValidCircuit(circuits[id])
    /\ ledger \in [Action -> Entry]
    /\ Cardinality(Present(ledger)) <= MaxLedger
    /\ \A a, b \in Present(ledger) : idempotencyKey[a] = idempotencyKey[b] => a = b
    /\ queue \in Seq(QueueItem) /\ Len(queue) <= MaxQueue /\ UniqueIds(queue)
    /\ deadLetters \in Seq(QueueItem) /\ Len(deadLetters) <= MaxDeadLetters
    /\ UniqueIds(deadLetters)
    /\ auditLen \in 0..MaxAudit
    /\ pc \in [Caller -> {"idle", "leased", "committing", "performed",
                          "committed", "thrown"}]
    /\ lease \in [Caller -> [action : Action \cup {None}, admittedAt : Nat]]
    /\ \A w \in Caller : pc[w] # "idle" => lease[w].action \in Action
    /\ effects \subseteq [action : Action, admittedAt : Nat]

\* stop() moves matching actions out of the queue and enqueue() lets no more
\* of them in: no queued action is under an active kill switch.
QueueRespectsStops ==
    \A i \in 1..Len(queue) : ~Stopped(queue[i].action)

\* The callers that passed the first phase of commit() for an action.
InCommit(a) == {w \in Caller : pc[w] = "committing" /\ lease[w].action = a}

\* While a kill switch or an open circuit covers an action, no caller gets
\* past the first phase of commit() for it and no reservation is made for it:
\* only the callers that won the race before the stop may still perform it.
BlockedActionsStayOut ==
    [][\A a \in Action :
          (Stopped(a) \/ Broken(a)) /\ (Stopped(a) \/ Broken(a))' =>
              /\ InCommit(a)' \subseteq InCommit(a)
              /\ ledger'[a].status = "reserved" => ledger'[a] = ledger[a]]_vars

\* stop() keeps every record that it takes out of the queue as a dead letter,
\* however full the dead letters already are.
QueuedRecordsAreKept ==
    [][switches' # switches =>
          \A i \in 1..Len(queue) :
              \/ \E j \in 1..Len(queue') : queue'[j] = queue[i]
              \/ \E j \in 1..Len(deadLetters') : deadLetters'[j] = queue[i]]_vars

WithinLimits(b, led, now) ==
    \A k \in DOMAIN b.limits : Usage(b, led, now, k) <= b.limits[k]

\* Reservations, completions, pruning and the passing of time never take a
\* budget over a limit; only configuring another budget can.
BudgetsAreNotOversubscribed ==
    [][\A id \in BudgetId :
          LET b == budgets[id]
          IN  b # None /\ budgets'[id] = b /\ WithinLimits(b, ledger, clock)
                  => WithinLimits(b, ledger', clock')]_vars

\* complete() leaves no covered circuit closed whose thresholds its own
\* outcome crossed: the next admission of a covered action is refused.
CompletionOpensCircuits ==
    [][\A a \in Action :
          ledger[a].status = "reserved" /\ ledger'[a].status = "completed" =>
              \A id \in CircuitsOf(a) :
                  Trips(circuits[id], ledger', clock) => circuits'[id].state = "open"]_vars

\* Why may the mutation of stop() throw, once its arguments were accepted?  The audit chain
\* has no room left; or the scope is new and there are too many switches; or a queued action
\* is to be dead-lettered for which the reason is too long or which is a dead letter already.
\* While a stop is in force there is nothing to be dead-lettered under it, so a further stop
\* of its scope gets through, however long its reason and however full the switches.
AcceptedStopTakesEffect ==
    [][StopThrows =>
          \/ auditLen + Len(queue) + 1 > MaxAudit
          \/ /\ ~Enabled(stopCall.scope)
             /\ \/ Cardinality({s \in Scope : switches[s] # None}) = MaxControls
                \/ \E i \in 1..Len(queue) :
                     /\ queue[i].action \in scopeMatches[stopCall.scope]
                     /\ \/ stopCall.reason + KillSwitchPrefix > TextLimit
                        \/ \E j \in 1..Len(deadLetters) : deadLetters[j] = queue[i]]_vars

=============================================================================
