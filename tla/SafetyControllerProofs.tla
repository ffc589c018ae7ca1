----------------------- MODULE SafetyControllerProofs -----------------------
(***************************************************************************)
(* Proofs about SafetyController, for any callers, actions, scopes,        *)
(* budgets, circuits and limits.                                           *)
(***************************************************************************)
EXTENDS SafetyController, FiniteSetTheorems, WellFoundedInduction, TLAPS

(***************************************************************************)
(* Filtering a queue                                                       *)
(***************************************************************************)
\* The order of the numbers.
Less == {p \in Nat \X Nat : p[1] < p[2]}

\* A set of numbers has a least one: this is how the proofs below do induction.
LEMMA LeastNumber ==
    ASSUME NEW S \in SUBSET Nat, S # {}
    PROVE  \E n \in S : \A m \in S : n <= m
<1>1. IsWellFoundedOn(Less, Nat)
    BY NatLessThanWellFounded DEF OpToRel, Less
<1>2. PICK n \in S : \A m \in S : ~(<<m, n>> \in Less)
    BY <1>1, WFMin
<1>3. ASSUME NEW m \in S PROVE n <= m
  <2>1. ~(<<m, n>> \in Less) /\ m \in Nat /\ n \in Nat
      BY <1>2
  <2>2. ~(m < n)
      BY <2>1 DEF Less
  <2> QED BY <2>1, <2>2
<1> QED BY <1>3

\* A set with 0 and with the successor of each of its numbers below a bound has all
\* numbers up to the bound.
LEMMA NumbersUpTo ==
    ASSUME NEW bound \in Nat, NEW S, 0 \in S,
           \A n \in 0 .. bound - 1 : n \in S => n + 1 \in S
    PROVE  0 .. bound \subseteq S
<1> DEFINE T == {n \in 0 .. bound : n \notin S}
<1> SUFFICES ASSUME T # {} PROVE FALSE
    OBVIOUS
<1>1. PICK n \in T : \A m \in T : n <= m
  <2>1. T \in SUBSET Nat
      OBVIOUS
  <2> HIDE DEF T
  <2> QED BY <2>1, LeastNumber
<1>2. n \in 1 .. bound /\ n \notin S
    BY <1>1
<1>3. n - 1 \in 0 .. bound - 1 /\ n - 1 \notin T
    BY <1>1, <1>2
<1>4. n - 1 \in S
    BY <1>2, <1>3
<1> QED BY <1>2, <1>3, <1>4

\* What the items up to a place in the queue leave.
Partial(actions, items, f) ==
    f = [i \in 0 .. Len(items) |->
            IF i = 0 THEN <<>>
            ELSE IF items[i].action \in actions THEN Append(f[i - 1], items[i])
            ELSE f[i - 1]]

\* What the item at a place adds.
Taking(actions, items, s, i) == IF items[i].action \in actions THEN Append(s, items[i]) ELSE s

\* The recursion is well founded: there is such a function.
LEMMA PartialExists ==
    ASSUME NEW actions, NEW S, NEW items \in Seq(S)
    PROVE  \E f : Partial(actions, items, f)
<1> DEFINE N == Len(items)
           Good(n, f) == /\ f \in [0 .. n -> Seq(S)]
                         /\ f[0] = <<>>
                         /\ \A i \in 1 .. n : f[i] = Taking(actions, items, f[i - 1], i)
           Ns == {n \in 0 .. N : \E f : Good(n, f)}
<1>0. N \in Nat
    OBVIOUS
<1>1. 0 \in Ns
  <2>1. Good(0, [i \in 0 .. 0 |-> <<>>])
      OBVIOUS
  <2> HIDE DEF Good
  <2> QED BY <1>0, <2>1
<1>2. ASSUME NEW n \in 0 .. N - 1, n \in Ns PROVE n + 1 \in Ns
  <2>1. PICK f : Good(n, f)
      BY <1>2
  <2> DEFINE x == Taking(actions, items, f[n], n + 1)
             g == [i \in 0 .. n + 1 |-> IF i = n + 1 THEN x ELSE f[i]]
  <2>2. x \in Seq(S)
    <3>1. items[n + 1] \in S /\ f[n] \in Seq(S)
        BY <1>2, <2>1
    <3> QED BY <3>1 DEF Taking
  <2> HIDE DEF x
  <2>3. g \in [0 .. n + 1 -> Seq(S)] /\ g[0] = <<>>
      BY <1>2, <2>1, <2>2
  <2>4. ASSUME NEW i \in 1 .. n + 1 PROVE g[i] = Taking(actions, items, g[i - 1], i)
    <3>1. CASE i = n + 1
      <4>1. g[i] = x /\ g[i - 1] = f[n]
          BY <1>2, <3>1
      <4> QED BY <3>1, <4>1 DEF x
    <3>2. CASE i # n + 1
      <4>1. i \in 1 .. n /\ g[i] = f[i] /\ g[i - 1] = f[i - 1]
          BY <1>2, <3>2
      <4> QED BY <2>1, <4>1
    <3> QED BY <3>1, <3>2
  <2>5. Good(n + 1, g)
      BY <2>3, <2>4
  <2>6. n + 1 \in 0 .. N
      BY <1>0, <1>2
  <2> HIDE DEF Good
  <2> QED BY <2>5, <2>6
<1>3. N \in Ns
  <2> HIDE DEF Ns
  <2>1. 0 .. N \subseteq Ns
      BY <1>0, <1>1, <1>2, NumbersUpTo
  <2> QED BY <1>0, <2>1
<1>4. PICK f : Good(N, f)
    BY <1>3
<1>5. Partial(actions, items, f)
  <2> DEFINE h == [i \in 0 .. N |-> IF i = 0 THEN <<>>
                        ELSE IF items[i].action \in actions THEN Append(f[i - 1], items[i])
                        ELSE f[i - 1]]
  <2>1. \A i \in 0 .. N : f[i] = h[i]
    <3> SUFFICES ASSUME NEW i \in 0 .. N PROVE f[i] = h[i]
        OBVIOUS
    <3>1. CASE i = 0
        BY <1>4, <3>1
    <3>2. CASE i # 0
      <4>1. i \in 1 .. N
          BY <1>0, <3>2
      <4> QED BY <1>4, <3>2, <4>1 DEF Taking
    <3> QED BY <3>1, <3>2
  <2>2. f = h
      BY <1>4, <2>1
  <2> QED BY <2>2 DEF Partial
<1> QED BY <1>5

\* A queue with at most one item per action, as enqueue() leaves it.
OnePerAction(items) ==
    \A i, j \in 1 .. Len(items) : items[i].action = items[j].action => i = j

\* Filtering keeps exactly the items for the actions, each once.
LEMMA FilteredItems ==
    ASSUME NEW actions, NEW S, NEW items \in Seq(S)
    PROVE  LET s == ItemsFor(actions, items)
           IN  /\ s \in Seq(S) /\ Len(s) <= Len(items)
               /\ \A k \in 1 .. Len(s) : s[k].action \in actions
                                           /\ \E j \in 1 .. Len(items) : items[j] = s[k]
               /\ \A j \in 1 .. Len(items) : items[j].action \in actions =>
                    \E k \in 1 .. Len(s) : s[k] = items[j]
               /\ OnePerAction(items) => OnePerAction(s)
<1> DEFINE N == Len(items)
           f == CHOOSE f : Partial(actions, items, f)
           Sound(i) == \A k \in 1 .. Len(f[i]) : /\ f[i][k].action \in actions
                                                 /\ \E j \in 1 .. i : items[j] = f[i][k]
           Kept(i) == \A j \in 1 .. i : items[j].action \in actions =>
                            \E k \in 1 .. Len(f[i]) : f[i][k] = items[j]
           Once(i) == OnePerAction(items) => OnePerAction(f[i])
           Good(i) == f[i] \in Seq(S) /\ Len(f[i]) <= i /\ Sound(i) /\ Kept(i) /\ Once(i)
           Ns == {i \in 0 .. N : Good(i)}
<1>0. N \in Nat
    OBVIOUS
<1>1. Partial(actions, items, f)
    BY PartialExists
<1>2. ItemsFor(actions, items) = f[N]
    BY DEF ItemsFor, Partial
<1> HIDE DEF f
<1>3. /\ f[0] = <<>>
      /\ \A i \in 0 .. N - 1 : f[i + 1] = Taking(actions, items, f[i], i + 1)
  <2> DEFINE h == [i \in 0 .. N |-> IF i = 0 THEN <<>>
                        ELSE IF items[i].action \in actions THEN Append(f[i - 1], items[i])
                        ELSE f[i - 1]]
  <2>1. f = h
      BY <1>1 DEF Partial
  <2>2. h[0] = <<>>
      BY <1>0
  <2>3. ASSUME NEW i \in 0 .. N - 1 PROVE h[i + 1] = Taking(actions, items, f[i], i + 1)
    <3>1. i + 1 \in 0 .. N /\ i + 1 # 0 /\ (i + 1) - 1 = i
        BY <1>0
    <3> QED BY <3>1 DEF Taking
  <2> HIDE DEF h
  <2> QED BY <2>1, <2>2, <2>3
<1>4. 0 \in Ns
  <2>1. f[0] \in Seq(S) /\ Len(f[0]) = 0
      BY <1>3
  <2>2. Good(0)
      BY <2>1 DEF OnePerAction
  <2> QED BY <1>0, <2>2
<1>5. ASSUME NEW i \in 0 .. N - 1, i \in Ns PROVE i + 1 \in Ns
  <2>1. /\ Good(i) /\ i + 1 \in 1 .. N /\ items[i + 1] \in S
        /\ f[i + 1] = Taking(actions, items, f[i], i + 1)
    <3>1. Good(i)
        BY <1>5
    <3>2. i + 1 \in 1 .. N
        BY <1>0, <1>5
    <3> QED BY <1>3, <1>5, <3>1, <3>2
  <2>2. CASE items[i + 1].action \notin actions
    <3>1. f[i + 1] = f[i]
        BY <2>1, <2>2 DEF Taking
    <3>2. Kept(i + 1)
        BY <1>5, <2>1, <2>2, <3>1
    <3>3. Sound(i + 1)
        BY <1>5, <2>1, <3>1
    <3>4. Once(i + 1) /\ f[i + 1] \in Seq(S) /\ Len(f[i + 1]) <= i + 1
        BY <1>5, <2>1, <3>1
    <3>5. Good(i + 1)
        BY <3>2, <3>3, <3>4
    <3> QED BY <2>1, <3>5
  <2>3. CASE items[i + 1].action \in actions
    <3>1. f[i + 1] = Append(f[i], items[i + 1])
        BY <2>1, <2>3 DEF Taking
    <3>2. /\ f[i + 1] \in Seq(S) /\ Len(f[i + 1]) = Len(f[i]) + 1 /\ Len(f[i]) \in Nat
          /\ \A k \in 1 .. Len(f[i]) : f[i + 1][k] = f[i][k]
          /\ f[i + 1][Len(f[i]) + 1] = items[i + 1]
      <4>1. f[i] \in Seq(S) /\ items[i + 1] \in S
          BY <2>1
      <4>2. PICK s \in Seq(S) : s = f[i]
          BY <4>1
      <4>3. PICK x \in S : x = items[i + 1]
          BY <4>1
      <4>4. /\ Append(s, x) \in Seq(S) /\ Len(Append(s, x)) = Len(s) + 1 /\ Len(s) \in Nat
            /\ \A k \in 1 .. Len(s) : Append(s, x)[k] = s[k]
            /\ Append(s, x)[Len(s) + 1] = x
          OBVIOUS
      <4> QED BY <3>1, <4>2, <4>3, <4>4
    <3>3. Sound(i + 1)
      <4> SUFFICES ASSUME NEW k \in 1 .. Len(f[i + 1])
                   PROVE  /\ f[i + 1][k].action \in actions
                          /\ \E j \in 1 .. i + 1 : items[j] = f[i + 1][k]
          OBVIOUS
      <4>1. CASE k = Len(f[i]) + 1
          BY <1>5, <2>1, <2>3, <3>2, <4>1
      <4>2. CASE k \in 1 .. Len(f[i])
        <5>1. f[i][k].action \in actions /\ f[i + 1][k] = f[i][k]
            BY <2>1, <3>2, <4>2
        <5>2. PICK j \in 1 .. i : items[j] = f[i][k]
            BY <2>1, <4>2
        <5>3. j \in 1 .. i + 1
            BY <1>5, <5>2
        <5> QED BY <5>1, <5>2, <5>3
      <4> QED BY <3>2, <4>1, <4>2
    <3>4. Kept(i + 1)
      <4> SUFFICES ASSUME NEW j \in 1 .. i + 1, items[j].action \in actions
                   PROVE  \E k \in 1 .. Len(f[i + 1]) : f[i + 1][k] = items[j]
          OBVIOUS
      <4>1. CASE j = i + 1
          BY <3>2, <4>1
      <4>2. CASE j \in 1 .. i
        <5>1. PICK k \in 1 .. Len(f[i]) : f[i][k] = items[j]
            BY <2>1, <4>2
        <5>2. k \in 1 .. Len(f[i + 1]) /\ f[i + 1][k] = items[j]
            BY <3>2, <5>1
        <5> QED BY <5>2
      <4> QED BY <1>5, <4>1, <4>2
    <3>5. Len(f[i + 1]) <= i + 1
        BY <1>5, <2>1, <3>2
    <3>6. ASSUME OnePerAction(items) PROVE OnePerAction(f[i + 1])
      <4>1. ASSUME NEW k \in 1 .. Len(f[i]) PROVE f[i][k].action # items[i + 1].action
        <5>1. PICK j \in 1 .. i : items[j] = f[i][k]
            BY <2>1, <4>1
        <5>2. j \in 1 .. N /\ j # i + 1
            BY <1>5, <2>1, <5>1
        <5> QED BY <2>1, <3>6, <5>1, <5>2 DEF OnePerAction
      <4>2. OnePerAction(f[i])
          BY <2>1, <3>6
      <4> SUFFICES ASSUME NEW k \in 1 .. Len(f[i + 1]), NEW m \in 1 .. Len(f[i + 1]),
                          f[i + 1][k].action = f[i + 1][m].action
                   PROVE  k = m
          BY DEF OnePerAction
      <4>3. CASE k \in 1 .. Len(f[i]) /\ m \in 1 .. Len(f[i])
        <5>1. f[i][k].action = f[i][m].action
            BY <3>2, <4>3
        <5> QED BY <4>2, <4>3, <5>1 DEF OnePerAction
      <4>4. CASE k = Len(f[i]) + 1 /\ m \in 1 .. Len(f[i])
          BY <3>2, <4>1, <4>4
      <4>5. CASE k \in 1 .. Len(f[i]) /\ m = Len(f[i]) + 1
          BY <3>2, <4>1, <4>5
      <4>6. /\ k \in 1 .. Len(f[i]) \/ k = Len(f[i]) + 1
            /\ m \in 1 .. Len(f[i]) \/ m = Len(f[i]) + 1
          BY <3>2
      <4> QED BY <4>3, <4>4, <4>5, <4>6
    <3>7. Good(i + 1)
        BY <3>2, <3>3, <3>4, <3>5, <3>6
    <3> QED BY <2>1, <3>7
  <2> QED BY <2>2, <2>3
<1>6. Good(N)
  <2>1. N \in Ns
    <3> HIDE DEF Ns
    <3>1. 0 .. N \subseteq Ns
        BY <1>0, <1>4, <1>5, NumbersUpTo
    <3> QED BY <1>0, <3>1
  <2> QED BY <2>1
<1> QED BY <1>2, <1>6
-----------------------------------------------------------------------------
(***************************************************************************)
(* The inductive invariant: the type invariant, in parts, and what makes   *)
(* its counts meaningful: only finitely many actions are in the ledger and *)
(* finitely many circuits are configured at any time.                      *)
(***************************************************************************)
ValidLedger(led) ==
    /\ led \in [Action -> Entry]
    /\ IsFiniteSet(Present(led)) /\ Cardinality(Present(led)) <= MaxLedger
    /\ \A a, b \in Present(led) : idempotencyKey[a] = idempotencyKey[b] => a = b

\* The scopes that have a switch, and the circuits that are configured.
Listed == {s \in Scope : switches[s] # None}
Configured == {id \in CircuitId : circuits[id] # None}

\* What validateState() asks of switches and budgets, of circuits, of the queues, and
\* what the calls under way hold.
ValidControls ==
    /\ switches \in [Scope -> {None, "disabled", "operator", "drill"}]
    /\ IsFiniteSet(Listed) /\ Cardinality(Listed) <= MaxControls
    /\ DOMAIN budgets = BudgetId
    /\ \A id \in BudgetId : budgets[id] # None => ValidBudget(budgets[id])
    /\ stopCall # None => stopCall \in [scope : Scope, reason : Reason]

ValidCircuits ==
    /\ circuits \in [CircuitId -> {circuits[id] : id \in CircuitId}]
    /\ \A id \in CircuitId : circuits[id] # None => ValidCircuit(circuits[id])
    /\ IsFiniteSet(Configured)

ValidQueue(q) == q \in Seq(QueueItem) /\ Len(q) <= MaxQueue /\ OnePerAction(q)
ValidDeadLetters(d) == d \in Seq(QueueItem) /\ Len(d) <= MaxDeadLetters /\ UniqueIds(d)

Progress == {"idle", "leased", "committing", "performed", "committed", "thrown"}

ValidCallers ==
    /\ pc \in [Caller -> Progress]
    /\ lease \in [Caller -> [action : Action \cup {None}, admittedAt : Nat]]
    /\ \A w \in Caller : pc[w] # "idle" => lease[w].action \in Action
    /\ effects \subseteq [action : Action, admittedAt : Nat]

\* The inductive invariant.
SafetyInv ==
    /\ clock \in 0 .. MaxTime /\ auditLen \in 0 .. MaxAudit
    /\ ValidControls /\ ValidCircuits /\ ValidLedger(ledger)
    /\ ValidQueue(queue) /\ ValidDeadLetters(deadLetters) /\ QueueRespectsStops
    /\ ValidCallers

\* The invariant is stronger than the type invariant.
LEMMA SafetyInvTypes == SafetyInv => TypeOK
BY DEF SafetyInv, TypeOK, ValidControls, ValidCircuits, ValidLedger, ValidQueue, ValidDeadLetters,
       ValidCallers, Progress, Listed, OnePerAction, UniqueIds

\* Nothing is configured, queued or held at first.
LEMMA SafetyInitInv == Init => SafetyInv
<1> SUFFICES ASSUME Init PROVE SafetyInv
    OBVIOUS
<1> USE LimitAssumption DEF Init
<1>1. Present(ledger) = {} /\ Configured = {} /\ Listed = {}
    BY DEF Present, Absent, Configured, Listed
<1>2. ValidLedger(ledger)
  <2>1. IsFiniteSet(Present(ledger)) /\ Cardinality(Present(ledger)) = 0
      BY <1>1, FS_EmptySet
  <2>2. ledger \in [Action -> Entry]
      BY DEF Entry
  <2> QED BY <1>1, <2>1, <2>2 DEF ValidLedger
<1>3. ValidControls /\ ValidCircuits
    BY <1>1, FS_EmptySet DEF ValidControls, ValidCircuits
<1>4. ValidQueue(queue) /\ ValidDeadLetters(deadLetters) /\ QueueRespectsStops
    BY DEF ValidQueue, ValidDeadLetters, QueueRespectsStops, OnePerAction, UniqueIds
<1>5. ValidCallers
    BY DEF ValidCallers, NoLease, Progress
<1> QED BY <1>2, <1>3, <1>4, <1>5 DEF SafetyInv

\* The audit chain after n more records.
LEMMA LongerAudit ==
    ASSUME auditLen \in 0 .. MaxAudit, NEW n \in Nat, AppendAudit(n)
    PROVE  auditLen' \in 0 .. MaxAudit
BY LimitAssumption DEF AppendAudit

\* Pruning removes reservations and changes nothing else.
LEMMA PrunedLedger ==
    ASSUME NEW led, ValidLedger(led), NEW now \in Nat
    PROVE  /\ ValidLedger(Prune(led, now))
           /\ \A a \in Action : Prune(led, now)[a] = led[a]
                                 \/ (Prune(led, now)[a] = Absent /\ led[a].status = "reserved")
           /\ Present(Prune(led, now)) \subseteq Present(led)
<1>1. \A a \in Action : Prune(led, now)[a] = led[a]
                         \/ (Prune(led, now)[a] = Absent /\ led[a].status = "reserved")
    BY DEF Prune, LeaseExpired
<1>2. Prune(led, now) \in [Action -> Entry]
    BY DEF ValidLedger, Prune, Entry
<1>3. Present(Prune(led, now)) \subseteq Present(led)
    BY <1>1 DEF Present, Absent
<1>4. /\ IsFiniteSet(Present(Prune(led, now)))
      /\ Cardinality(Present(Prune(led, now))) <= Cardinality(Present(led))
    BY <1>3, FS_Subset DEF ValidLedger
<1>5. Cardinality(Present(Prune(led, now))) \in Nat /\ Cardinality(Present(led)) \in Nat
    BY <1>4, FS_CardinalityType DEF ValidLedger
<1> QED BY <1>1, <1>2, <1>3, <1>4, <1>5, LimitAssumption DEF ValidLedger

\* A reservation of an action that is new, and the only one of its key.
LEMMA ReservedLedger ==
    ASSUME NEW led, ValidLedger(led), NEW a \in Action, NEW t \in Nat,
           a \notin Present(led), NoIdempotencyCollision(a, led),
           Cardinality(Present(led)) < MaxLedger
    PROVE  ValidLedger([led EXCEPT ![a] = Reserved(t)])
<1> DEFINE new == [led EXCEPT ![a] = Reserved(t)]
<1>1. new \in [Action -> Entry]
    BY DEF ValidLedger, Entry, Reserved
<1>2. Present(new) = Present(led) \cup {a}
    BY DEF ValidLedger, Present, Reserved
<1>3. /\ IsFiniteSet(Present(led) \cup {a})
      /\ Cardinality(Present(led) \cup {a}) = Cardinality(Present(led)) + 1
      /\ Cardinality(Present(led)) \in Nat
    BY FS_AddElement, FS_CardinalityType DEF ValidLedger
<1>4. \A b, c \in Present(new) : idempotencyKey[b] = idempotencyKey[c] => b = c
    BY <1>2 DEF ValidLedger, NoIdempotencyCollision
<1> HIDE DEF new
<1>5. ValidLedger(new)
    BY <1>1, <1>2, <1>3, <1>4, LimitAssumption DEF ValidLedger
<1> QED BY <1>5 DEF new

\* A completion takes the place of its reservation.
LEMMA CompletedLedger ==
    ASSUME NEW led, ValidLedger(led), NEW a \in Action, NEW t \in Nat, NEW o \in Outcome,
           led[a].status = "reserved"
    PROVE  ValidLedger([led EXCEPT ![a] = Completed(led[a], t, o)])
<1> DEFINE new == [led EXCEPT ![a] = Completed(led[a], t, o)]
<1>1. led[a] \in [status : {"reserved"}, admittedAt : Nat]
    BY DEF ValidLedger, Entry, Absent
<1>2. Completed(led[a], t, o) \in Entry /\ Completed(led[a], t, o).status = "completed"
    BY <1>1 DEF Entry, Completed
<1>3. new \in [Action -> Entry]
    BY <1>2 DEF ValidLedger
<1>4. Present(new) = Present(led)
    BY <1>2 DEF ValidLedger, Present
<1> HIDE DEF new
<1>5. ValidLedger(new)
    BY <1>3, <1>4 DEF ValidLedger
<1> QED BY <1>5 DEF new

\* A valid circuit is closed or open, and opening it changes nothing but that.
LEMMA ValidCircuitOpens ==
    ASSUME NEW c, ValidCircuit(c)
    PROVE  /\ c.state \in {"closed", "open"}
           /\ ValidCircuit([c EXCEPT !.state = "open"])
           /\ [c EXCEPT !.state = "open"].state = "open"
BY SMT DEF ValidCircuit

\* Circuits that trip are configured; opening them keeps them valid.
LEMMA OpenedCircuits ==
    ASSUME ValidCircuits, NEW ids \in SUBSET Configured, circuits' = OpenCircuits(ids)
    PROVE  /\ ValidCircuits'
           /\ IsFiniteSet(ids) /\ Cardinality(ids) \in Nat
<1>1. IsFiniteSet(ids) /\ Cardinality(ids) \in Nat
    BY FS_Subset, FS_CardinalityType DEF ValidCircuits
<1>2. ASSUME NEW id \in CircuitId, circuits'[id] # None
      PROVE  circuits[id] # None /\ ValidCircuit(circuits'[id])
  <2>1. CASE id \in ids
    <3>1. ValidCircuit(circuits[id]) /\ circuits'[id] = [circuits[id] EXCEPT !.state = "open"]
        BY <2>1 DEF ValidCircuits, Configured, OpenCircuits
    <3>2. ValidCircuit(circuits'[id])
        BY <3>1, ValidCircuitOpens
    <3> QED BY <2>1, <3>2 DEF Configured
  <2>2. CASE id \notin ids
      BY <1>2, <2>2 DEF ValidCircuits, OpenCircuits
  <2> QED BY <2>1, <2>2
<1>3. Configured' \subseteq Configured
    BY <1>2 DEF Configured
<1>4. IsFiniteSet(Configured')
    BY <1>3, FS_Subset DEF ValidCircuits
<1>5. circuits' \in [CircuitId -> {circuits'[id] : id \in CircuitId}]
    BY DEF OpenCircuits
<1> QED BY <1>1, <1>2, <1>4, <1>5 DEF ValidCircuits

\* assertActionAllowed finds only configured circuits.
LEMMA TrippingConfigured ==
    ASSUME NEW a, NEW led, NEW now
    PROVE  Tripping(a, led, now) \subseteq Configured
BY DEF Tripping, CircuitsOf, Configured

\* The lesser of two numbers.
LEMMA LesserOfTwo ==
    ASSUME NEW m \in Nat, NEW n \in Nat
    PROVE  Min({m, n}) \in {m, n} /\ Min({m, n}) <= m /\ Min({m, n}) <= n
<1>1. \E x \in {m, n} : \A y \in {m, n} : x <= y
    OBVIOUS
<1> QED BY <1>1 DEF Min

\* The dead letters stay within their limit, and what was added last is there.
LEMMA DeadLettersAdded ==
    ASSUME ValidDeadLetters(deadLetters), NEW items \in Seq(QueueItem)
    PROVE  /\ UniqueIds(AddDeadLetters(items)) => ValidDeadLetters(AddDeadLetters(items))
           /\ Len(items) <= MaxDeadLetters =>
                \A k \in 1 .. Len(items) : \E j \in 1 .. Len(AddDeadLetters(items)) :
                    AddDeadLetters(items)[j] = items[k]
<1> DEFINE all == deadLetters \o items
           kept == Min({Len(all), MaxDeadLetters})
           d == SubSeq(all, Len(all) - kept + 1, Len(all))
<1>1. /\ all \in Seq(QueueItem) /\ Len(all) = Len(deadLetters) + Len(items)
      /\ Len(deadLetters) \in Nat /\ Len(items) \in Nat /\ MaxDeadLetters \in Nat
      /\ \A k \in 1 .. Len(items) : all[Len(deadLetters) + k] = items[k]
    BY LimitAssumption DEF ValidDeadLetters
<1>2. AddDeadLetters(items) = d
    BY DEF AddDeadLetters
<1> HIDE DEF all
<1>3. kept \in Nat /\ kept <= Len(all) /\ kept <= MaxDeadLetters
        /\ kept \in {Len(all), MaxDeadLetters}
    BY <1>1, LesserOfTwo
<1> HIDE DEF kept
<1>4. /\ d \in Seq(QueueItem) /\ Len(d) = kept
      /\ \A j \in 1 .. kept : d[j] = all[Len(all) - kept + j]
    BY <1>1, <1>3
<1> HIDE DEF d
<1>5. ASSUME Len(items) <= MaxDeadLetters, NEW k \in 1 .. Len(items)
      PROVE  \E j \in 1 .. Len(d) : d[j] = items[k]
  <2> DEFINE j == kept - Len(items) + k
  <2>1. j \in 1 .. kept /\ Len(all) - kept + j = Len(deadLetters) + k
      BY <1>1, <1>3, <1>5
  <2> HIDE DEF j
  <2>2. d[j] = items[k]
      BY <1>1, <1>4, <1>5, <2>1
  <2> QED BY <1>4, <2>1, <2>2
<1>6. UniqueIds(d) => ValidDeadLetters(d)
    BY <1>3, <1>4 DEF ValidDeadLetters
<1> QED BY <1>2, <1>5, <1>6

\* The mutation of stop() leaves nothing in the queue that it stops, and every item that it
\* takes out is among the dead letters.
LEMMA SwitchSet ==
    ASSUME SafetyInv, NEW s \in Scope, NEW r, NEW by \in {"operator", "drill"},
           SetSwitch(s, r, by)
    PROVE  /\ switches' \in [Scope -> {None, "disabled", "operator", "drill"}] /\ switches'[s] = by
           /\ IsFiniteSet(Listed') /\ Cardinality(Listed') <= MaxControls
           /\ auditLen' \in 0 .. MaxAudit
           /\ ValidQueue(queue') /\ ValidDeadLetters(deadLetters') /\ QueueRespectsStops'
           /\ \A i \in 1 .. Len(queue) :
                \/ \E j \in 1 .. Len(queue') : queue'[j] = queue[i]
                \/ \E j \in 1 .. Len(deadLetters') : deadLetters'[j] = queue[i]
<1> USE LimitAssumption DEF SafetyInv
<1>1. /\ queue \in Seq(QueueItem) /\ Len(queue) \in Nat /\ Len(queue) <= MaxQueue
      /\ OnePerAction(queue)
    BY DEF ValidQueue
<1> DEFINE out == MatchingQueued(s)
<1>2. /\ out \in Seq(QueueItem) /\ Len(out) <= Len(queue) /\ Len(out) \in Nat
      /\ \A i \in 1 .. Len(queue) : queue[i].action \in scopeMatches[s] =>
            \E j \in 1 .. Len(out) : out[j] = queue[i]
  <2>1. /\ out \in Seq(QueueItem) /\ Len(out) <= Len(queue)
        /\ \A i \in 1 .. Len(queue) : queue[i].action \in scopeMatches[s] =>
              \E j \in 1 .. Len(out) : out[j] = queue[i]
      BY <1>1, FilteredItems DEF MatchingQueued
  <2> QED BY <2>1
<1> HIDE DEF out
<1>3. /\ queue' \in Seq(QueueItem) /\ Len(queue') <= Len(queue)
      /\ \A k \in 1 .. Len(queue') : queue'[k].action \in Action \ scopeMatches[s]
                                      /\ \E j \in 1 .. Len(queue) : queue[j] = queue'[k]
      /\ \A j \in 1 .. Len(queue) : queue[j].action \in Action \ scopeMatches[s] =>
            \E k \in 1 .. Len(queue') : queue'[k] = queue[j]
      /\ OnePerAction(queue')
  <2> DEFINE others == Action \ scopeMatches[s]
             q == ItemsFor(others, queue)
  <2>1. queue' = q
      BY DEF SetSwitch
  <2> HIDE DEF others
  <2>2. /\ q \in Seq(QueueItem) /\ Len(q) <= Len(queue)
        /\ \A k \in 1 .. Len(q) : q[k].action \in others
                                      /\ \E j \in 1 .. Len(queue) : queue[j] = q[k]
        /\ \A j \in 1 .. Len(queue) : queue[j].action \in others =>
              \E k \in 1 .. Len(q) : q[k] = queue[j]
        /\ OnePerAction(q)
      BY <1>1, FilteredItems
  <2> HIDE DEF q
  <2> QED BY <2>1, <2>2 DEF others
<1>4. /\ ValidDeadLetters(deadLetters')
      /\ \A k \in 1 .. Len(out) : \E j \in 1 .. Len(deadLetters') : deadLetters'[j] = out[k]
  <2>1. Len(out) <= MaxDeadLetters
      BY <1>1, <1>2
  <2>2. deadLetters' = AddDeadLetters(out) /\ UniqueIds(AddDeadLetters(out))
      BY DEF SetSwitch, SwitchAccepted, out
  <2> QED BY <1>2, <2>1, <2>2, DeadLettersAdded
<1>5. ValidQueue(queue')
    BY <1>1, <1>3 DEF ValidQueue
<1>6. /\ switches' = [switches EXCEPT ![s] = by]
      /\ switches' \in [Scope -> {None, "disabled", "operator", "drill"}] /\ switches'[s] = by
    BY DEF SetSwitch, ValidControls
<1>7. QueueRespectsStops'
  <2> SUFFICES ASSUME NEW k \in 1 .. Len(queue'), NEW z \in Scope, Enabled(z)',
                      queue'[k].action \in scopeMatches[z]
               PROVE  FALSE
      BY DEF QueueRespectsStops, Stopped
  <2>1. PICK j \in 1 .. Len(queue) : queue[j] = queue'[k]
      BY <1>3
  <2>2. z # s
      BY <1>3
  <2>3. Enabled(z)
      BY <1>6, <2>2 DEF ValidControls, Enabled
  <2> QED BY <2>1, <2>3 DEF QueueRespectsStops, Stopped
<1>8. ASSUME NEW i \in 1 .. Len(queue)
      PROVE  \/ \E j \in 1 .. Len(queue') : queue'[j] = queue[i]
             \/ \E j \in 1 .. Len(deadLetters') : deadLetters'[j] = queue[i]
  <2>1. queue[i] \in QueueItem
      BY <1>1
  <2>2. queue[i].action \in Action
      BY <2>1 DEF QueueItem
  <2> QED BY <1>2, <1>3, <1>4, <2>2
<1>9. auditLen' \in 0 .. MaxAudit
  <2>1. AppendAudit(Len(out) + 1) /\ Len(out) + 1 \in Nat
      BY <1>2 DEF SetSwitch, out
  <2> QED BY <2>1, LongerAudit
<1>10. IsFiniteSet(Listed') /\ Cardinality(Listed') <= MaxControls
  <2>1. IsFiniteSet(Listed) /\ Cardinality(Listed) <= MaxControls /\ Cardinality(Listed) \in Nat
      BY FS_CardinalityType DEF ValidControls
  <2>2. Listed' = Listed \cup {s}
      BY <1>6, NoneAssumption DEF Listed, ValidControls
  <2>3. s \in Listed \/ Cardinality(Listed) < MaxControls
    <3>1. DOMAIN switches = Scope
        BY DEF ValidControls
    <3> QED BY <3>1 DEF SetSwitch, SwitchAccepted, RoomFor, Listed
  <2> QED BY <2>1, <2>2, <2>3, FS_AddElement
<1> QED BY <1>4, <1>5, <1>6, <1>7, <1>8, <1>9, <1>10
-----------------------------------------------------------------------------
(***************************************************************************)
(* Every step preserves the invariant                                      *)
(***************************************************************************)
\* The parts that a step leaves alone still hold after it.
LEMMA PartsStay ==
    ASSUME SafetyInv
    PROVE  /\ UNCHANGED <<switches, budgets, stopCall>> => ValidControls'
           /\ UNCHANGED circuits => ValidCircuits'
           /\ UNCHANGED ledger => ValidLedger(ledger')
           /\ UNCHANGED <<queue, switches>> => QueueRespectsStops'
           /\ UNCHANGED queue => ValidQueue(queue')
           /\ UNCHANGED deadLetters => ValidDeadLetters(deadLetters')
           /\ UNCHANGED <<pc, lease, effects>> => ValidCallers'
<1>1. UNCHANGED circuits => ValidCircuits'
    BY DEF SafetyInv, ValidCircuits, Configured
<1>2. UNCHANGED <<queue, switches>> => QueueRespectsStops'
    BY DEF SafetyInv, QueueRespectsStops, Stopped, Enabled
<1>3. UNCHANGED <<switches, budgets, stopCall>> => ValidControls'
    BY DEF SafetyInv, ValidControls, Listed
<1>4. UNCHANGED <<pc, lease, effects>> => ValidCallers'
    BY DEF SafetyInv, ValidCallers
<1> QED BY <1>1, <1>2, <1>3, <1>4 DEF SafetyInv

\* Operators configure, stop and re-enable.
LEMMA OperatorInv == SafetyInv /\ OperatorStep => SafetyInv'
<1> SUFFICES ASSUME SafetyInv, OperatorStep PROVE SafetyInv'
    OBVIOUS
<1> USE PartsStay
<1>0. clock \in 0 .. MaxTime /\ auditLen \in 0 .. MaxAudit /\ ValidControls /\ ValidCircuits
    BY DEF SafetyInv
<1>1. ASSUME NEW id \in BudgetId, NEW b \in BudgetChoice, ConfigureBudget(id, b)
      PROVE  SafetyInv'
  <2>1. auditLen' \in 0 .. MaxAudit
      BY <1>0, <1>1, LongerAudit DEF ConfigureBudget
  <2>2. ValidControls'
      BY <1>0, <1>1, ControlAssumption DEF ConfigureBudget, ValidControls, Listed, operator
  <2> QED BY <1>0, <1>1, <2>1, <2>2 DEF ConfigureBudget, SafetyInv, callers
<1>2. ASSUME NEW id \in CircuitId, NEW c \in CircuitChoice, ConfigureCircuit(id, c)
      PROVE  SafetyInv'
  <2>1. auditLen' \in 0 .. MaxAudit
      BY <1>0, <1>2, LongerAudit DEF ConfigureCircuit
  <2>2. ValidCircuits'
    <3>1. circuits' = [circuits EXCEPT ![id] = c] /\ ValidCircuit(c)
        BY <1>2, ControlAssumption DEF ConfigureCircuit
    <3>2. Configured' \subseteq Configured \cup {id}
        BY <1>0, <3>1 DEF Configured, ValidCircuits
    <3>3. IsFiniteSet(Configured')
      <4>1. IsFiniteSet(Configured \cup {id})
          BY <1>0, FS_AddElement DEF ValidCircuits
      <4> QED BY <3>2, <4>1, FS_Subset
    <3>4. \A x \in CircuitId : circuits'[x] # None => ValidCircuit(circuits'[x])
        BY <1>0, <3>1 DEF ValidCircuits
    <3>5. circuits' \in [CircuitId -> {circuits'[x] : x \in CircuitId}]
        BY <1>0, <3>1 DEF ValidCircuits
    <3> QED BY <3>3, <3>4, <3>5 DEF ValidCircuits
  <2> QED BY <1>0, <1>2, <2>1, <2>2 DEF ConfigureCircuit, SafetyInv, callers, operator
<1>3. ASSUME NEW s \in Scope, NEW r \in Reason, CallStop(s, r) PROVE SafetyInv'
  <2>1. ValidControls'
      BY <1>0, <1>3 DEF CallStop, ValidControls, Listed, store
  <2> QED BY <1>0, <1>3, <2>1 DEF CallStop, SafetyInv, store, callers
<1>4. CASE Stop
  <2>1. stopCall \in [scope : Scope, reason : Reason]
      BY <1>0, <1>4 DEF Stop, ValidControls
  <2>2. /\ switches' \in [Scope -> {None, "disabled", "operator", "drill"}]
        /\ IsFiniteSet(Listed') /\ Cardinality(Listed') <= MaxControls
        /\ auditLen' \in 0 .. MaxAudit
        /\ ValidQueue(queue') /\ ValidDeadLetters(deadLetters') /\ QueueRespectsStops'
      BY <1>4, <2>1, SwitchSet DEF Stop
  <2>3. ValidControls'
      BY <1>0, <1>4, <2>2 DEF Stop, ValidControls
  <2> QED BY <1>0, <1>4, <2>2, <2>3 DEF Stop, SafetyInv, callers
<1>5. CASE StopThrows \/ StopUnread
  <2>1. ValidControls'
      BY <1>0, <1>5 DEF StopThrows, StopUnread, ValidControls, Listed, store
  <2> QED BY <1>0, <1>5, <2>1 DEF StopThrows, StopUnread, SafetyInv, store, callers
<1>6. ASSUME NEW s \in Scope, Reenable(s) PROVE SafetyInv'
  <2>1. auditLen' \in 0 .. MaxAudit
      BY <1>0, <1>6, LongerAudit DEF Reenable, ClearSwitch
  <2>2. switches' = [switches EXCEPT ![s] = "disabled"] /\ Enabled(s)
      BY <1>6 DEF Reenable, ClearSwitch
  <2>3. ValidControls'
    <3>1. Listed' = Listed
        BY <1>0, <2>2, NoneAssumption DEF Listed, Enabled, ValidControls
    <3> QED BY <1>0, <1>6, <2>2, <3>1 DEF Reenable, ClearSwitch, ValidControls, operator
  <2>4. QueueRespectsStops'
      BY <1>0, <1>6, <2>2 DEF Reenable, ClearSwitch, QueueRespectsStops, Stopped, Enabled,
                              ValidControls, SafetyInv
  <2> QED BY <1>0, <1>6, <2>1, <2>3, <2>4 DEF Reenable, ClearSwitch, SafetyInv, callers
<1> QED BY <1>1, <1>2, <1>3, <1>4, <1>5, <1>6 DEF OperatorStep

\* The drill stops and re-enables the global switch as an operator does.
LEMMA DrillInv == SafetyInv /\ DrillNext => SafetyInv'
<1> SUFFICES ASSUME SafetyInv, DrillNext PROVE SafetyInv'
    OBVIOUS
<1> USE PartsStay
<1>0. clock \in 0 .. MaxTime /\ auditLen \in 0 .. MaxAudit /\ ValidControls
    BY DEF SafetyInv
<1>1. CASE UNCHANGED <<clock, store, callers, stopCall>>
    BY <1>0, <1>1 DEF SafetyInv, store, callers
<1>2. CASE DrillStop
  <2>1. /\ switches' \in [Scope -> {None, "disabled", "operator", "drill"}]
        /\ IsFiniteSet(Listed') /\ Cardinality(Listed') <= MaxControls
        /\ auditLen' \in 0 .. MaxAudit
        /\ ValidQueue(queue') /\ ValidDeadLetters(deadLetters') /\ QueueRespectsStops'
      BY <1>2, SwitchSet, ScopeAssumption DEF DrillStop
  <2>2. ValidControls'
      BY <1>0, <1>2, <2>1 DEF DrillStop, ValidControls
  <2> QED BY <1>0, <1>2, <2>1, <2>2 DEF DrillStop, SafetyInv, callers
<1>3. CASE DrillReenable
  <2>1. auditLen' \in 0 .. MaxAudit
      BY <1>0, <1>3, LongerAudit DEF DrillReenable, ClearSwitch
  <2>2. switches' = [switches EXCEPT ![Global] = "disabled"] /\ Enabled(Global)
      BY <1>3 DEF DrillReenable, ClearSwitch
  <2>3. ValidControls'
    <3>1. Listed' = Listed
        BY <1>0, <2>2, NoneAssumption, ScopeAssumption DEF Listed, Enabled, ValidControls
    <3> QED BY <1>0, <1>3, <2>2, <3>1, ScopeAssumption DEF DrillReenable, ClearSwitch, ValidControls
  <2>4. QueueRespectsStops'
      BY <1>0, <1>3, <2>2 DEF DrillReenable, ClearSwitch, QueueRespectsStops, Stopped, Enabled,
                              ValidControls, SafetyInv
  <2> QED BY <1>0, <1>3, <2>1, <2>3, <2>4 DEF DrillReenable, ClearSwitch, SafetyInv, callers
<1>4. CASE DrillPassed
  <2>1. auditLen' \in 0 .. MaxAudit
      BY <1>0, <1>4, LongerAudit DEF DrillPassed
  <2> QED BY <1>0, <1>4, <2>1 DEF DrillPassed, SafetyInv, callers
<1> QED BY <1>1, <1>2, <1>3, <1>4 DEF DrillNext, DrillRead, DrillAdmit, DrillFails

\* A caller that moves on with its lease, or lets go of it.
LEMMA CallerMoves ==
    ASSUME ValidCallers, NEW w \in Caller, NEW step \in Progress,
           pc' = [pc EXCEPT ![w] = step], effects' = effects,
           \/ lease' = lease /\ (step # "idle" => pc[w] # "idle")
           \/ step = "idle" /\ lease' = [lease EXCEPT ![w] = NoLease]
    PROVE  ValidCallers'
<1>1. NoLease \in [action : Action \cup {None}, admittedAt : Nat]
    BY DEF NoLease
<1> QED BY <1>1 DEF ValidCallers

\* Callers reserve, perform and complete.
LEMMA CallerInv ==
    ASSUME SafetyInv, NEW w \in Caller, CallerStep(w)
    PROVE  SafetyInv'
<1> USE PartsStay
<1>0. /\ clock \in 0 .. MaxTime /\ auditLen \in 0 .. MaxAudit /\ clock \in Nat
      /\ ValidCircuits /\ ValidLedger(ledger) /\ ValidCallers
    BY LimitAssumption DEF SafetyInv
<1>p. {"idle", "leased", "committing", "performed", "committed", "thrown"} \subseteq Progress
    BY DEF Progress
<1> DEFINE led == Prune(ledger, clock)
<1>1. ValidLedger(led)
    BY <1>0, PrunedLedger
<1>2. ASSUME NEW a \in Action, Admit(w, a) PROVE SafetyInv'
  <2>1. auditLen' \in 0 .. MaxAudit
      BY <1>0, <1>2, LongerAudit DEF Admit
  <2>2. ValidLedger(ledger')
    <3> HIDE DEF led
    <3>1. /\ ledger' = [led EXCEPT ![a] = Reserved(clock)]
          /\ a \notin Present(led) /\ NoIdempotencyCollision(a, led)
          /\ Cardinality(Present(led)) < MaxLedger
        BY <1>2 DEF Admit, led
    <3> QED BY <1>0, <1>1, <3>1, ReservedLedger
  <2>3. ValidCallers'
    <3>1. /\ pc' = [pc EXCEPT ![w] = "leased"] /\ effects' = effects
          /\ lease' = [lease EXCEPT ![w] = [action |-> a, admittedAt |-> clock]]
        BY <1>2 DEF Admit
    <3>2. [action |-> a, admittedAt |-> clock] \in [action : Action \cup {None}, admittedAt : Nat]
        BY <1>0
    <3> QED BY <1>0, <1>p, <3>1, <3>2 DEF ValidCallers
  <2> QED BY <1>0, <1>2, <2>1, <2>2, <2>3 DEF Admit, SafetyInv, operator
<1>3. ASSUME NEW a \in Action, AdmitReplay(w, a) PROVE SafetyInv'
  <2>1. ValidLedger(ledger')
      BY <1>1, <1>3 DEF AdmitReplay
  <2> QED BY <1>0, <1>3, <2>1 DEF AdmitReplay, SafetyInv, operator, callers
<1>4. CASE AssertActive(w)
  <2>1. auditLen' \in 0 .. MaxAudit
      BY <1>0, <1>4, LongerAudit DEF AssertActive
  <2> QED BY <1>0, <1>4, <2>1 DEF AssertActive, SafetyInv, operator, callers
<1>5. CASE CommitCheck(w) \/ CommitThrows(w)
  <2>1. ValidCallers'
      BY <1>0, <1>5, <1>p, CallerMoves DEF CommitCheck, CommitThrows
  <2> QED BY <1>0, <1>5, <2>1 DEF CommitCheck, CommitThrows, SafetyInv, store, operator
<1>6. CASE Operation(w)
  <2>1. lease[w] \in [action : Action, admittedAt : Nat]
      BY <1>0, <1>6 DEF Operation, ValidCallers
  <2>2. ValidCallers'
      BY <1>0, <1>6, <1>p, <2>1 DEF Operation, ValidCallers
  <2> QED BY <1>0, <1>6, <2>2 DEF Operation, SafetyInv, store, operator
<1>7. CASE CommitSeal(w)
  <2>1. auditLen' \in 0 .. MaxAudit
      BY <1>0, <1>7, LongerAudit DEF CommitSeal
  <2>2. ValidCallers'
      BY <1>0, <1>7, <1>p, CallerMoves DEF CommitSeal
  <2> QED BY <1>0, <1>7, <2>1, <2>2 DEF CommitSeal, SafetyInv, operator
<1>8. CASE Abandon(w)
  <2>1. ValidCallers'
      BY <1>0, <1>8, <1>p, CallerMoves DEF Abandon
  <2> QED BY <1>0, <1>8, <2>1 DEF Abandon, SafetyInv, store, operator
<1>9. ASSUME NEW o \in Outcome, Complete(w, o) PROVE SafetyInv'
  <2> DEFINE a == lease[w].action
             done == [ledger EXCEPT ![a] = Completed(ledger[a], clock, o)]
             tripped == Tripping(a, done, clock)
  <2>1. pc[w] # "idle" /\ a \in Action
      BY <1>0, <1>9 DEF Complete, ValidCallers
  <2>2. ValidCallers'
      BY <1>0, <1>9, <1>p, CallerMoves DEF Complete
  <2>3. ValidLedger(ledger') /\ ValidCircuits' /\ auditLen' \in 0 .. MaxAudit
    <3>1. CASE ledger[a].status = "reserved" /\ ledger' = done
                /\ circuits' = OpenCircuits(tripped) /\ AppendAudit(1 + Cardinality(tripped))
      <4>1. ValidLedger(done)
          BY <1>0, <2>1, <3>1, CompletedLedger
      <4>2. tripped \subseteq Configured
          BY TrippingConfigured
      <4> HIDE DEF tripped
      <4>3. ValidCircuits' /\ Cardinality(tripped) \in Nat
          BY <1>0, <3>1, <4>2, OpenedCircuits
      <4>4. auditLen' \in 0 .. MaxAudit
          BY <1>0, <3>1, <4>3, LongerAudit
      <4> QED BY <3>1, <4>1, <4>3, <4>4
    <3>2. CASE AppendAudit(1) /\ UNCHANGED <<ledger, circuits>>
        BY <1>0, <3>2, LongerAudit
    <3>3. CASE UNCHANGED <<ledger, circuits, auditLen>>
        BY <1>0, <3>3
    <3> QED BY <1>9, <3>1, <3>2, <3>3 DEF Complete
  <2> QED BY <1>0, <1>9, <2>2, <2>3 DEF Complete, SafetyInv, operator
<1> QED BY <1>2, <1>3, <1>4, <1>5, <1>6, <1>7, <1>8, <1>9 DEF CallerStep

\* An action that may be queued is not stopped; one that leaves the queue leaves the
\* others as they are.
LEMMA QueueInv == SafetyInv /\ QueueStep => SafetyInv'
<1> SUFFICES ASSUME SafetyInv, QueueStep PROVE SafetyInv'
    OBVIOUS
<1> USE PartsStay
<1>0. /\ clock \in 0 .. MaxTime /\ auditLen \in 0 .. MaxAudit /\ clock \in Nat
      /\ ValidCircuits /\ queue \in Seq(QueueItem) /\ Len(queue) <= MaxQueue
      /\ Len(queue) \in Nat /\ MaxQueue \in Nat /\ QueueRespectsStops /\ OnePerAction(queue)
    BY LimitAssumption DEF SafetyInv, ValidQueue
<1>1. ASSUME NEW a \in Action, Enqueue(a) PROVE SafetyInv'
  <2> DEFINE item == [action |-> a, queuedAt |-> clock]
  <2>1. auditLen' \in 0 .. MaxAudit
      BY <1>0, <1>1, LongerAudit DEF Enqueue
  <2>2. item \in QueueItem /\ item.action = a
      BY <1>0 DEF QueueItem
  <2> HIDE DEF item
  <2>3. /\ queue' = Append(queue, item) /\ Len(queue) < MaxQueue
        /\ ~Stopped(a) /\ switches' = switches /\ ~Queued(a)
      BY <1>1 DEF Enqueue, item, ActionAllowed
  <2>4. /\ queue' \in Seq(QueueItem) /\ Len(queue') = Len(queue) + 1
        /\ \A i \in 1 .. Len(queue) : queue'[i] = queue[i]
        /\ queue'[Len(queue) + 1] = item
      BY <1>0, <2>2, <2>3
  <2>5. ValidQueue(queue')
    <3>1. ASSUME NEW i \in 1 .. Len(queue'), NEW j \in 1 .. Len(queue'),
                 queue'[i].action = queue'[j].action
          PROVE  i = j
      <4>1. \A k \in 1 .. Len(queue) : queue[k].action # a
          BY <2>3 DEF Queued
      <4> QED BY <1>0, <2>2, <2>4, <3>1, <4>1 DEF OnePerAction
    <3>2. OnePerAction(queue')
        BY <3>1 DEF OnePerAction
    <3> QED BY <1>0, <2>3, <2>4, <3>2 DEF ValidQueue
  <2>6. QueueRespectsStops'
    <3> SUFFICES ASSUME NEW i \in 1 .. Len(queue'), NEW z \in Scope, Enabled(z)',
                        queue'[i].action \in scopeMatches[z]
                 PROVE  FALSE
        BY DEF QueueRespectsStops, Stopped
    <3>1. CASE i \in 1 .. Len(queue)
      <4>1. ~Stopped(queue[i].action) /\ queue'[i] = queue[i]
          BY <1>0, <2>4, <3>1 DEF QueueRespectsStops
      <4> QED BY <2>3, <4>1 DEF Stopped, Enabled
    <3>2. CASE i = Len(queue) + 1
      <4>1. queue'[i].action = a
          BY <2>2, <2>4, <3>2
      <4> QED BY <2>3, <4>1 DEF Stopped, Enabled
    <3> QED BY <1>0, <2>4, <3>1, <3>2
  <2> QED BY <1>0, <1>1, <2>1, <2>5, <2>6 DEF Enqueue, SafetyInv, callers, operator
<1>2. ASSUME queue # <<>>, queue' = Tail(queue), switches' = switches
      PROVE  ValidQueue(queue') /\ QueueRespectsStops' /\ Head(queue) \in QueueItem
  <2>1. /\ queue' \in Seq(QueueItem) /\ Len(queue') = Len(queue) - 1 /\ Head(queue) \in QueueItem
        /\ \A i \in 1 .. Len(queue') : queue'[i] = queue[i + 1]
      BY <1>0, <1>2
  <2>2. ValidQueue(queue')
    <3>1. ASSUME NEW i \in 1 .. Len(queue'), NEW j \in 1 .. Len(queue'),
                 queue'[i].action = queue'[j].action
          PROVE  i = j
      <4>1. i + 1 \in 1 .. Len(queue) /\ j + 1 \in 1 .. Len(queue)
          BY <1>0, <2>1
      <4>2. queue[i + 1].action = queue[j + 1].action
          BY <2>1, <3>1
      <4>3. i + 1 = j + 1
          BY <1>0, <4>1, <4>2 DEF OnePerAction
      <4> QED BY <4>3
    <3>2. OnePerAction(queue')
        BY <3>1 DEF OnePerAction
    <3> QED BY <1>0, <2>1, <3>2 DEF ValidQueue
  <2>3. QueueRespectsStops'
    <3> SUFFICES ASSUME NEW i \in 1 .. Len(queue'), NEW z \in Scope, Enabled(z)',
                        queue'[i].action \in scopeMatches[z]
                 PROVE  FALSE
        BY DEF QueueRespectsStops, Stopped
    <3>1. i + 1 \in 1 .. Len(queue)
        BY <1>0, <2>1
    <3>2. ~Stopped(queue[i + 1].action) /\ queue'[i] = queue[i + 1]
        BY <1>0, <2>1, <3>1 DEF QueueRespectsStops
    <3> QED BY <1>2, <3>2 DEF Stopped, Enabled
  <2> QED BY <2>1, <2>2, <2>3
<1>3. CASE Dequeue
  <2>1. auditLen' \in 0 .. MaxAudit
      BY <1>0, <1>3, LongerAudit DEF Dequeue
  <2> QED BY <1>0, <1>2, <1>3, <2>1 DEF Dequeue, SafetyInv, callers, operator
<1>4. CASE DequeueDenied
  <2> DEFINE a == Head(queue).action
             tripped == IF Stopped(a) \/ Broken(a) THEN {} ELSE Tripping(a, ledger, clock)
  <2>1. tripped \subseteq Configured
      BY TrippingConfigured
  <2>2. circuits' = OpenCircuits(tripped) /\ AppendAudit(1 + Cardinality(tripped))
      BY <1>4 DEF DequeueDenied
  <2> HIDE DEF tripped
  <2>3. ValidCircuits' /\ Cardinality(tripped) \in Nat
      BY <1>0, <2>1, <2>2, OpenedCircuits
  <2>4. auditLen' \in 0 .. MaxAudit
      BY <1>0, <2>2, <2>3, LongerAudit
  <2>5. ValidQueue(queue') /\ QueueRespectsStops' /\ Head(queue) \in QueueItem
      BY <1>2, <1>4 DEF DequeueDenied
  <2>6. ValidDeadLetters(deadLetters')
    <3>1. /\ deadLetters' = AddDeadLetters(<<Head(queue)>>) /\ <<Head(queue)>> \in Seq(QueueItem)
          /\ UniqueIds(AddDeadLetters(<<Head(queue)>>))
        BY <1>4, <2>5 DEF DequeueDenied
    <3> QED BY <3>1, DeadLettersAdded DEF SafetyInv
  <2> QED BY <1>0, <1>4, <2>3, <2>4, <2>5, <2>6 DEF DequeueDenied, SafetyInv, callers, operator
<1> QED BY <1>1, <1>3, <1>4 DEF QueueStep

\* Every step preserves the invariant.
LEMMA SafetyStepInv == SafetyInv /\ [Next]_vars => SafetyInv'
<1> SUFFICES ASSUME SafetyInv, [Next]_vars PROVE SafetyInv'
    OBVIOUS
<1>1. CASE Tick
  <2>1. clock' \in 0 .. MaxTime
      BY <1>1, LimitAssumption DEF Tick, SafetyInv
  <2> QED BY <1>1, <2>1, PartsStay DEF Tick, SafetyInv, store, callers, operator
<1>2. CASE UNCHANGED vars
    BY <1>2, PartsStay DEF vars, SafetyInv
<1> QED BY <1>1, <1>2, OperatorInv, CallerInv, QueueInv, DrillInv DEF Next

\* The store keeps its form and its bounds whatever operators, callers and drills do.
THEOREM SafetyInvariance == Spec => []SafetyInv
BY SafetyInitInv, SafetyStepInv, PTL DEF Spec

\* validateState accepts every store that mutate() writes: no two hashes under one
\* idempotency key, no collection above its limit, no invalid budget or circuit.
THEOREM StoreStaysValid == Spec => []TypeOK
BY SafetyInvariance, SafetyInvTypes, PTL

\* No queued action is under an active kill switch.
THEOREM QueueIsStopped == Spec => []QueueRespectsStops
<1>1. SafetyInv => QueueRespectsStops
    BY DEF SafetyInv
<1> QED BY SafetyInvariance, <1>1, PTL
-----------------------------------------------------------------------------
(***************************************************************************)
(* What a step may never do                                                *)
(***************************************************************************)
\* The steps that are not a caller's leave callers and ledger alone.
LEMMA OnlyCallersMove ==
    ASSUME [Next]_vars
    PROVE  \/ UNCHANGED <<pc, lease, ledger>>
           \/ \E w \in Caller : CallerStep(w)
<1>1. OperatorStep => UNCHANGED <<pc, lease, ledger>>
    BY DEF OperatorStep, ConfigureBudget, ConfigureCircuit, CallStop, Stop, StopThrows,
           StopUnread, Reenable,
           ClearSwitch, store, callers
<1>2. QueueStep => UNCHANGED <<pc, lease, ledger>>
    BY DEF QueueStep, Enqueue, Dequeue, DequeueDenied, callers
<1>3. DrillNext => UNCHANGED <<pc, lease, ledger>>
    BY DEF DrillNext, DrillRead, DrillStop, DrillAdmit, DrillReenable, DrillPassed, DrillFails,
           ClearSwitch, store, callers
<1>4. Tick \/ UNCHANGED vars => UNCHANGED <<pc, lease, ledger>>
    BY DEF Tick, vars, store, callers
<1> QED BY <1>1, <1>2, <1>3, <1>4 DEF Next

\* The step neither reserves the action nor passes it to its effect.
StaysOut(a) ==
    /\ InCommit(a)' \subseteq InCommit(a)
    /\ ledger'[a].status = "reserved" => ledger'[a] = ledger[a]

\* Only commit()'s first phase and admit() could let an action in, and both ask whether it
\* is allowed.
LEMMA BlockedStaysOut ==
    ASSUME SafetyInv, [Next]_vars, NEW a \in Action, Stopped(a) \/ Broken(a)
    PROVE  StaysOut(a)
<1>0. ValidCallers /\ ValidLedger(ledger) /\ clock \in Nat
    BY LimitAssumption DEF SafetyInv
<1>1. CASE UNCHANGED <<pc, lease, ledger>>
    BY <1>1 DEF StaysOut, InCommit
<1>2. ASSUME NEW w \in Caller, CallerStep(w) PROVE StaysOut(a)
  <2>0. ASSUME NEW step \in Progress, step # "committing", pc' = [pc EXCEPT ![w] = step],
               \/ lease' = lease
               \/ \E l : lease' = [lease EXCEPT ![w] = l]
        PROVE  InCommit(a)' \subseteq InCommit(a)
    <3> SUFFICES ASSUME NEW v \in Caller, pc'[v] = "committing", lease'[v].action = a
                 PROVE  pc[v] = "committing" /\ lease[v].action = a
        BY DEF InCommit
    <3>1. v # w
        BY <1>0, <2>0 DEF ValidCallers
    <3> QED BY <1>0, <2>0, <3>1 DEF ValidCallers
  <2>1. ASSUME NEW b \in Action, Admit(w, b) PROVE StaysOut(a)
    <3>1. InCommit(a)' \subseteq InCommit(a)
        BY <2>0, <2>1 DEF Admit, Progress
    <3>2. b # a
        BY <2>1 DEF Admit, ActionAllowed
    <3>3. ledger'[a] = Prune(ledger, clock)[a]
        BY <2>1, <3>2 DEF Admit
    <3>4. ledger'[a] = ledger[a] \/ ledger'[a] = Absent
        BY <1>0, <3>3, PrunedLedger
    <3> QED BY <3>1, <3>4 DEF StaysOut, Absent
  <2>2. ASSUME NEW b \in Action, AdmitReplay(w, b) PROVE StaysOut(a)
    <3>1. ledger' = Prune(ledger, clock) /\ UNCHANGED <<pc, lease>>
        BY <2>2 DEF AdmitReplay, callers
    <3>2. ledger'[a] = ledger[a] \/ ledger'[a] = Absent
        BY <1>0, <3>1, PrunedLedger
    <3> QED BY <3>1, <3>2 DEF StaysOut, InCommit, Absent
  <2>3. CASE AssertActive(w)
      BY <1>1, <2>3 DEF AssertActive, callers
  <2>4. CASE CommitCheck(w)
    <3>1. /\ lease[w].action # a /\ UNCHANGED <<ledger, lease>>
          /\ pc' = [pc EXCEPT ![w] = "committing"]
        BY <2>4 DEF CommitCheck, ActionAllowed, store
    <3> QED BY <1>0, <3>1 DEF StaysOut, InCommit, ValidCallers
  <2>5. CASE Operation(w) \/ CommitSeal(w) \/ CommitThrows(w) \/ Abandon(w)
    <3>1. ledger' = ledger
        BY <2>5 DEF Operation, CommitSeal, CommitThrows, Abandon, store
    <3>2. InCommit(a)' \subseteq InCommit(a)
        BY <2>0, <2>5 DEF Operation, CommitSeal, CommitThrows, Abandon, Progress
    <3> QED BY <3>1, <3>2 DEF StaysOut
  <2>6. ASSUME NEW o \in Outcome, Complete(w, o) PROVE StaysOut(a)
    <3>1. InCommit(a)' \subseteq InCommit(a)
        BY <2>0, <2>6 DEF Complete, Progress
    <3>2. \/ ledger' = ledger
          \/ ledger' = [ledger EXCEPT ![lease[w].action] =
                            Completed(ledger[lease[w].action], clock, o)]
        BY <2>6 DEF Complete
    <3>3. ledger'[a] = ledger[a] \/ ledger'[a].status = "completed"
        BY <1>0, <3>2 DEF ValidLedger, Completed
    <3> QED BY <3>1, <3>3 DEF StaysOut
  <2> QED BY <1>2, <2>1, <2>2, <2>3, <2>4, <2>5, <2>6 DEF CallerStep
<1> QED BY <1>1, <1>2, OnlyCallersMove

\* While a kill switch or an open circuit covers an action, nobody new commits to it and
\* nobody reserves it: the stop races only with the callers that were past their check.
THEOREM StopsHold == Spec => BlockedActionsStayOut
<1> DEFINE P == \A a \in Action :
                    (Stopped(a) \/ Broken(a)) /\ (Stopped(a) \/ Broken(a))' =>
                        /\ InCommit(a)' \subseteq InCommit(a)
                        /\ ledger'[a].status = "reserved" => ledger'[a] = ledger[a]
<1>1. SafetyInv /\ [Next]_vars => P
    BY BlockedStaysOut DEF StaysOut
<1>2. Spec => [][P]_vars
  <2> HIDE DEF P
  <2>1. SafetyInv /\ [Next]_vars => [P]_vars
      BY <1>1
  <2> QED BY <2>1, SafetyInvariance, PTL DEF Spec
<1> QED BY <1>2 DEF BlockedActionsStayOut

\* Only stop() and the drill set switches, and what they take out of the queue they keep.
THEOREM StopsKeepRecords == Spec => QueuedRecordsAreKept
<1> DEFINE P == switches' # switches =>
                    \A i \in 1 .. Len(queue) :
                        \/ \E j \in 1 .. Len(queue') : queue'[j] = queue[i]
                        \/ \E j \in 1 .. Len(deadLetters') : deadLetters'[j] = queue[i]
<1>1. ASSUME SafetyInv, [Next]_vars, switches' # switches
      PROVE  \A i \in 1 .. Len(queue) :
                \/ \E j \in 1 .. Len(queue') : queue'[j] = queue[i]
                \/ \E j \in 1 .. Len(deadLetters') : deadLetters'[j] = queue[i]
  <2>1. CASE UNCHANGED queue
      BY <2>1
  <2>2. CASE Stop
    <3>1. stopCall.scope \in Scope
        BY <1>1, <2>2 DEF Stop, SafetyInv, ValidControls
    <3> QED BY <1>1, <2>2, <3>1, SwitchSet DEF Stop
  <2>3. CASE DrillStop
      BY <1>1, <2>3, SwitchSet, ScopeAssumption DEF DrillStop
  <2>4. OperatorStep => Stop \/ UNCHANGED queue
      BY DEF OperatorStep, ConfigureBudget, ConfigureCircuit, CallStop, StopThrows, StopUnread, Reenable,
             ClearSwitch, store
  <2>5. DrillNext => DrillStop \/ UNCHANGED queue
      BY DEF DrillNext, DrillRead, DrillAdmit, DrillReenable, DrillPassed, DrillFails,
             ClearSwitch, store
  <2>6. QueueStep => UNCHANGED switches
      BY DEF QueueStep, Enqueue, Dequeue, DequeueDenied
  <2>7. ASSUME NEW w \in Caller, CallerStep(w) PROVE UNCHANGED switches
      BY <2>7 DEF CallerStep, Admit, AdmitReplay, AssertActive, CommitCheck, Operation, CommitSeal,
                  CommitThrows, Abandon, Complete, store
  <2>8. Tick \/ UNCHANGED vars => UNCHANGED switches
      BY DEF Tick, vars, store
  <2> QED BY <1>1, <2>1, <2>2, <2>3, <2>4, <2>5, <2>6, <2>7, <2>8 DEF Next
<1>2. Spec => [][P]_vars
  <2>1. SafetyInv /\ [Next]_vars => P
      BY <1>1
  <2> HIDE DEF P
  <2>2. SafetyInv /\ [Next]_vars => [P]_vars
      BY <2>1
  <2> QED BY <2>2, SafetyInvariance, PTL DEF Spec
<1> QED BY <1>2 DEF QueuedRecordsAreKept

\* Dead letters stay apart when what is added to them is new and each item comes once.
LEMMA NewDeadLetters ==
    ASSUME ValidDeadLetters(deadLetters), NEW items \in Seq(QueueItem), OnePerAction(items),
           \A k \in 1 .. Len(items), j \in 1 .. Len(deadLetters) : deadLetters[j] # items[k]
    PROVE  UniqueIds(AddDeadLetters(items))
<1> DEFINE all == deadLetters \o items
           kept == Min({Len(all), MaxDeadLetters})
           d == SubSeq(all, Len(all) - kept + 1, Len(all))
<1>1. /\ all \in Seq(QueueItem) /\ Len(all) = Len(deadLetters) + Len(items)
      /\ Len(deadLetters) \in Nat /\ Len(items) \in Nat /\ MaxDeadLetters \in Nat
      /\ \A k \in 1 .. Len(deadLetters) : all[k] = deadLetters[k]
      /\ \A k \in 1 .. Len(items) : all[Len(deadLetters) + k] = items[k]
    BY LimitAssumption DEF ValidDeadLetters
<1>2. AddDeadLetters(items) = d
    BY DEF AddDeadLetters
<1> HIDE DEF all
<1>3. ASSUME NEW i \in 1 .. Len(all), NEW j \in 1 .. Len(all), all[i] = all[j]
      PROVE  i = j
  <2>1. ASSUME NEW k \in 1 .. Len(all), k > Len(deadLetters)
        PROVE  k - Len(deadLetters) \in 1 .. Len(items) /\ all[k] = items[k - Len(deadLetters)]
    <3>1. k - Len(deadLetters) \in 1 .. Len(items)
        BY <1>1, <2>1
    <3>2. all[Len(deadLetters) + (k - Len(deadLetters))] = items[k - Len(deadLetters)]
        BY <1>1, <3>1
    <3>3. Len(deadLetters) + (k - Len(deadLetters)) = k
        BY <1>1
    <3> QED BY <3>1, <3>2, <3>3
  <2>2. ASSUME NEW k \in 1 .. Len(all), ~(k > Len(deadLetters))
        PROVE  k \in 1 .. Len(deadLetters) /\ all[k] = deadLetters[k]
      BY <1>1, <2>2
  <2>3. CASE i > Len(deadLetters) /\ j > Len(deadLetters)
    <3>1. PICK k \in 1 .. Len(items) : k = i - Len(deadLetters) /\ all[i] = items[k]
        BY <2>1, <2>3
    <3>2. PICK m \in 1 .. Len(items) : m = j - Len(deadLetters) /\ all[j] = items[m]
        BY <2>1, <2>3
    <3>3. k = m
        BY <1>3, <3>1, <3>2 DEF OnePerAction
    <3> QED BY <1>1, <3>1, <3>2, <3>3
  <2>4. CASE ~(i > Len(deadLetters)) /\ ~(j > Len(deadLetters))
      BY <1>3, <2>2, <2>4 DEF ValidDeadLetters, UniqueIds
  <2>5. CASE i > Len(deadLetters) /\ ~(j > Len(deadLetters))
      BY <1>3, <2>1, <2>2, <2>5
  <2>6. CASE ~(i > Len(deadLetters)) /\ j > Len(deadLetters)
      BY <1>3, <2>1, <2>2, <2>6
  <2> QED BY <2>3, <2>4, <2>5, <2>6
<1>4. kept \in Nat /\ kept <= Len(all)
    BY <1>1, LesserOfTwo
<1> HIDE DEF kept
<1>5. /\ Len(d) = kept
      /\ \A j \in 1 .. kept : d[j] = all[Len(all) - kept + j]
    BY <1>1, <1>4
<1> HIDE DEF d
<1>6. ASSUME NEW i \in 1 .. Len(d), NEW j \in 1 .. Len(d), d[i] = d[j]
      PROVE  i = j
  <2>1. /\ Len(all) - kept + i \in 1 .. Len(all) /\ Len(all) - kept + j \in 1 .. Len(all)
        /\ all[Len(all) - kept + i] = all[Len(all) - kept + j]
      BY <1>1, <1>4, <1>5, <1>6
  <2>2. Len(all) - kept + i = Len(all) - kept + j
      BY <1>3, <2>1
  <2> QED BY <1>1, <1>4, <2>2
<1> QED BY <1>2, <1>6 DEF UniqueIds

\* The mutation of a stop() that got past its argument checks throws only for want of room in
\* the audit chain or among the switches, or for a queued action that cannot be dead-lettered;
\* while a stop is in force, only the audit chain can refuse another one of its scope.
THEOREM StopsTakeEffect == Spec => AcceptedStopTakesEffect
<1> DEFINE P == StopThrows =>
              \/ auditLen + Len(queue) + 1 > MaxAudit
              \/ /\ ~Enabled(stopCall.scope)
                 /\ \/ Cardinality({s \in Scope : switches[s] # None}) = MaxControls
                    \/ \E i \in 1..Len(queue) :
                         /\ queue[i].action \in scopeMatches[stopCall.scope]
                         /\ \/ stopCall.reason + KillSwitchPrefix > TextLimit
                            \/ \E j \in 1..Len(deadLetters) : deadLetters[j] = queue[i]
<1>1. ASSUME SafetyInv, StopThrows, ~(auditLen + Len(queue) + 1 > MaxAudit)
      PROVE  /\ ~Enabled(stopCall.scope)
             /\ \/ Cardinality(Listed) = MaxControls
                \/ \E i \in 1..Len(queue) :
                     /\ queue[i].action \in scopeMatches[stopCall.scope]
                     /\ \/ stopCall.reason + KillSwitchPrefix > TextLimit
                        \/ \E j \in 1..Len(deadLetters) : deadLetters[j] = queue[i]
  <2> DEFINE out == MatchingQueued(stopCall.scope)
             bad(i) == /\ queue[i].action \in scopeMatches[stopCall.scope]
                       /\ \/ stopCall.reason + KillSwitchPrefix > TextLimit
                          \/ \E j \in 1..Len(deadLetters) : deadLetters[j] = queue[i]
  <2>1. stopCall.scope \in Scope /\ stopCall.reason \in Nat /\ DOMAIN switches = Scope
      BY <1>1, LimitAssumption DEF SafetyInv, ValidControls, StopThrows
  <2>2. /\ out \in Seq(QueueItem) /\ Len(out) <= Len(queue) /\ Len(out) \in Nat
        /\ \A k \in 1 .. Len(out) : /\ out[k].action \in scopeMatches[stopCall.scope]
                                     /\ \E i \in 1 .. Len(queue) : queue[i] = out[k]
        /\ OnePerAction(out)
    <3>1. queue \in Seq(QueueItem) /\ OnePerAction(queue)
        BY <1>1 DEF SafetyInv, ValidQueue
    <3>2. /\ out \in Seq(QueueItem) /\ Len(out) <= Len(queue)
          /\ \A k \in 1 .. Len(out) : /\ out[k].action \in scopeMatches[stopCall.scope]
                                       /\ \E i \in 1 .. Len(queue) : queue[i] = out[k]
          /\ OnePerAction(out)
        BY <3>1, FilteredItems DEF MatchingQueued
    <3> QED BY <3>2
  <2>3. auditLen + Len(out) + 1 <= MaxAudit
    <3>1. auditLen \in Nat /\ MaxAudit \in Nat /\ Len(queue) \in Nat
        BY <1>1, LimitAssumption DEF SafetyInv, ValidQueue
    <3> QED BY <1>1, <2>2, <3>1
  <2>4. /\ Cardinality(Listed) \in Nat /\ Cardinality(Listed) <= MaxControls
        /\ ~RoomFor(switches, stopCall.scope) =>
              switches[stopCall.scope] = None /\ ~(Cardinality(Listed) < MaxControls)
    <3>1. IsFiniteSet(Listed) /\ Cardinality(Listed) <= MaxControls
        BY <1>1 DEF SafetyInv, ValidControls
    <3>2. Cardinality(Listed) \in Nat
        BY <3>1, FS_CardinalityType
    <3> QED BY <2>1, <3>1, <3>2 DEF RoomFor, Listed
  <2>5. ~RoomFor(switches, stopCall.scope) =>
            ~Enabled(stopCall.scope) /\ Cardinality(Listed) = MaxControls
      BY <2>4, LimitAssumption DEF Enabled
  <2>6. ASSUME NEW k \in 1 .. Len(out)
        PROVE  ~Enabled(stopCall.scope)
    <3>1. PICK i \in 1 .. Len(queue) : queue[i] = out[k]
        BY <2>2, <2>6
    <3>2. ~Stopped(queue[i].action)
        BY <1>1, <3>1 DEF SafetyInv, QueueRespectsStops
    <3> QED BY <2>1, <2>2, <3>1, <3>2 DEF Stopped
  <2>7. ASSUME ~(out # <<>> => stopCall.reason + KillSwitchPrefix <= TextLimit)
        PROVE  ~Enabled(stopCall.scope) /\ \E i \in 1 .. Len(queue) : bad(i)
    <3>1. 1 \in 1 .. Len(out)
        BY <2>2, <2>7
    <3>2. PICK i \in 1 .. Len(queue) : queue[i] = out[1]
        BY <2>2, <3>1
    <3>3. stopCall.reason + KillSwitchPrefix > TextLimit
        BY <2>7, <2>1 DEF KillSwitchPrefix, TextLimit
    <3> QED BY <2>2, <2>6, <3>1, <3>2, <3>3
  <2>8. ASSUME ~UniqueIds(AddDeadLetters(out))
        PROVE  ~Enabled(stopCall.scope) /\ \E i \in 1 .. Len(queue) : bad(i)
    <3>1. ValidDeadLetters(deadLetters)
        BY <1>1 DEF SafetyInv
    <3> HIDE DEF out
    <3>2. PICK k \in 1 .. Len(out) : \E j \in 1 .. Len(deadLetters) : deadLetters[j] = out[k]
        BY <2>2, <2>8, <3>1, NewDeadLetters
    <3>3. PICK i \in 1 .. Len(queue) : queue[i] = out[k]
        BY <2>2
    <3> QED BY <2>2, <2>6, <3>2, <3>3
  <2>9. \/ ~RoomFor(switches, stopCall.scope)
        \/ ~(out # <<>> => stopCall.reason + KillSwitchPrefix <= TextLimit)
        \/ ~UniqueIds(AddDeadLetters(out))
      BY <1>1, <2>3 DEF StopThrows, SwitchAccepted
  <2> QED BY <2>5, <2>7, <2>8, <2>9
<1>2. Spec => [][P]_vars
  <2>1. SafetyInv => P
      BY <1>1 DEF Listed
  <2> HIDE DEF P
  <2>2. SafetyInv /\ [Next]_vars => [P]_vars
      BY <2>1
  <2> QED BY <2>2, SafetyInvariance, PTL DEF Spec
<1> QED BY <1>2, PTL DEF AcceptedStopTakesEffect

\* A reservation becomes a completion only in complete(), which opens every circuit over the
\* action that its outcome trips.
THEOREM CompletionsOpen == Spec => CompletionOpensCircuits
<1> DEFINE P == \A a \in Action :
                    ledger[a].status = "reserved" /\ ledger'[a].status = "completed" =>
                        \A id \in CircuitsOf(a) :
                            Trips(circuits[id], ledger', clock) => circuits'[id].state = "open"
<1>1. ASSUME SafetyInv, [Next]_vars, NEW a \in Action,
             ledger[a].status = "reserved", ledger'[a].status = "completed",
             NEW id \in CircuitsOf(a), Trips(circuits[id], ledger', clock)
      PROVE  circuits'[id].state = "open"
  <2>0. ValidCallers /\ ValidLedger(ledger) /\ ValidCircuits /\ clock \in Nat
      BY <1>1, LimitAssumption DEF SafetyInv
  <2>1. PICK w \in Caller : CallerStep(w)
      BY <1>1, OnlyCallersMove
  <2>2. ASSUME NEW b \in Action, Admit(w, b) \/ AdmitReplay(w, b) PROVE FALSE
    <3>1. CASE ledger' = Prune(ledger, clock)
        BY <1>1, <2>0, <3>1, PrunedLedger DEF Absent
    <3>2. CASE ledger' = [Prune(ledger, clock) EXCEPT ![b] = Reserved(clock)]
      <4>1. CASE b = a
        <5>1. Prune(ledger, clock) \in [Action -> Entry]
            BY <2>0, PrunedLedger DEF ValidLedger
        <5> QED BY <1>1, <3>2, <4>1, <5>1 DEF Reserved
      <4>2. CASE b # a
        <5>1. ledger'[a] = Prune(ledger, clock)[a]
            BY <3>2, <4>2
        <5> QED BY <1>1, <2>0, <5>1, PrunedLedger DEF Absent
      <4> QED BY <4>1, <4>2
    <3> QED BY <2>2, <3>1, <3>2 DEF Admit, AdmitReplay
  <2>3. ~(AssertActive(w) \/ CommitCheck(w) \/ Operation(w) \/ CommitSeal(w) \/ CommitThrows(w)
            \/ Abandon(w))
    <3>1. ledger' # ledger
        BY <1>1
    <3> QED BY <3>1 DEF AssertActive, CommitCheck, Operation, CommitSeal, CommitThrows, Abandon,
                        store
  <2>4. PICK o \in Outcome : Complete(w, o)
      BY <2>1, <2>2, <2>3 DEF CallerStep
  <2> DEFINE b == lease[w].action
             done == [ledger EXCEPT ![b] = Completed(ledger[b], clock, o)]
             tripped == Tripping(b, done, clock)
  <2>5. ledger' = done /\ circuits' = OpenCircuits(tripped)
    <3>1. ledger' # ledger
        BY <1>1
    <3> QED BY <2>4, <3>1 DEF Complete
  <2>6. b = a
      BY <1>1, <2>0, <2>5 DEF ValidLedger
  <2>7. id \in CircuitId /\ circuits[id] # None /\ ValidCircuit(circuits[id])
      BY <1>1, <2>0 DEF CircuitsOf, ValidCircuits
  <2>8. CASE circuits[id].state = "closed"
    <3>1. id \in tripped
        BY <1>1, <2>5, <2>6, <2>8 DEF Tripping
    <3>2. circuits'[id] = [circuits[id] EXCEPT !.state = "open"]
        BY <2>5, <2>7, <3>1 DEF OpenCircuits
    <3> QED BY <2>7, <3>2, ValidCircuitOpens
  <2>9. CASE circuits[id].state = "open"
    <3>1. \/ circuits'[id] = [circuits[id] EXCEPT !.state = "open"]
          \/ circuits'[id] = circuits[id]
        BY <2>5, <2>7 DEF OpenCircuits
    <3> QED BY <2>7, <2>9, <3>1, ValidCircuitOpens
  <2>10. circuits[id].state \in {"closed", "open"}
      BY <2>7, ValidCircuitOpens
  <2> QED BY <2>8, <2>9, <2>10
<1>2. Spec => [][P]_vars
  <2>1. SafetyInv /\ [Next]_vars => P
      BY <1>1
  <2> HIDE DEF P
  <2>2. SafetyInv /\ [Next]_vars => [P]_vars
      BY <2>1
  <2> QED BY <2>2, SafetyInvariance, PTL DEF Spec
<1> QED BY <1>2 DEF CompletionOpensCircuits
-----------------------------------------------------------------------------
(***************************************************************************)
(* Sums of costs                                                           *)
(***************************************************************************)
Total(k, S) == MapThenSumSet(LAMBDA a : cost[a][k], S)

\* The element that a fold over a set takes next.
Pick(s) == CHOOSE x \in s : TRUE

\* The recursion behind a sum over S.
Sums(k, S, f) ==
    f = [s \in SUBSET S |-> IF s = {} THEN 0 ELSE cost[Pick(s)][k] + f[s \ {Pick(s)}]]

\* A sum is what the recursion gives for the whole set.
LEMMA TotalBySums ==
    ASSUME NEW k, NEW S
    PROVE  Total(k, S) = (CHOOSE f : Sums(k, S, f))[S]
BY DEF Total, MapThenSumSet, MapThenFoldSet, Sums, Pick

\* Among the subsets of a finite set, a set of sets has a minimal one.
LEMMA MinimalSet ==
    ASSUME NEW S, IsFiniteSet(S), NEW bad \in SUBSET (SUBSET S), bad # {}
    PROVE  \E s \in bad : \A u \in SUBSET s : u # s => u \notin bad
<1> DEFINE sizes == {Cardinality(s) : s \in bad}
<1>1. \A s \in SUBSET S : IsFiniteSet(s) /\ Cardinality(s) \in Nat
    BY FS_Subset, FS_CardinalityType
<1>2. PICK n \in sizes : \A m \in sizes : n <= m
  <2>1. sizes \in SUBSET Nat /\ sizes # {}
      BY <1>1
  <2> HIDE DEF sizes
  <2> QED BY <2>1, LeastNumber
<1>3. PICK s \in bad : n = Cardinality(s)
    BY <1>2
<1>4. ASSUME NEW u \in SUBSET s, u # s, u \in bad PROVE FALSE
  <2>1. Cardinality(u) <= Cardinality(s) /\ Cardinality(u) # Cardinality(s)
      BY <1>1, <1>3, <1>4, FS_Subset
  <2>2. Cardinality(s) <= Cardinality(u)
      BY <1>2, <1>3, <1>4
  <2> QED BY <1>1, <1>3, <1>4, <2>1, <2>2
<1> QED BY <1>4

\* What a non-empty set gives up.
LEMMA PickIsIn ==
    ASSUME NEW s, s # {}
    PROVE  Pick(s) \in s /\ s \ {Pick(s)} \in SUBSET s /\ s \ {Pick(s)} # s
BY DEF Pick

\* The recursion, unfolded once.
LEMMA SumsStep ==
    ASSUME NEW k, NEW S, NEW f, Sums(k, S, f), NEW s \in SUBSET S
    PROVE  f[s] = IF s = {} THEN 0 ELSE cost[Pick(s)][k] + f[s \ {Pick(s)}]
<1> DEFINE h == [u \in SUBSET S |-> IF u = {} THEN 0 ELSE cost[Pick(u)][k] + f[u \ {Pick(u)}]]
<1>1. f = h
    BY DEF Sums
<1>2. h[s] = IF s = {} THEN 0 ELSE cost[Pick(s)][k] + f[s \ {Pick(s)}]
    OBVIOUS
<1> HIDE DEF h
<1> QED BY <1>1, <1>2

\* The sum over a set does not depend on the larger set it is computed in.
LEMMA SumsAgree ==
    ASSUME NEW k, NEW S, IsFiniteSet(S), NEW T \in SUBSET S, NEW f, Sums(k, S, f),
           NEW g, Sums(k, T, g)
    PROVE  \A s \in SUBSET T : f[s] = g[s]
<1> DEFINE bad == {s \in SUBSET T : f[s] # g[s]}
<1> SUFFICES ASSUME bad # {} PROVE FALSE
    OBVIOUS
<1>1. PICK s \in bad : \A u \in SUBSET s : u # s => u \notin bad
  <2>1. bad \in SUBSET (SUBSET S)
      OBVIOUS
  <2> HIDE DEF bad
  <2> QED BY <2>1, MinimalSet
<1>2. /\ s \in SUBSET T /\ s \in SUBSET S
      /\ f[s] = IF s = {} THEN 0 ELSE cost[Pick(s)][k] + f[s \ {Pick(s)}]
      /\ g[s] = IF s = {} THEN 0 ELSE cost[Pick(s)][k] + g[s \ {Pick(s)}]
  <2>1. s \in SUBSET T /\ s \in SUBSET S
      BY <1>1
  <2> QED BY <2>1, SumsStep
<1>3. s # {}
    BY <1>1, <1>2
<1>4. f[s \ {Pick(s)}] = g[s \ {Pick(s)}]
    BY <1>1, <1>2, <1>3, PickIsIn
<1> QED BY <1>1, <1>2, <1>4

\* The recursion is well founded on finite sets.
LEMMA SumsExist ==
    ASSUME NEW k, NEW S, IsFiniteSet(S)
    PROVE  \E f : Sums(k, S, f)
<1> DEFINE bad == {s \in SUBSET S : ~\E f : Sums(k, s, f)}
<1> SUFFICES ASSUME bad # {} PROVE FALSE
    OBVIOUS
<1>1. PICK T \in bad : \A u \in SUBSET T : u # T => u \notin bad
  <2>1. bad \in SUBSET (SUBSET S)
      OBVIOUS
  <2> HIDE DEF bad
  <2> QED BY <2>1, MinimalSet
<1>2. T \in SUBSET S /\ ~\E f : Sums(k, T, f)
    BY <1>1
<1>3. ASSUME NEW u \in SUBSET T, u # T
      PROVE  Sums(k, u, CHOOSE f : Sums(k, u, f)) /\ IsFiniteSet(u)
  <2>1. u \in SUBSET S /\ u \notin bad
      BY <1>1, <1>2, <1>3
  <2>2. \E f : Sums(k, u, f)
      BY <2>1
  <2>3. IsFiniteSet(u)
      BY <2>1, FS_Subset
  <2> QED BY <2>2, <2>3
<1> HIDE DEF bad
<1> DEFINE F == [s \in SUBSET T |-> IF s = {} THEN 0
                                  ELSE cost[Pick(s)][k] + Total(k, s \ {Pick(s)})]
<1>4. ASSUME NEW u \in SUBSET T, u # T PROVE F[u] = Total(k, u)
  <2> DEFINE g == CHOOSE f : Sums(k, u, f)
  <2>1. Sums(k, u, g) /\ Total(k, u) = g[u] /\ IsFiniteSet(u)
      BY <1>3, <1>4, TotalBySums
  <2>2. g[u] = IF u = {} THEN 0 ELSE cost[Pick(u)][k] + g[u \ {Pick(u)}]
      BY <2>1, SumsStep
  <2>3. CASE u = {}
      BY <2>1, <2>2, <2>3
  <2>4. CASE u # {}
    <3> DEFINE v == u \ {Pick(u)}
               e == CHOOSE f : Sums(k, v, f)
    <3>1. v \in SUBSET u /\ v # u /\ v \in SUBSET T /\ v # T
        BY <1>4, <2>4, PickIsIn
    <3>2. Sums(k, v, e) /\ Total(k, v) = e[v]
        BY <1>3, <3>1, TotalBySums
    <3> HIDE DEF e, g, v
    <3>3. g[v] = e[v]
        BY <2>1, <3>1, <3>2, SumsAgree
    <3>4. F[u] = cost[Pick(u)][k] + Total(k, v)
        BY <2>4 DEF v
    <3> HIDE DEF F
    <3> QED BY <2>1, <2>2, <2>4, <3>2, <3>3, <3>4 DEF v
  <2> QED BY <2>3, <2>4
<1>5. Sums(k, T, F)
  <2> DEFINE h == [s \in SUBSET T |-> IF s = {} THEN 0 ELSE cost[Pick(s)][k] + F[s \ {Pick(s)}]]
  <2>1. ASSUME NEW s \in SUBSET T PROVE F[s] = h[s]
    <3>1. CASE s = {}
        BY <3>1
    <3>2. CASE s # {}
      <4>1. s \ {Pick(s)} \in SUBSET T /\ s \ {Pick(s)} # T
          BY <3>2, PickIsIn
      <4>2. F[s \ {Pick(s)}] = Total(k, s \ {Pick(s)})
          BY <1>4, <4>1
      <4>3. F[s] = cost[Pick(s)][k] + Total(k, s \ {Pick(s)})
          BY <3>2
      <4>4. h[s] = cost[Pick(s)][k] + F[s \ {Pick(s)}]
          BY <3>2
      <4> QED BY <4>2, <4>3, <4>4
    <3> QED BY <3>1, <3>2
  <2>2. F = h
      BY <2>1
  <2> QED BY <2>2 DEF Sums
<1> QED BY <1>2, <1>5

\* A sum, unfolded once.
LEMMA TotalStep ==
    ASSUME NEW k, NEW S, IsFiniteSet(S)
    PROVE  Total(k, S) = IF S = {} THEN 0 ELSE cost[Pick(S)][k] + Total(k, S \ {Pick(S)})
<1> DEFINE f == CHOOSE f : Sums(k, S, f)
           v == S \ {Pick(S)}
           e == CHOOSE e : Sums(k, v, e)
<1>1. Sums(k, S, f) /\ Total(k, S) = f[S]
    BY SumsExist, TotalBySums
<1>2. f[S] = IF S = {} THEN 0 ELSE cost[Pick(S)][k] + f[v]
    BY <1>1, SumsStep
<1>3. v \in SUBSET S /\ IsFiniteSet(v)
    BY FS_Subset
<1>4. Sums(k, v, e) /\ Total(k, v) = e[v]
    BY <1>3, SumsExist, TotalBySums
<1> HIDE DEF f, e
<1>5. f[v] = e[v]
    BY <1>1, <1>3, <1>4, SumsAgree
<1> QED BY <1>1, <1>2, <1>4, <1>5

\* Costs are natural numbers.
LEMMA CostType ==
    ASSUME NEW a \in Action, NEW k \in CostKey
    PROVE  cost[a][k] \in Nat
BY ControlAssumption DEF ValidCosts

\* Sums of costs are natural numbers.
LEMMA TotalType ==
    ASSUME NEW k \in CostKey, NEW S \in SUBSET Action, IsFiniteSet(S)
    PROVE  Total(k, S) \in Nat
<1> DEFINE bad == {s \in SUBSET S : Total(k, s) \notin Nat}
<1> SUFFICES ASSUME bad # {} PROVE FALSE
    OBVIOUS
<1>1. PICK s \in bad : \A u \in SUBSET s : u # s => u \notin bad
  <2>1. bad \in SUBSET (SUBSET S)
      OBVIOUS
  <2> HIDE DEF bad
  <2> QED BY <2>1, MinimalSet
<1>2. s \in SUBSET S /\ IsFiniteSet(s) /\ Total(k, s) \notin Nat
    BY <1>1, FS_Subset
<1>3. Total(k, s) = IF s = {} THEN 0 ELSE cost[Pick(s)][k] + Total(k, s \ {Pick(s)})
    BY <1>2, TotalStep
<1>4. s # {}
    BY <1>2, <1>3
<1>5. Pick(s) \in Action /\ s \ {Pick(s)} \in SUBSET s /\ s \ {Pick(s)} # s
    BY <1>2, <1>4, PickIsIn
<1>6. Total(k, s \ {Pick(s)}) \in Nat
    BY <1>1, <1>2, <1>5
<1> QED BY <1>2, <1>3, <1>4, <1>5, <1>6, CostType

\* An action adds its cost to a sum, whichever element the recursion takes first.
LEMMA TotalWithout ==
    ASSUME NEW k \in CostKey, NEW S \in SUBSET Action, IsFiniteSet(S), NEW a \in S
    PROVE  Total(k, S) = cost[a][k] + Total(k, S \ {a})
<1> DEFINE bad == {s \in SUBSET S : \E b \in s : Total(k, s) # cost[b][k] + Total(k, s \ {b})}
<1> SUFFICES ASSUME bad # {} PROVE FALSE
    OBVIOUS
<1>1. PICK s \in bad : \A u \in SUBSET s : u # s => u \notin bad
  <2>1. bad \in SUBSET (SUBSET S)
      OBVIOUS
  <2> HIDE DEF bad
  <2> QED BY <2>1, MinimalSet
<1>2. PICK b \in s : Total(k, s) # cost[b][k] + Total(k, s \ {b})
    BY <1>1
<1> DEFINE x == Pick(s)
           both == s \ {b, x}
<1>3. /\ s \in SUBSET S /\ s # {} /\ IsFiniteSet(s) /\ x \in s
      /\ Total(k, s) = cost[x][k] + Total(k, s \ {x})
  <2>1. s \in SUBSET S /\ s # {} /\ IsFiniteSet(s)
      BY <1>1, <1>2, FS_Subset
  <2> QED BY <2>1, TotalStep, PickIsIn
<1> HIDE DEF x
<1>4. b # x
    BY <1>2, <1>3
<1>5. Total(k, s \ {x}) = cost[b][k] + Total(k, both)
  <2>1. s \ {x} \in SUBSET s /\ s \ {x} # s /\ b \in s \ {x} /\ (s \ {x}) \ {b} = both
      BY <1>2, <1>3, <1>4
  <2>2. s \ {x} \in SUBSET S /\ s \ {x} \notin bad
      BY <1>1, <1>3, <2>1
  <2>3. Total(k, s \ {x}) = cost[b][k] + Total(k, (s \ {x}) \ {b})
      BY <2>1, <2>2
  <2> QED BY <2>1, <2>3
<1>6. Total(k, s \ {b}) = cost[x][k] + Total(k, both)
  <2>1. s \ {b} \in SUBSET s /\ s \ {b} # s /\ x \in s \ {b} /\ (s \ {b}) \ {x} = both
      BY <1>2, <1>3, <1>4
  <2>2. s \ {b} \in SUBSET S /\ s \ {b} \notin bad
      BY <1>1, <1>3, <2>1
  <2>3. Total(k, s \ {b}) = cost[x][k] + Total(k, (s \ {b}) \ {x})
      BY <2>1, <2>2
  <2> QED BY <2>1, <2>3
<1>7. Total(k, both) \in Nat /\ cost[b][k] \in Nat /\ cost[x][k] \in Nat
  <2>1. both \in SUBSET s /\ both \in SUBSET Action /\ b \in Action /\ x \in Action
      BY <1>2, <1>3
  <2>2. IsFiniteSet(both)
      BY <1>3, <2>1, FS_Subset
  <2> HIDE DEF both
  <2> QED BY <2>1, <2>2, TotalType, CostType
<1> HIDE DEF both
<1> QED BY <1>2, <1>3, <1>5, <1>6, <1>7

\* Fewer actions cost no more.
LEMMA TotalMonotone ==
    ASSUME NEW k \in CostKey, NEW S \in SUBSET Action, IsFiniteSet(S), NEW T \in SUBSET S
    PROVE  Total(k, T) <= Total(k, S)
<1> DEFINE bad == {s \in SUBSET S : T \subseteq s /\ ~(Total(k, T) <= Total(k, s))}
<1> SUFFICES ASSUME bad # {} PROVE FALSE
    OBVIOUS
<1>1. PICK s \in bad : \A u \in SUBSET s : u # s => u \notin bad
  <2>1. bad \in SUBSET (SUBSET S)
      OBVIOUS
  <2> HIDE DEF bad
  <2> QED BY <2>1, MinimalSet
<1>2. /\ s \in SUBSET S /\ T \subseteq s /\ ~(Total(k, T) <= Total(k, s))
      /\ IsFiniteSet(s) /\ IsFiniteSet(T)
    BY <1>1, FS_Subset
<1>3. Total(k, s) \in Nat /\ Total(k, T) \in Nat
  <2>1. s \in SUBSET Action /\ T \in SUBSET Action
      BY <1>2
  <2> QED BY <1>2, <2>1, TotalType
<1>4. s # T
    BY <1>2, <1>3
<1>5. PICK a \in s : a \notin T
    BY <1>2, <1>4
<1>6. Total(k, s) = cost[a][k] + Total(k, s \ {a})
  <2>1. s \in SUBSET Action
      BY <1>2
  <2> QED BY <1>2, <1>5, <2>1, TotalWithout
<1>7. /\ s \ {a} \in SUBSET s /\ s \ {a} # s /\ T \subseteq s \ {a} /\ s \ {a} \in SUBSET S
      /\ a \in Action /\ s \ {a} \in SUBSET Action
    BY <1>2, <1>5
<1>8. Total(k, T) <= Total(k, s \ {a})
    BY <1>1, <1>7
<1>9. Total(k, s \ {a}) \in Nat /\ cost[a][k] \in Nat
  <2>1. IsFiniteSet(s \ {a})
      BY <1>2, <1>7, FS_Subset
  <2> QED BY <1>7, <2>1, TotalType, CostType
<1> QED BY <1>2, <1>3, <1>6, <1>8, <1>9

\* At most one action more costs at most its own cost more.
LEMMA TotalOneMore ==
    ASSUME NEW k \in CostKey, NEW S \in SUBSET Action, IsFiniteSet(S), NEW a \in Action,
           NEW T \in SUBSET (S \cup {a})
    PROVE  Total(k, T) <= Total(k, S) + cost[a][k]
<1> DEFINE all == S \cup {a}
<1>1. all \in SUBSET Action /\ IsFiniteSet(all) /\ all \ {a} \in SUBSET S
    BY FS_AddElement
<1>2. Total(k, T) <= Total(k, all)
  <2> HIDE DEF all
  <2>1. T \in SUBSET all
      BY DEF all
  <2> QED BY <1>1, <2>1, TotalMonotone
<1>3. Total(k, all) = cost[a][k] + Total(k, all \ {a})
  <2> HIDE DEF all
  <2>1. a \in all
      BY DEF all
  <2> QED BY <1>1, <2>1, TotalWithout
<1> HIDE DEF all
<1>4. Total(k, all \ {a}) <= Total(k, S)
    BY <1>1, TotalMonotone
<1>5. /\ Total(k, T) \in Nat /\ Total(k, S) \in Nat /\ Total(k, all) \in Nat
      /\ Total(k, all \ {a}) \in Nat /\ cost[a][k] \in Nat
  <2>1. T \in SUBSET Action /\ IsFiniteSet(T)
    <3>1. T \in SUBSET all
        BY DEF all
    <3> QED BY <1>1, <3>1, FS_Subset
  <2>2. all \ {a} \in SUBSET Action /\ IsFiniteSet(all \ {a})
      BY <1>1, FS_Subset
  <2> QED BY <1>1, <2>1, <2>2, TotalType, CostType
<1> QED BY <1>2, <1>3, <1>4, <1>5
-----------------------------------------------------------------------------
(***************************************************************************)
(* Budgets                                                                 *)
(***************************************************************************)
Limit == CostKey \cup {"concurrency", "velocity"}

\* The entries that a budget counts towards limit k.
Counted(b, led, now, k) ==
    IF k = "velocity" THEN BudgetEntries(b, led, now, b.velocityWindowMs)
    ELSE IF k = "concurrency" THEN {a \in BudgetEntries(b, led, now, b.windowMs) :
                                        led[a].status = "reserved"}
    ELSE BudgetEntries(b, led, now, b.windowMs)

\* What a budget counts is a finite set of actions.
LEMMA CountedType ==
    ASSUME NEW b, NEW led, NEW now, NEW k, ValidLedger(led)
    PROVE  Counted(b, led, now, k) \in SUBSET Action /\ IsFiniteSet(Counted(b, led, now, k))
<1>1. Counted(b, led, now, k) \subseteq Present(led) /\ Present(led) \subseteq Action
    BY DEF Counted, BudgetEntries, Present
<1> QED BY <1>1, FS_Subset DEF ValidLedger

\* Usage by limit: a count, or the sum of one kind of cost.
LEMMA UsageOf ==
    ASSUME NEW b, NEW led, NEW now
    PROVE  /\ Usage(b, led, now, "concurrency") = Cardinality(Counted(b, led, now, "concurrency"))
           /\ Usage(b, led, now, "velocity") = Total("requests", Counted(b, led, now, "velocity"))
           /\ \A k \in CostKey : Usage(b, led, now, k) = Total(k, Counted(b, led, now, k))
<1>1. "concurrency" \notin CostKey /\ "velocity" \notin CostKey
    BY DEF CostKey
<1>2. Usage(b, led, now, "concurrency") = Cardinality(Counted(b, led, now, "concurrency"))
    BY DEF Usage, Counted
<1>3. Usage(b, led, now, "velocity") = Total("requests", Counted(b, led, now, "velocity"))
    BY DEF Usage, Counted, Total
<1>4. ASSUME NEW k \in CostKey
      PROVE  Usage(b, led, now, k) = Total(k, Counted(b, led, now, k))
  <2>1. k # "concurrency" /\ k # "velocity"
      BY <1>1
  <2> QED BY <2>1 DEF Usage, Counted, Total
<1> QED BY <1>2, <1>3, <1>4

\* Whoever counts fewer entries, or at most one action more, uses no more than that.
LEMMA UsageGrows ==
    ASSUME NEW b, NEW k \in Limit, NEW led, NEW now, ValidLedger(led),
           NEW led2, NEW now2, ValidLedger(led2)
    PROVE  /\ Usage(b, led, now, k) \in Nat /\ Usage(b, led2, now2, k) \in Nat
           /\ Counted(b, led2, now2, k) \subseteq Counted(b, led, now, k) =>
                Usage(b, led2, now2, k) <= Usage(b, led, now, k)
           /\ \A a \in Action :
                Counted(b, led2, now2, k) \subseteq Counted(b, led, now, k) \cup {a} =>
                    Usage(b, led2, now2, k) <= Usage(b, led, now, k) + Charge(a, k)
<1> DEFINE S == Counted(b, led, now, k)
           T == Counted(b, led2, now2, k)
<1>1. S \in SUBSET Action /\ IsFiniteSet(S) /\ T \in SUBSET Action /\ IsFiniteSet(T)
    BY CountedType
<1>2. CASE k = "concurrency"
  <2>1. Usage(b, led, now, k) = Cardinality(S) /\ Usage(b, led2, now2, k) = Cardinality(T)
      BY <1>2, UsageOf
  <2> HIDE DEF S, T
  <2>2. Cardinality(S) \in Nat /\ Cardinality(T) \in Nat
      BY <1>1, FS_CardinalityType
  <2>3. T \subseteq S => Cardinality(T) <= Cardinality(S)
      BY <1>1, FS_Subset
  <2>4. ASSUME NEW a \in Action, T \subseteq S \cup {a}
        PROVE  Cardinality(T) <= Cardinality(S) + 1
    <3>1. /\ IsFiniteSet(S \cup {a}) /\ Cardinality(S \cup {a}) \in Nat
          /\ Cardinality(S \cup {a}) <= Cardinality(S) + 1
      <4>1. IsFiniteSet(S \cup {a})
            /\ (Cardinality(S \cup {a}) = Cardinality(S) \/ Cardinality(S \cup {a}) = Cardinality(S) + 1)
          BY <1>1, FS_AddElement
      <4> QED BY <2>2, <4>1
    <3>2. Cardinality(T) <= Cardinality(S \cup {a})
        BY <2>4, <3>1, FS_Subset
    <3> QED BY <2>2, <3>1, <3>2
  <2>5. \A a \in Action : Charge(a, k) = 1
      BY <1>2 DEF Charge
  <2> QED BY <2>1, <2>2, <2>3, <2>4, <2>5 DEF S, T
<1>3. ASSUME NEW c \in CostKey, Usage(b, led, now, k) = Total(c, S),
             Usage(b, led2, now2, k) = Total(c, T), \A a \in Action : Charge(a, k) = cost[a][c]
      PROVE  /\ Usage(b, led, now, k) \in Nat /\ Usage(b, led2, now2, k) \in Nat
             /\ T \subseteq S => Usage(b, led2, now2, k) <= Usage(b, led, now, k)
             /\ \A a \in Action : T \subseteq S \cup {a} =>
                    Usage(b, led2, now2, k) <= Usage(b, led, now, k) + Charge(a, k)
  <2> HIDE DEF S, T
  <2>1. Total(c, S) \in Nat /\ Total(c, T) \in Nat
      BY <1>1, TotalType
  <2>2. T \subseteq S => Total(c, T) <= Total(c, S)
      BY <1>1, TotalMonotone
  <2>3. ASSUME NEW a \in Action, T \subseteq S \cup {a}
        PROVE  Total(c, T) <= Total(c, S) + cost[a][c]
    <3>1. T \in SUBSET (S \cup {a})
        BY <2>3
    <3> QED BY <1>1, <3>1, TotalOneMore
  <2> QED BY <1>3, <2>1, <2>2, <2>3
<1>4. CASE k = "velocity"
  <2>1. "requests" \in CostKey /\ \A a \in Action : Charge(a, k) = cost[a]["requests"]
      BY <1>4 DEF CostKey, Charge
  <2>2. /\ Usage(b, led, now, k) = Total("requests", S)
        /\ Usage(b, led2, now2, k) = Total("requests", T)
      BY <1>4, UsageOf
  <2> HIDE DEF S, T
  <2> QED BY <1>3, <2>1, <2>2 DEF S, T
<1>5. CASE k \in CostKey
  <2>1. k # "concurrency" /\ k # "velocity"
      BY <1>5 DEF CostKey
  <2>2. \A a \in Action : Charge(a, k) = cost[a][k]
      BY <2>1 DEF Charge
  <2>3. Usage(b, led, now, k) = Total(k, S) /\ Usage(b, led2, now2, k) = Total(k, T)
      BY <1>5, UsageOf
  <2> HIDE DEF S, T
  <2> QED BY <1>3, <1>5, <2>2, <2>3 DEF S, T
<1> QED BY <1>2, <1>4, <1>5 DEF Limit

\* A later look counts no new entries but those of the actions in new: the others are as
\* they were, pruned, or completed since.
Since(led2, led, new) ==
    \A a \in Action : a \notin new =>
        \/ led2[a] = led[a]
        \/ led2[a] = Absent
        \/ /\ led2[a].status = "completed" /\ led[a].status = "reserved"
           /\ led2[a].admittedAt = led[a].admittedAt

\* So only the new ones can add to what is counted against a budget.
LEMMA CountedSince ==
    ASSUME NEW b, ValidBudget(b), NEW k, NEW led, ValidLedger(led), NEW led2, NEW new,
           Since(led2, led, new), NEW now \in Nat, NEW now2 \in Nat, now <= now2
    PROVE  Counted(b, led2, now2, k) \subseteq Counted(b, led, now, k) \cup new
<1> USE DEF ValidBudget
<1>1. b.windowMs \in Nat /\ b.velocityWindowMs \in Nat
    OBVIOUS
<1>2. ASSUME NEW window \in Nat, NEW a \in BudgetEntries(b, led2, now2, window), a \notin new
      PROVE  /\ a \in BudgetEntries(b, led, now, window)
             /\ led2[a].status = "reserved" => led[a].status = "reserved"
  <2>1. /\ a \in Action /\ a \in scopeMatches[b.scope] /\ led2[a].status # "absent"
        /\ led2[a].admittedAt + window >= now2
      BY <1>2 DEF BudgetEntries, Present
  <2>2. \/ led2[a] = led[a]
        \/ /\ led2[a].status = "completed" /\ led[a].status = "reserved"
           /\ led2[a].admittedAt = led[a].admittedAt
      BY <1>2, <2>1 DEF Since, Absent
  <2>3. led[a].status # "absent" /\ led[a].admittedAt = led2[a].admittedAt
      BY <2>1, <2>2
  <2>4. led[a].admittedAt \in Nat
      BY <2>1, <2>3 DEF ValidLedger, Entry, Absent
  <2>5. led[a].admittedAt + window >= now
      BY <2>1, <2>3, <2>4
  <2> QED BY <2>1, <2>2, <2>3, <2>5 DEF BudgetEntries, Present
<1>3. BudgetEntries(b, led2, now2, b.windowMs) \subseteq BudgetEntries(b, led, now, b.windowMs) \cup new
    BY <1>1, <1>2
<1>4. BudgetEntries(b, led2, now2, b.velocityWindowMs)
            \subseteq BudgetEntries(b, led, now, b.velocityWindowMs) \cup new
    BY <1>1, <1>2
<1>5. \A a \in BudgetEntries(b, led2, now2, b.windowMs) :
            a \notin new /\ led2[a].status = "reserved" => led[a].status = "reserved"
    BY <1>1, <1>2
<1> QED BY <1>3, <1>4, <1>5 DEF Counted

\* Nothing that happens to the ledger but an admission is new to a budget.
LEMMA LedgerMoves ==
    ASSUME SafetyInv, [Next]_vars
    PROVE  /\ clock' \in Nat /\ clock \in Nat /\ clock <= clock'
           /\ \/ Since(ledger', ledger, {})
              \/ /\ clock' = clock
                 /\ \E w \in Caller, a \in Action : Admit(w, a)
<1>0. clock \in Nat /\ ValidLedger(ledger) /\ ValidCallers
    BY LimitAssumption DEF SafetyInv
<1>1. clock' = clock \/ clock' = clock + 1
  <2>1. OperatorStep => clock' = clock
      BY DEF OperatorStep, ConfigureBudget, ConfigureCircuit, CallStop, Stop, StopThrows,
           StopUnread, Reenable,
             ClearSwitch
  <2>2. QueueStep => clock' = clock
      BY DEF QueueStep, Enqueue, Dequeue, DequeueDenied
  <2>3. DrillNext => clock' = clock
      BY DEF DrillNext, DrillRead, DrillStop, DrillAdmit, DrillReenable, DrillPassed, DrillFails,
             ClearSwitch
  <2>4. ASSUME NEW w \in Caller, CallerStep(w) PROVE clock' = clock
      BY <2>4 DEF CallerStep, Admit, AdmitReplay, AssertActive, CommitCheck, Operation, CommitSeal,
                  CommitThrows, Abandon, Complete
  <2> QED BY <2>1, <2>2, <2>3, <2>4 DEF Next, Tick, vars
<1>2. CASE UNCHANGED ledger
    BY <1>0, <1>1, <1>2 DEF Since
<1>3. ASSUME NEW w \in Caller, CallerStep(w), ledger' # ledger
      PROVE  /\ clock' = clock
             /\ Since(ledger', ledger, {}) \/ \E a \in Action : Admit(w, a)
  <2>1. ASSUME NEW a \in Action, AdmitReplay(w, a) PROVE Since(ledger', ledger, {}) /\ clock' = clock
    <3>1. ledger' = Prune(ledger, clock) /\ clock' = clock
        BY <2>1 DEF AdmitReplay
    <3> QED BY <1>0, <3>1, PrunedLedger DEF Since
  <2>2. ASSUME NEW o \in Outcome, Complete(w, o) PROVE Since(ledger', ledger, {}) /\ clock' = clock
    <3> DEFINE a == lease[w].action
    <3>1. /\ ledger[a].status = "reserved" /\ clock' = clock
          /\ ledger' = [ledger EXCEPT ![a] = Completed(ledger[a], clock, o)]
        BY <1>3, <2>2 DEF Complete
    <3> HIDE DEF a
    <3>2. \A c \in Action : c # a => ledger'[c] = ledger[c]
        BY <1>0, <3>1 DEF ValidLedger
    <3>3. a \in Action => ledger'[a] = Completed(ledger[a], clock, o)
        BY <1>0, <3>1 DEF ValidLedger
    <3>4. /\ Completed(ledger[a], clock, o).status = "completed"
          /\ Completed(ledger[a], clock, o).admittedAt = ledger[a].admittedAt
        BY DEF Completed
    <3> QED BY <3>1, <3>2, <3>3, <3>4 DEF Since
  <2>3. ASSUME NEW a \in Action, Admit(w, a) PROVE clock' = clock
      BY <2>3 DEF Admit
  <2>4. ~(AssertActive(w) \/ CommitCheck(w) \/ Operation(w) \/ CommitSeal(w) \/ CommitThrows(w)
            \/ Abandon(w))
      BY <1>3 DEF AssertActive, CommitCheck, Operation, CommitSeal, CommitThrows, Abandon, store
  <2> QED BY <1>3, <2>1, <2>2, <2>3, <2>4 DEF CallerStep
<1> QED BY <1>0, <1>1, <1>2, <1>3, OnlyCallersMove

\* A budget that is within its limits stays within them: whatever is admitted, completed,
\* pruned or forgotten, only another budget under its id can be over a limit.
LEMMA BudgetHolds ==
    ASSUME SafetyInv, SafetyInv', [Next]_vars, NEW id \in BudgetId, NEW b, b = budgets[id], b # None,
           WithinLimits(b, ledger, clock)
    PROVE  WithinLimits(b, ledger', clock')
<1>0. /\ ValidBudget(b) /\ ValidLedger(ledger) /\ ValidLedger(ledger')
      /\ clock \in Nat /\ clock' \in Nat /\ clock <= clock'
    BY LedgerMoves DEF SafetyInv, ValidControls
<1>1. ASSUME NEW k \in DOMAIN b.limits
      PROVE  k \in Limit /\ b.limits[k] \in Nat /\ Usage(b, ledger, clock, k) <= b.limits[k]
    BY <1>0 DEF ValidBudget, Limit, WithinLimits
<1>2. CASE Since(ledger', ledger, {})
  <2> SUFFICES ASSUME NEW k \in DOMAIN b.limits
               PROVE  Usage(b, ledger', clock', k) <= b.limits[k]
      BY DEF WithinLimits
  <2>1. Counted(b, ledger', clock', k) \subseteq Counted(b, ledger, clock, k)
      BY <1>0, <1>2, CountedSince
  <2>2. /\ Usage(b, ledger, clock, k) \in Nat /\ Usage(b, ledger', clock', k) \in Nat
        /\ Usage(b, ledger', clock', k) <= Usage(b, ledger, clock, k)
      BY <1>0, <1>1, <2>1, UsageGrows
  <2> QED BY <1>1, <2>2
<1>3. ASSUME clock' = clock, NEW w \in Caller, NEW a \in Action, Admit(w, a)
      PROVE  WithinLimits(b, ledger', clock')
  <2> DEFINE led == Prune(ledger, clock)
  <2>1. ValidLedger(led) /\ Since(led, ledger, {})
      BY <1>0, PrunedLedger DEF Since
  <2>2. Since(ledger', led, {a})
    <3>1. ledger' = [led EXCEPT ![a] = Reserved(clock)]
        BY <1>3 DEF Admit
    <3> HIDE DEF led
    <3> QED BY <2>1, <3>1 DEF Since, ValidLedger
  <2>3. BudgetsAllow(a, led, clock)
      BY <1>3 DEF Admit
  <2> HIDE DEF led
  <2> SUFFICES ASSUME NEW k \in DOMAIN b.limits
               PROVE  Usage(b, ledger', clock', k) <= b.limits[k]
      BY DEF WithinLimits
  <2>4. Counted(b, ledger', clock', k) \subseteq Counted(b, led, clock, k) \cup {a}
      BY <1>0, <2>1, <2>2, CountedSince
  <2>5. CASE a \in scopeMatches[b.scope]
    <3>1. Usage(b, led, clock, k) + Charge(a, k) <= b.limits[k]
        BY <2>3, <2>5 DEF BudgetsAllow
    <3>2. /\ Usage(b, led, clock, k) \in Nat /\ Usage(b, ledger', clock', k) \in Nat
          /\ Usage(b, ledger', clock', k) <= Usage(b, led, clock, k) + Charge(a, k)
        BY <1>0, <1>1, <2>1, <2>4, UsageGrows
    <3>3. Charge(a, k) \in Nat
      <4>1. k = "concurrency" => Charge(a, k) = 1
          BY DEF Charge
      <4>2. k = "velocity" => Charge(a, k) = cost[a]["requests"] /\ "requests" \in CostKey
          BY DEF Charge, CostKey
      <4>3. k # "velocity" /\ k # "concurrency" => Charge(a, k) = cost[a][k] /\ k \in CostKey
          BY <1>1 DEF Charge, Limit
      <4>4. k = "velocity" => Charge(a, k) \in Nat
          BY <4>2, CostType
      <4>5. k # "velocity" /\ k # "concurrency" => Charge(a, k) \in Nat
          BY <4>3, CostType
      <4> QED BY <4>1, <4>4, <4>5
    <3> QED BY <1>1, <3>1, <3>2, <3>3
  <2>6. CASE a \notin scopeMatches[b.scope]
    <3>1. a \notin Counted(b, ledger', clock', k)
        BY <2>6 DEF Counted, BudgetEntries
    <3>2. Counted(b, led, clock, k) \subseteq Counted(b, ledger, clock, k) \cup {}
        BY <1>0, <2>1, CountedSince
    <3>3. Counted(b, ledger', clock', k) \subseteq Counted(b, ledger, clock, k)
        BY <2>4, <3>1, <3>2
    <3>4. /\ Usage(b, ledger, clock, k) \in Nat /\ Usage(b, ledger', clock', k) \in Nat
          /\ Usage(b, ledger', clock', k) <= Usage(b, ledger, clock, k)
        BY <1>0, <1>1, <3>3, UsageGrows
    <3> QED BY <1>1, <3>4
  <2> QED BY <2>5, <2>6
<1> QED BY <1>2, <1>3, LedgerMoves

\* For any budgets, windows, costs and lease lifetimes, nothing but configuring another
\* budget takes a budget over a limit.
THEOREM BudgetsHold == Spec => BudgetsAreNotOversubscribed
<1> DEFINE P == \A id \in BudgetId :
                    LET b == budgets[id]
                    IN  b # None /\ budgets'[id] = b /\ WithinLimits(b, ledger, clock)
                            => WithinLimits(b, ledger', clock')
<1>1. ASSUME SafetyInv, SafetyInv', [Next]_vars, NEW id \in BudgetId, budgets[id] # None,
             WithinLimits(budgets[id], ledger, clock)
      PROVE  WithinLimits(budgets[id], ledger', clock')
  <2>1. PICK b : b = budgets[id]
      OBVIOUS
  <2> QED BY <1>1, <2>1, BudgetHolds
<1>2. Spec => [][P]_vars
  <2>1. SafetyInv /\ SafetyInv' /\ [Next]_vars => P
      BY <1>1
  <2> HIDE DEF P
  <2>2. SafetyInv /\ SafetyInv' /\ [Next]_vars => [P]_vars
      BY <2>1
  <2> QED BY <2>2, SafetyInvariance, PTL DEF Spec
<1> QED BY <1>2 DEF BudgetsAreNotOversubscribed

=============================================================================
