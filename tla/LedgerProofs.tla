---------------------------- MODULE LedgerProofs ----------------------------
(***************************************************************************)
(* The action ledger, its reconciliation and cost governance, for any      *)
(* number of tenants, actions, runs and budgets: whatever is appended,     *)
(* dropped and linked again the chains verify, what is read with its intent *)
(* is what was recorded, what is held stays, no run calls the retry of an  *)
(* attempted action safe, and no open alert is lost.                       *)
(***************************************************************************)
EXTENDS Reconciliation, CostGovernance, SequenceTheorems, FiniteSetTheorems,
        WellFoundedInduction, TLAPS

Smaller == {p \in Nat \X Nat : p[1] < p[2]}

\* A set of numbers has a least one: this is how the proofs below do induction.
LEMMA LeastNumber ==
    ASSUME NEW S \in SUBSET Nat, S # {}
    PROVE  \E n \in S : \A m \in S : n <= m
<1>1. IsWellFoundedOn(Smaller, Nat)
    BY NatLessThanWellFounded DEF OpToRel, Smaller
<1>2. PICK n \in S : \A m \in S : ~(<<m, n>> \in Smaller)
    BY <1>1, WFMin
<1>3. ASSUME NEW m \in S PROVE n <= m
  <2>1. ~(<<m, n>> \in Smaller) /\ m \in Nat /\ n \in Nat
      BY <1>2
  <2>2. ~(m < n)
      BY <2>1 DEF Smaller
  <2> QED BY <2>1, <2>2
<1> QED BY <1>3

\* How many of the places are before i.
Before(places, i) == Cardinality({j \in places : j < i})

\* Counting the places up to each index.
LEMMA CountingPlaces ==
    ASSUME NEW N \in Nat, NEW places \in SUBSET (1 .. N)
    PROVE  /\ IsFiniteSet(places) /\ Cardinality(places) \in Nat
           /\ Before(places, 1) = 0 /\ Before(places, N + 1) = Cardinality(places)
           /\ \A i \in 1 .. N + 1 : Before(places, i) \in Nat
           /\ \A i \in 1 .. N :
                Before(places, i + 1) = Before(places, i) + IF i \in places THEN 1 ELSE 0
<1>n. \A j \in places : j \in Nat /\ 1 <= j /\ j <= N
    OBVIOUS
<1>1. IsFiniteSet(places)
  <2>1. IsFiniteSet(1 .. N)
      BY FS_Interval
  <2> QED BY <2>1, FS_Subset
<1>2. Cardinality(places) \in Nat
    BY <1>1, FS_CardinalityType
<1>3. Before(places, 1) = 0
  <2>0. \A j \in places : ~(j < 1)
      BY <1>n
  <2>1. {j \in places : j < 1} = {}
      BY <2>0, Zenon
  <2> QED BY <2>1, FS_EmptySet DEF Before
<1>4. Before(places, N + 1) = Cardinality(places)
  <2>1. \A j \in places : j < N + 1
      BY <1>n
  <2>2. {j \in places : j < N + 1} = places
      BY <2>1, Zenon
  <2> QED BY <2>2 DEF Before
<1>5. ASSUME NEW i \in 1 .. N + 1
      PROVE  Before(places, i) \in Nat /\ IsFiniteSet({j \in places : j < i})
  <2>1. {j \in places : j < i} \in SUBSET places
      OBVIOUS
  <2>2. IsFiniteSet({j \in places : j < i})
      BY <1>1, <2>1, FS_Subset
  <2> QED BY <2>2, FS_CardinalityType DEF Before
<1>6. ASSUME NEW i \in 1 .. N
      PROVE  Before(places, i + 1) = Before(places, i) + IF i \in places THEN 1 ELSE 0
  <2>1. PICK S : S = {j \in places : j < i}
      OBVIOUS
  <2>2. IsFiniteSet(S) /\ i \notin S /\ Cardinality(S) \in Nat
      BY <1>5, <2>1 DEF Before
  <2>3. CASE i \in places
    <3>0. \A j \in places : j < i + 1 <=> j < i \/ j = i
        BY <1>n
    <3>1. {j \in places : j < i + 1} = S \cup {i}
        BY <2>1, <2>3, <3>0, Zenon
    <3>2. Cardinality(S \cup {i}) = Cardinality(S) + 1
        BY <2>2, FS_AddElement
    <3> QED BY <2>1, <2>3, <3>1, <3>2 DEF Before
  <2>4. CASE i \notin places
    <3>0. \A j \in places : j < i + 1 <=> j < i
        BY <1>n, <2>4
    <3>1. {j \in places : j < i + 1} = S
        BY <2>1, <3>0, Zenon
    <3> QED BY <2>1, <2>2, <2>4, <3>1 DEF Before
  <2> QED BY <2>3, <2>4
<1> QED BY <1>1, <1>2, <1>3, <1>4, <1>5, <1>6

\* Every number up to how many there are is the rank of one of the places.
LEMMA RankedPlace ==
    ASSUME NEW N \in Nat, NEW places \in SUBSET (1 .. N), NEW n \in 1 .. Cardinality(places)
    PROVE  \E i \in places : Before(places, i) = n - 1
<1> DEFINE S == {i \in 0 .. N : Before(places, i + 1) >= n}
<1>1. N \in S
    BY CountingPlaces
<1>2. PICK i \in S : \A m \in S : i <= m
  <2>1. S \in SUBSET Nat /\ S # {}
      BY <1>1
  <2> HIDE DEF S
  <2> QED BY <2>1, LeastNumber
<1>3. i # 0
    BY CountingPlaces
<1>4. i \in 1 .. N /\ i - 1 \in 0 .. N /\ i - 1 \notin S
    BY <1>2, <1>3
<1>5. Before(places, i) < n
  <2>1. (i - 1) + 1 = i
      BY <1>4
  <2>2. Before(places, i) \in Nat
      BY <1>4, CountingPlaces
  <2> QED BY <1>4, <2>1, <2>2
<1>6. Before(places, i + 1) >= n
    BY <1>2
<1>7. Before(places, i + 1) = Before(places, i) + IF i \in places THEN 1 ELSE 0
    BY <1>4, CountingPlaces
<1>8. Before(places, i) \in Nat
    BY <1>4, CountingPlaces
<1> HIDE DEF S
<1>9. i \in places
    BY <1>5, <1>6, <1>7, <1>8
<1> QED BY <1>5, <1>6, <1>7, <1>8, <1>9

\* What a filter keeps: as many entries as places, each one that stood at a place.
LEMMA KeptEntries ==
    ASSUME NEW N \in Nat, NEW places \in SUBSET (1 .. N), NEW s
    PROVE  /\ Cardinality(places) \in Nat
           /\ Kept(s, places) = [n \in 1 .. Cardinality(places) |-> Kept(s, places)[n]]
           /\ \A n \in 1 .. Cardinality(places) :
                \E i \in places : Before(places, i) = n - 1 /\ Kept(s, places)[n] = s[i]
<1> DEFINE nth(n) == CHOOSE i \in places : Before(places, i) = n - 1
<1>1. Cardinality(places) \in Nat
    BY CountingPlaces
<1>2. Kept(s, places) = [n \in 1 .. Cardinality(places) |-> s[nth(n)]]
    BY Zenon DEF Kept, Before
<1>3. ASSUME NEW n \in 1 .. Cardinality(places)
      PROVE  nth(n) \in places /\ Before(places, nth(n)) = n - 1
  <2>1. \E i \in places : Before(places, i) = n - 1
      BY RankedPlace
  <2> QED BY <2>1, Zenon
<1> HIDE DEF nth
<1> QED BY <1>1, <1>2, <1>3

\* A filter of a sequence is a sequence of the same things.
LEMMA KeptSequence ==
    ASSUME NEW T, NEW s \in Seq(T), NEW places \in SUBSET DOMAIN s
    PROVE  /\ Kept(s, places) \in Seq(T) /\ Len(Kept(s, places)) = Cardinality(places)
           /\ \A n \in DOMAIN Kept(s, places) :
                \E i \in places : Before(places, i) = n - 1 /\ Kept(s, places)[n] = s[i]
<1>1. PICK N \in Nat : N = Len(s)
    OBVIOUS
<1>2. DOMAIN s = 1 .. N /\ \A i \in 1 .. N : s[i] \in T
    BY <1>1
<1>3. PICK k, c : k = Kept(s, places) /\ c = Cardinality(places)
    OBVIOUS
<1>4. /\ c \in Nat /\ k = [n \in 1 .. c |-> k[n]]
      /\ \A n \in 1 .. c : \E i \in places : Before(places, i) = n - 1 /\ k[n] = s[i]
    BY <1>2, <1>3, KeptEntries
<1>5. k \in Seq(T)
  <2>1. k \in [1 .. c -> T]
      BY <1>2, <1>4
  <2> QED BY <1>4, <2>1
<1>6. Len(k) = c /\ DOMAIN k = 1 .. c
    BY <1>4, <1>5
<1> QED BY <1>3, <1>4, <1>5, <1>6

\* A filter that keeps every later entry with an entry keeps an end of the sequence.
LEMMA KeptEnd ==
    ASSUME NEW T, NEW s \in Seq(T), NEW places \in SUBSET DOMAIN s,
           \A i \in places, j \in DOMAIN s : i <= j => j \in places
    PROVE  \E m \in 0 .. Len(s) :
                /\ Kept(s, places) \in Seq(T) /\ Len(Kept(s, places)) = Len(s) - m
                /\ \A n \in 1 .. Len(s) - m : Kept(s, places)[n] = s[m + n]
<1>1. PICK N \in Nat : N = Len(s) /\ DOMAIN s = 1 .. N
    OBVIOUS
<1>2. PICK m \in 0 .. N : \A i \in 1 .. N : i \in places <=> m < i
  <2>1. CASE places = {}
    <3>1. \A i \in 1 .. N : i \in places <=> N < i
        BY <2>1
    <3> QED BY <3>1
  <2>2. CASE places # {}
    <3>1. places \in SUBSET Nat
        BY <1>1
    <3>2. PICK l \in places : \A i \in places : l <= i
        BY <2>2, <3>1, LeastNumber
    <3>3. l \in 1 .. N /\ l - 1 \in 0 .. N
        BY <1>1
    <3>4. \A i \in 1 .. N : i \in places <=> l - 1 < i
        BY <1>1, <3>2, <3>3
    <3> QED BY <3>3, <3>4
  <2> QED BY <2>1, <2>2
<1>3. \A j \in places : j \in Nat /\ m < j /\ j <= N
    BY <1>1, <1>2
<1>4. ASSUME NEW i \in m + 1 .. N + 1 PROVE Before(places, i) = i - 1 - m
  <2>1. \A j : j \in {k \in places : k < i} <=> j \in m + 1 .. i - 1
      BY <1>1, <1>2, <1>3
  <2>2. {k \in places : k < i} = m + 1 .. i - 1
      BY <2>1, Zenon
  <2>3. Cardinality(m + 1 .. i - 1) = i - 1 - m
      BY FS_Interval
  <2> QED BY <2>2, <2>3 DEF Before
<1>5. PICK k, c : k = Kept(s, places) /\ c = Cardinality(places)
    OBVIOUS
<1>6. c = N - m
  <2>1. Before(places, N + 1) = N - m
      BY <1>4
  <2> QED BY <1>1, <1>5, <2>1, CountingPlaces
<1>7. /\ k \in Seq(T) /\ Len(k) = c
      /\ \A n \in DOMAIN k : \E i \in places : Before(places, i) = n - 1 /\ k[n] = s[i]
    BY <1>5, KeptSequence
<1>8. ASSUME NEW n \in 1 .. N - m PROVE k[n] = s[m + n]
  <2>0. n \in DOMAIN k
    <3>1. DOMAIN k = 1 .. Len(k)
        BY <1>7
    <3> QED BY <1>6, <1>7, <3>1
  <2>1. PICK i \in places : Before(places, i) = n - 1 /\ k[n] = s[i]
      BY <1>7, <2>0
  <2>2. i \in m + 1 .. N + 1
      BY <1>3
  <2>3. i - 1 - m = n - 1
      BY <1>4, <2>1, <2>2
  <2>4. i = m + n
      BY <2>2, <2>3
  <2> QED BY <2>1, <2>4
<1> QED BY <1>1, <1>5, <1>6, <1>7, <1>8

\* A set with 0 and with the successor of each of its numbers below a bound has all
\* numbers up to the bound.
LEMMA NumbersUpTo ==
    ASSUME NEW bound \in Nat, NEW S, 0 \in S,
           \A n \in 0 .. bound - 1 : n \in S => n + 1 \in S
    PROVE  0 .. bound \subseteq S
<1> DEFINE T == {n \in 0 .. bound : n \notin S}
<1> SUFFICES ASSUME T # {} PROVE FALSE
    OBVIOUS
<1>1. PICK n \in T : \A m \in T : n <= m
  <2>1. T \in SUBSET Nat
      OBVIOUS
  <2> HIDE DEF T
  <2> QED BY <2>1, LeastNumber
<1>2. n \in 1 .. bound /\ n \notin S
    BY <1>1
<1>3. n - 1 \in 0 .. bound - 1 /\ n - 1 \notin T
    BY <1>1, <1>2
<1>4. n - 1 \in S
    BY <1>2, <1>3
<1> QED BY <1>2, <1>3, <1>4

-----------------------------------------------------------------------------
(***************************************************************************)
(* The stages of a timeline                                                *)
(***************************************************************************)
ReceiptStatus == {"attempted", "committed", "verified", "failed", "ambiguous"}

\* What can be evidence of a receipt.
EvidencePair ==
    ({"execution_attempt"} \X {"attempted", "failed", "ambiguous"})
    \cup ({"provider_receipt"} \X {"committed"})
    \cup ({"verification"} \X {"verified", "failed", "ambiguous"})

\* A receipt becomes one or two entries that tell its status.
LEMMA EvidenceOfReceipt ==
    ASSUME NEW x \in ReceiptStatus
    PROVE  /\ Evidence(x) \in Seq(EvidencePair) /\ Len(Evidence(x)) \in 1 .. 2
           /\ \A k \in 1 .. Len(Evidence(x)) : Evidence(x)[k][2] = x
           /\ x = "attempted" => Evidence(x)[1] = <<"execution_attempt", "attempted">>
           /\ x = "verified" => Len(Evidence(x)) = 1
                                  /\ Evidence(x)[1] = <<"verification", "verified">>
<1>1. CASE x = "attempted"
  <2>1. Evidence(x) = << <<"execution_attempt", "attempted">> >>
      BY <1>1 DEF Evidence
  <2>2. <<"execution_attempt", "attempted">> \in EvidencePair
      BY DEF EvidencePair
  <2> QED BY <1>1, <2>1, <2>2
<1>2. CASE x = "committed"
  <2>1. Evidence(x) = << <<"provider_receipt", "committed">> >>
      BY <1>2 DEF Evidence
  <2>2. <<"provider_receipt", "committed">> \in EvidencePair
      BY DEF EvidencePair
  <2> QED BY <1>2, <2>1, <2>2
<1>3. CASE x = "verified"
  <2>1. Evidence(x) = << <<"verification", "verified">> >>
      BY <1>3 DEF Evidence
  <2>2. <<"verification", "verified">> \in EvidencePair
      BY DEF EvidencePair
  <2> QED BY <1>3, <2>1, <2>2
<1>4. CASE x \in {"failed", "ambiguous"}
  <2>1. Evidence(x) = << <<"execution_attempt", x>>, <<"verification", x>> >>
      BY <1>4 DEF Evidence
  <2>2. <<"execution_attempt", x>> \in EvidencePair /\ <<"verification", x>> \in EvidencePair
      BY <1>4 DEF EvidencePair
  <2> QED BY <1>4, <2>1, <2>2
<1> QED BY <1>1, <1>2, <1>3, <1>4 DEF ReceiptStatus

\* The evidence of the receipts up to each one.
EvidenceUpTo(h, f) ==
    f = [n \in 0 .. Len(h) |-> IF n = 0 THEN <<>> ELSE f[n - 1] \o Evidence(h[n])]

\* The recursion is well founded: there is such a function.
LEMMA EvidenceExists ==
    ASSUME NEW h \in Seq(ReceiptStatus)
    PROVE  \E f : EvidenceUpTo(h, f)
<1> DEFINE Good(n, f) == /\ f \in [0 .. n -> Seq(EvidencePair)]
                         /\ f[0] = <<>>
                         /\ \A i \in 1 .. n : f[i] = f[i - 1] \o Evidence(h[i])
           Ns == {n \in 0 .. Len(h) : \E f : Good(n, f)}
<1>0. PICK N \in Nat : N = Len(h)
    OBVIOUS
<1>1. 0 \in Ns
  <2>1. Good(0, [i \in 0 .. 0 |-> <<>>])
      OBVIOUS
  <2> HIDE DEF Good
  <2> QED BY <1>0, <2>1
<1>2. ASSUME NEW n \in 0 .. N - 1, n \in Ns PROVE n + 1 \in Ns
  <2>1. PICK f : Good(n, f)
      BY <1>2
  <2>2. PICK x \in Seq(EvidencePair) : x = f[n] \o Evidence(h[n + 1])
    <3>1. h[n + 1] \in ReceiptStatus
        BY <1>0, <1>2
    <3>2. PICK e \in Seq(EvidencePair) : e = Evidence(h[n + 1])
        BY <3>1, EvidenceOfReceipt
    <3>3. PICK a \in Seq(EvidencePair) : a = f[n]
        BY <1>2, <2>1
    <3>4. a \o e \in Seq(EvidencePair)
        OBVIOUS
    <3> QED BY <3>2, <3>3, <3>4
  <2> DEFINE g == [i \in 0 .. n + 1 |-> IF i = n + 1 THEN x ELSE f[i]]
  <2>3. g \in [0 .. n + 1 -> Seq(EvidencePair)] /\ g[0] = <<>>
      BY <1>2, <2>1, <2>2
  <2>4. ASSUME NEW i \in 1 .. n + 1 PROVE g[i] = g[i - 1] \o Evidence(h[i])
    <3>1. CASE i = n + 1
      <4>1. g[i] = x /\ g[i - 1] = f[n]
          BY <1>2, <3>1
      <4> QED BY <2>2, <3>1, <4>1
    <3>2. CASE i # n + 1
      <4>1. i \in 1 .. n /\ g[i] = f[i] /\ g[i - 1] = f[i - 1]
          BY <1>2, <3>2
      <4> QED BY <2>1, <4>1
    <3> QED BY <3>1, <3>2
  <2>5. Good(n + 1, g)
      BY <2>3, <2>4
  <2>6. n + 1 \in 0 .. N
      BY <1>2
  <2> HIDE DEF Good
  <2> QED BY <1>0, <2>5, <2>6
<1>3. PICK f : Good(N, f)
  <2>1. 0 .. N \subseteq Ns
    <3> HIDE DEF Ns
    <3> QED BY <1>1, <1>2, NumbersUpTo
  <2> HIDE DEF Good
  <2>2. N \in Ns
      BY <2>1
  <2> QED BY <2>2
<1>4. EvidenceUpTo(h, f)
  <2> DEFINE g == [n \in 0 .. N |-> IF n = 0 THEN <<>> ELSE f[n - 1] \o Evidence(h[n])]
  <2>1. ASSUME NEW i \in 0 .. N PROVE f[i] = g[i]
    <3>1. CASE i = 0
        BY <1>3, <3>1
    <3>2. CASE i # 0
      <4>1. i \in 1 .. N
          BY <3>2
      <4> QED BY <1>3, <3>2, <4>1
    <3> QED BY <3>1, <3>2
  <2>2. f = g
      BY <1>3, <2>1
  <2> QED BY <1>0, <2>2 DEF EvidenceUpTo
<1> QED BY <1>4

\* One entry more of a sequence of pairs, and what stands where.
LEMMA Joined ==
    ASSUME NEW T, NEW a \in Seq(T), NEW b \in Seq(T)
    PROVE  /\ a \o b \in Seq(T) /\ Len(a \o b) = Len(a) + Len(b)
           /\ Len(a) \in Nat /\ Len(b) \in Nat
           /\ \A k \in 1 .. Len(a) : (a \o b)[k] = a[k]
           /\ \A k \in 1 .. Len(b) : (a \o b)[Len(a) + k] = b[k]
           /\ \A k \in 1 .. Len(a) + Len(b) :
                \/ k \in 1 .. Len(a)
                \/ k - Len(a) \in 1 .. Len(b) /\ (a \o b)[k] = b[k - Len(a)]
OBVIOUS

\* The evidence of a history: nothing but its statuses, every attempt, and a
\* verification last if that was the last receipt.
LEMMA EvidenceOfHistory ==
    ASSUME NEW h \in Seq(ReceiptStatus)
    PROVE  LET e == Evidences(h)
           IN  /\ e \in Seq(EvidencePair)
               /\ \A k \in 1 .. Len(e) : \E i \in DOMAIN h : e[k][2] = h[i]
               /\ \A i \in DOMAIN h : h[i] = "attempted" =>
                    \E k \in 1 .. Len(e) : e[k] = <<"execution_attempt", "attempted">>
               /\ Len(h) > 0 /\ h[Len(h)] = "verified" =>
                    Len(e) > 0 /\ e[Len(e)] = <<"verification", "verified">>
<1>0. PICK N \in Nat : N = Len(h) /\ DOMAIN h = 1 .. N
    OBVIOUS
<1> DEFINE f == CHOOSE f : EvidenceUpTo(h, f)
           Sound(i) == \A k \in 1 .. Len(f[i]) : \E j \in 1 .. N : f[i][k][2] = h[j]
           Full(i) == \A j \in 1 .. i : h[j] = "attempted" =>
                        \E k \in 1 .. Len(f[i]) : f[i][k] = <<"execution_attempt", "attempted">>
           Last1(i) == i > 0 /\ h[i] = "verified" =>
                        Len(f[i]) > 0 /\ f[i][Len(f[i])] = <<"verification", "verified">>
           Good(i) == f[i] \in Seq(EvidencePair) /\ Sound(i) /\ Full(i) /\ Last1(i)
           Ns == {i \in 0 .. N : Good(i)}
<1>1. EvidenceUpTo(h, f)
    BY EvidenceExists
<1>2. Evidences(h) = f[N]
    BY <1>0 DEF Evidences, EvidenceUpTo
<1> HIDE DEF f
<1>3. f[0] = <<>> /\ \A i \in 0 .. N - 1 : f[i + 1] = f[i] \o Evidence(h[i + 1])
  <2> DEFINE g == [n \in 0 .. N |-> IF n = 0 THEN <<>> ELSE f[n - 1] \o Evidence(h[n])]
  <2>1. f = g
      BY <1>0, <1>1 DEF EvidenceUpTo
  <2>2. g[0] = <<>>
      OBVIOUS
  <2>3. ASSUME NEW i \in 0 .. N - 1 PROVE g[i + 1] = f[i] \o Evidence(h[i + 1])
    <3>1. i + 1 \in 0 .. N /\ i + 1 # 0 /\ (i + 1) - 1 = i
        OBVIOUS
    <3> QED BY <3>1
  <2> HIDE DEF g
  <2> QED BY <2>1, <2>2, <2>3
<1>4. 0 \in Ns
  <2>1. f[0] \in Seq(EvidencePair) /\ Len(f[0]) = 0
      BY <1>3
  <2> QED BY <2>1
<1>5. ASSUME NEW i \in 0 .. N - 1, i \in Ns PROVE i + 1 \in Ns
  <2>1. i + 1 \in 1 .. N /\ h[i + 1] \in ReceiptStatus /\ f[i] \in Seq(EvidencePair)
        /\ Sound(i) /\ Full(i)
      BY <1>0, <1>5
  <2>2. PICK a \in Seq(EvidencePair) : a = f[i]
      BY <2>1
  <2>3. PICK b \in Seq(EvidencePair) : b = Evidence(h[i + 1])
      BY <2>1, EvidenceOfReceipt
  <2>4. PICK c : c = f[i + 1] /\ c = a \o b
      BY <1>3, <2>2, <2>3
  <2>5. /\ Len(b) \in 1 .. 2 /\ \A k \in 1 .. Len(b) : b[k][2] = h[i + 1]
        /\ h[i + 1] = "attempted" => b[1] = <<"execution_attempt", "attempted">>
        /\ h[i + 1] = "verified" => Len(b) = 1 /\ b[1] = <<"verification", "verified">>
      BY <2>1, <2>3, EvidenceOfReceipt
  <2>6. /\ c \in Seq(EvidencePair) /\ Len(c) = Len(a) + Len(b)
        /\ Len(a) \in Nat /\ Len(b) \in Nat
        /\ \A k \in 1 .. Len(a) : c[k] = a[k]
        /\ \A k \in 1 .. Len(b) : c[Len(a) + k] = b[k]
        /\ \A k \in 1 .. Len(a) + Len(b) :
                \/ k \in 1 .. Len(a)
                \/ k - Len(a) \in 1 .. Len(b) /\ c[k] = b[k - Len(a)]
      BY <2>4, Joined
  <2>7. Sound(i + 1)
    <3> SUFFICES ASSUME NEW k \in 1 .. Len(c) PROVE \E j \in 1 .. N : c[k][2] = h[j]
        BY <2>4
    <3>1. CASE k \in 1 .. Len(a)
      <4>1. \E j \in 1 .. N : a[k][2] = h[j]
          BY <2>1, <2>2, <3>1
      <4> HIDE DEF Sound, Full
      <4> QED BY <2>6, <3>1, <4>1
    <3>2. CASE k - Len(a) \in 1 .. Len(b) /\ c[k] = b[k - Len(a)]
        BY <2>1, <2>5, <3>2
    <3> QED BY <2>6, <3>1, <3>2
  <2>8. Full(i + 1)
    <3> SUFFICES ASSUME NEW j \in 1 .. i + 1, h[j] = "attempted"
                 PROVE  \E k \in 1 .. Len(c) : c[k] = <<"execution_attempt", "attempted">>
        BY <2>4
    <3>1. CASE j = i + 1
      <4>1. Len(a) + 1 \in 1 .. Len(c) /\ c[Len(a) + 1] = b[1]
          BY <2>5, <2>6
      <4> QED BY <2>5, <3>1, <4>1
    <3>2. CASE j \in 1 .. i
      <4>1. PICK k \in 1 .. Len(a) : a[k] = <<"execution_attempt", "attempted">>
          BY <2>1, <2>2, <3>2
      <4>2. k \in 1 .. Len(c) /\ c[k] = a[k]
          BY <2>5, <2>6
      <4> QED BY <4>1, <4>2
    <3> QED BY <3>1, <3>2
  <2>9. Last1(i + 1)
    <3> SUFFICES ASSUME h[i + 1] = "verified"
                 PROVE  Len(c) > 0 /\ c[Len(c)] = <<"verification", "verified">>
        BY <2>4
    <3> HIDE DEF Sound, Full
    <3>0. Len(b) = 1 /\ b[1] = <<"verification", "verified">>
        BY <2>5
    <3>1. Len(c) = Len(a) + 1 /\ c[Len(a) + 1] = b[1]
        BY <2>6, <3>0
    <3> QED BY <2>5, <2>6, <3>1
  <2>10. f[i + 1] \in Seq(EvidencePair) /\ i + 1 \in 0 .. N
      BY <2>1, <2>4, <2>6
  <2> HIDE DEF Sound, Full, Last1
  <2> QED BY <2>7, <2>8, <2>9, <2>10
<1>6. Good(N)
  <2>1. 0 .. N \subseteq Ns
    <3> HIDE DEF Ns
    <3> QED BY <1>4, <1>5, NumbersUpTo
  <2> HIDE DEF Good
  <2>2. N \in Ns
      BY <2>1
  <2> QED BY <2>2
<1>7. PICK e : e = f[N]
    OBVIOUS
<1>8. /\ e \in Seq(EvidencePair)
      /\ \A k \in 1 .. Len(e) : \E j \in 1 .. N : e[k][2] = h[j]
      /\ \A j \in 1 .. N : h[j] = "attempted" =>
            \E k \in 1 .. Len(e) : e[k] = <<"execution_attempt", "attempted">>
      /\ N > 0 /\ h[N] = "verified" => Len(e) > 0 /\ e[Len(e)] = <<"verification", "verified">>
    BY <1>6, <1>7
<1>9. Evidences(h) = e /\ Len(h) = N /\ DOMAIN h = 1 .. N
    BY <1>0, <1>2, <1>7
<1> HIDE DEF Good, Ns, Sound, Full, Last1
<1> QED BY <1>8, <1>9

\* The stages around the evidence.
OpeningStages ==
    << <<"intent", "no_status">>, <<"identity", "no_status">>, <<"policy_decision", "no_status">>,
       <<"approval", "approved">>, <<"credential_grant", "no_status">> >>
ClosingStages == << <<"compensation", "not_attempted">> >>
StagePair ==
    EvidencePair \cup {<<"intent", "no_status">>, <<"identity", "no_status">>, <<"policy_decision", "no_status">>,
                       <<"approval", "approved">>, <<"credential_grant", "no_status">>,
                       <<"compensation", "not_attempted">>}

\* A timeline is five stages, the evidence and what is known of a compensation.
LEMMA StagesOfHistory ==
    ASSUME NEW h \in Seq(ReceiptStatus), NEW L, L = Len(Evidences(h))
    PROVE  /\ L \in Nat /\ Stages(h) \in Seq(StagePair) /\ Len(Stages(h)) = L + 6
           /\ Stages(h)[1] = <<"intent", "no_status">>
           /\ \A k \in 2 .. 5 :
                /\ Stages(h)[k][1] \in {"identity", "policy_decision", "approval", "credential_grant"}
                /\ Stages(h)[k][2] # "verified"
           /\ \A k \in 1 .. L : Stages(h)[5 + k] = Evidences(h)[k] /\ Evidences(h)[k] \in EvidencePair
           /\ Stages(h)[L + 6] = <<"compensation", "not_attempted">>
<1>1. PICK e \in Seq(EvidencePair) : e = Evidences(h)
    BY EvidenceOfHistory
<1>2. e \in Seq(StagePair) /\ Len(e) = L /\ L \in Nat /\ \A k \in 1 .. L : e[k] \in EvidencePair
  <2>1. EvidencePair \subseteq StagePair
      BY DEF StagePair
  <2>2. Len(e) = L /\ L \in Nat /\ e \in [1 .. L -> EvidencePair]
      BY <1>1
  <2>3. e \in [1 .. L -> StagePair]
      BY <2>1, <2>2
  <2> QED BY <2>2, <2>3
<1>t. /\ <<"intent", "no_status">> \in StagePair /\ <<"identity", "no_status">> \in StagePair
      /\ <<"policy_decision", "no_status">> \in StagePair /\ <<"approval", "approved">> \in StagePair
      /\ <<"credential_grant", "no_status">> \in StagePair
      /\ <<"compensation", "not_attempted">> \in StagePair
    BY Zenon DEF StagePair
<1>u. \A a, b, c, d, f \in StagePair : <<a, b, c, d, f>> \in Seq(StagePair) /\ <<a>> \in Seq(StagePair)
    OBVIOUS
<1>3. PICK p \in Seq(StagePair) : p = OpeningStages
    BY <1>t, <1>u, Zenon DEF OpeningStages
<1>4. PICK q \in Seq(StagePair) : q = ClosingStages
    BY <1>t, <1>u, Zenon DEF ClosingStages
<1>5. /\ Len(p) = 5 /\ p[1] = <<"intent", "no_status">> /\ p[2] = <<"identity", "no_status">>
      /\ p[3] = <<"policy_decision", "no_status">> /\ p[4] = <<"approval", "approved">>
      /\ p[5] = <<"credential_grant", "no_status">>
      /\ Len(q) = 1 /\ q[1] = <<"compensation", "not_attempted">>
    BY <1>3, <1>4 DEF OpeningStages, ClosingStages
<1>6. PICK a \in Seq(StagePair) : a = p \o e
    BY <1>2, Joined
<1>7. Stages(h) = a \o q
    BY <1>1, <1>3, <1>4, <1>6 DEF Stages, OpeningStages, ClosingStages
<1>8. /\ Len(a) = 5 + L /\ \A k \in 1 .. 5 : a[k] = p[k]
      /\ \A k \in 1 .. L : a[5 + k] = e[k]
  <2>1. /\ Len(a) = Len(p) + Len(e) /\ \A k \in 1 .. Len(p) : a[k] = p[k]
        /\ \A k \in 1 .. Len(e) : a[Len(p) + k] = e[k]
    <3>1. /\ Len(p \o e) = Len(p) + Len(e) /\ \A k \in 1 .. Len(p) : (p \o e)[k] = p[k]
          /\ \A k \in 1 .. Len(e) : (p \o e)[Len(p) + k] = e[k]
      <4>1. PICK T : T = StagePair
          OBVIOUS
      <4>2. p \in Seq(T) /\ e \in Seq(T)
          BY <1>2, <4>1
      <4> QED BY <4>2, Joined
    <3> QED BY <1>6, <3>1, Zenon
  <2> QED BY <1>2, <1>5, <2>1
<1>9. PICK s : s = a \o q
    OBVIOUS
<1>10. /\ s \in Seq(StagePair) /\ Len(s) = L + 6 /\ s[L + 6] = q[1]
       /\ \A k \in 1 .. 5 + L : s[k] = a[k]
  <2>1. /\ s \in Seq(StagePair) /\ Len(s) = Len(a) + Len(q) /\ \A k \in 1 .. Len(a) : s[k] = a[k]
        /\ \A k \in 1 .. Len(q) : s[Len(a) + k] = q[k]
      BY <1>9, Joined
  <2>2. s[Len(a) + 1] = q[1]
      BY <1>5, <2>1
  <2>3. Len(a) + 1 = L + 6
      BY <1>2, <1>8
  <2> QED BY <1>2, <1>5, <1>8, <2>1, <2>2, <2>3
<1>11. \A k \in 1 .. L : s[5 + k] = e[k]
    BY <1>2, <1>8, <1>10
<1>12. \A k \in 1 .. 5 : s[k] = p[k]
    BY <1>2, <1>8, <1>10
<1>13. ASSUME NEW k \in 2 .. 5
       PROVE  /\ s[k][1] \in {"identity", "policy_decision", "approval", "credential_grant"}
              /\ s[k][2] # "verified"
  <2>1. s[k] = p[k]
      BY <1>12
  <2>2. CASE k = 2
      BY <1>5, <2>1, <2>2
  <2>3. CASE k = 3
      BY <1>5, <2>1, <2>3
  <2>4. CASE k = 4
      BY <1>5, <2>1, <2>4
  <2>5. CASE k = 5
      BY <1>5, <2>1, <2>5
  <2> QED BY <2>2, <2>3, <2>4, <2>5
<1>14. s[1] = <<"intent", "no_status">>
    BY <1>5, <1>12
<1>15. Stages(h) = s
    BY <1>7, <1>9
<1> QED BY <1>1, <1>2, <1>5, <1>10, <1>11, <1>13, <1>14, <1>15

\* Only the first stage is the intent.
LEMMA IntentIsFirst ==
    ASSUME NEW h \in Seq(ReceiptStatus), NEW k \in 1 .. Len(Stages(h)), Stages(h)[k][1] = "intent"
    PROVE  k = 1
<1>1. PICK L : L = Len(Evidences(h))
    OBVIOUS
<1>2. PICK s, e : s = Stages(h) /\ e = Evidences(h)
    OBVIOUS
<1>3. /\ L \in Nat /\ Len(s) = L + 6
      /\ \A i \in 2 .. 5 :
            s[i][1] \in {"identity", "policy_decision", "approval", "credential_grant"}
      /\ \A i \in 1 .. L : s[5 + i] = e[i] /\ e[i] \in EvidencePair
      /\ s[L + 6] = <<"compensation", "not_attempted">>
    BY <1>1, <1>2, StagesOfHistory
<1>4. k \in Nat /\ 1 <= k /\ k <= L + 6 /\ s[k][1] = "intent"
    BY <1>2, <1>3
<1>5. k \notin 2 .. 5
    BY <1>3, <1>4
<1>6. k # L + 6
    BY <1>3, <1>4
<1>7. ASSUME k >= 6, k < L + 6 PROVE FALSE
  <2>1. k - 5 \in 1 .. L /\ 5 + (k - 5) = k
      BY <1>3, <1>4, <1>7
  <2>2. s[k] \in EvidencePair
      BY <1>3, <2>1
  <2> QED BY <1>4, <2>2 DEF EvidencePair
<1> QED BY <1>3, <1>4, <1>5, <1>6, <1>7

\* A timeline that was written whole.
Matches(timeline, h) ==
    /\ Len(timeline) = Len(Stages(h)) /\ DOMAIN timeline = 1 .. Len(Stages(h))
    /\ \A n \in 1 .. Len(Stages(h)) :
        timeline[n].stage = Stages(h)[n][1] /\ timeline[n].status = Stages(h)[n][2]

\* The greatest of some places.
LEMMA GreatestPlace ==
    ASSUME NEW N \in Nat, NEW S \in SUBSET (1 .. N), S # {}
    PROVE  Max(S) \in S /\ \A i \in S : i <= Max(S)
<1> DEFINE T == {i \in 0 .. N : N - i \in S}
<1>1. T \in SUBSET Nat /\ T # {}
  <2>1. PICK x \in S : TRUE
      OBVIOUS
  <2>2. N - x \in 0 .. N /\ N - (N - x) = x
      OBVIOUS
  <2>3. N - x \in T
      BY <2>2
  <2>4. T \subseteq 0 .. N
      OBVIOUS
  <2> HIDE DEF T
  <2> QED BY <2>3, <2>4
<1>2. PICK m \in T : \A n \in T : m <= n
  <2> HIDE DEF T
  <2> QED BY <1>1, LeastNumber
<1>3. PICK x \in S : m = N - x
  <2>1. m \in 0 .. N /\ N - m \in S /\ m = N - (N - m)
      BY <1>2
  <2> QED BY <2>1
<1>4. ASSUME NEW y \in S PROVE x >= y
  <2>1. N - y \in T
      OBVIOUS
  <2>2. N - x <= N - y
      BY <1>2, <1>3, <2>1
  <2> QED BY <2>2
<1>5. \E u \in S : \A y \in S : u >= y
    BY <1>4
<1>6. Max(S) \in S /\ \A y \in S : Max(S) >= y
    BY <1>5, Zenon DEF Max
<1> QED BY <1>6

\* What the last entry of a stage says.
LEMMA LastOfStage ==
    ASSUME NEW tl, NEW N \in Nat, DOMAIN tl = 1 .. N, NEW stage
    PROVE  \/ Having(tl, stage) = {} /\ LastStatus(tl, stage) = "none"
           \/ \E m \in 1 .. N :
                /\ tl[m].stage = stage /\ LastStatus(tl, stage) = tl[m].status
                /\ \A i \in 1 .. N : tl[i].stage = stage => i <= m
<1>1. CASE Having(tl, stage) = {}
    BY <1>1 DEF LastStatus
<1>2. CASE Having(tl, stage) # {}
  <2>1. PICK S \in SUBSET (1 .. N) : S = Having(tl, stage)
      BY DEF Having
  <2>2. PICK m : m = Max(S)
      OBVIOUS
  <2>3. m \in S /\ \A i \in S : i <= m
      BY <1>2, <2>1, <2>2, GreatestPlace
  <2>4. LastStatus(tl, stage) = tl[m].status
      BY <1>2, <2>1, <2>2 DEF LastStatus
  <2>5. \A i \in 1 .. N : i \in S <=> tl[i].stage = stage
      BY <2>1 DEF Having
  <2> QED BY <2>3, <2>4, <2>5
<1> QED BY <1>1, <1>2

\* A history is one of statuses, and nothing follows a verification.
LEMMA HistoryType ==
    ASSUME NEW h \in ReceiptHistory
    PROVE  /\ h \in Seq(ReceiptStatus)
           /\ \A i \in DOMAIN h : h[i] = "verified" => i = Len(h)
BY LedgerAssumption, ReceiptAssumption DEF ReceiptStatus

\* A whole timeline is verified exactly when its history is.
LEMMA VerifiedTimeline ==
    ASSUME NEW h \in ReceiptHistory, NEW tl, Matches(tl, h)
    PROVE  LastStatus(tl, "verification") = "verified" <=> \E i \in DOMAIN h : h[i] = "verified"
<1>1. PICK s, e, L : s = Stages(h) /\ e = Evidences(h) /\ L = Len(e)
    OBVIOUS
<1>2. h \in Seq(ReceiptStatus) /\ \A i \in DOMAIN h : h[i] = "verified" => i = Len(h)
    BY HistoryType
<1>3. /\ L \in Nat /\ Len(s) = L + 6 /\ s[1] = <<"intent", "no_status">>
      /\ \A i \in 2 .. 5 :
            /\ s[i][1] \in {"identity", "policy_decision", "approval", "credential_grant"}
            /\ s[i][2] # "verified"
      /\ \A i \in 1 .. L : s[5 + i] = e[i] /\ e[i] \in EvidencePair
      /\ s[L + 6] = <<"compensation", "not_attempted">>
    BY <1>1, <1>2, StagesOfHistory
<1>4. /\ \A k \in 1 .. L : \E i \in DOMAIN h : e[k][2] = h[i]
      /\ Len(h) > 0 /\ h[Len(h)] = "verified" =>
            L > 0 /\ e[L] = <<"verification", "verified">>
    BY <1>1, <1>2, EvidenceOfHistory
<1>5. /\ DOMAIN tl = 1 .. L + 6
      /\ \A n \in 1 .. L + 6 : tl[n].stage = s[n][1] /\ tl[n].status = s[n][2]
    BY <1>1, <1>3 DEF Matches
<1>6. \/ Having(tl, "verification") = {} /\ LastStatus(tl, "verification") = "none"
      \/ \E m \in 1 .. L + 6 :
            /\ tl[m].stage = "verification" /\ LastStatus(tl, "verification") = tl[m].status
            /\ \A i \in 1 .. L + 6 : tl[i].stage = "verification" => i <= m
  <2>1. L + 6 \in Nat
      BY <1>3
  <2> QED BY <1>5, <2>1, LastOfStage
<1>7. ASSUME NEW m \in 1 .. L + 6, tl[m].stage = "verification" PROVE m - 5 \in 1 .. L /\ s[m] = e[m - 5]
  <2>1. s[m][1] = "verification"
      BY <1>5, <1>7
  <2>2. m # 1 /\ m \notin 2 .. 5 /\ m # L + 6
      BY <1>3, <2>1
  <2>3. m - 5 \in 1 .. L /\ 5 + (m - 5) = m
      BY <1>3, <2>2
  <2> QED BY <1>3, <2>3
<1>8. ASSUME LastStatus(tl, "verification") = "verified"
      PROVE  \E i \in DOMAIN h : h[i] = "verified"
  <2>1. PICK m \in 1 .. L + 6 : tl[m].stage = "verification" /\ tl[m].status = "verified"
      BY <1>6, <1>8
  <2>2. m - 5 \in 1 .. L /\ s[m] = e[m - 5]
      BY <1>7, <2>1
  <2>3. e[m - 5][2] = "verified"
      BY <1>5, <2>1, <2>2
  <2> QED BY <1>4, <2>2, <2>3
<1>9. ASSUME NEW j \in DOMAIN h, h[j] = "verified"
      PROVE  LastStatus(tl, "verification") = "verified"
  <2>1. Len(h) > 0 /\ h[Len(h)] = "verified"
      BY <1>2, <1>9
  <2>2. L > 0 /\ e[L] = <<"verification", "verified">>
      BY <1>4, <2>1
  <2>3. L \in 1 .. L /\ 5 + L \in 1 .. L + 6 /\ s[5 + L] = e[L]
      BY <1>3, <2>2
  <2>4. tl[5 + L].stage = "verification" /\ tl[5 + L].status = "verified"
      BY <1>5, <2>2, <2>3
  <2>5. Having(tl, "verification") # {}
      BY <1>5, <2>3, <2>4 DEF Having
  <2>6. PICK m \in 1 .. L + 6 :
            /\ tl[m].stage = "verification" /\ LastStatus(tl, "verification") = tl[m].status
            /\ 5 + L <= m
      BY <1>6, <2>3, <2>4, <2>5
  <2>7. m = 5 + L
    <3>1. m - 5 \in 1 .. L
        BY <1>7, <2>6
    <3> QED BY <1>3, <2>6, <3>1
  <2> QED BY <2>4, <2>6, <2>7
<1> QED BY <1>8, <1>9

\* A whole timeline of an action that was attempted is not that of one that was not.
LEMMA AttemptedTimeline ==
    ASSUME NEW h \in ReceiptHistory, NEW tl, Matches(tl, h),
           NEW j \in DOMAIN h, h[j] = "attempted"
    PROVE  classifyIntent(tl) # "not_committed"
<1>1. PICK s, e, L : s = Stages(h) /\ e = Evidences(h) /\ L = Len(e)
    OBVIOUS
<1>2. h \in Seq(ReceiptStatus)
    BY HistoryType
<1>3. /\ L \in Nat /\ Len(s) = L + 6 /\ s[1] = <<"intent", "no_status">>
      /\ \A i \in 2 .. 5 :
            s[i][1] \in {"identity", "policy_decision", "approval", "credential_grant"}
      /\ \A i \in 1 .. L : s[5 + i] = e[i] /\ e[i] \in EvidencePair
      /\ s[L + 6] = <<"compensation", "not_attempted">>
    BY <1>1, <1>2, StagesOfHistory
<1>4. PICK k \in 1 .. L : e[k] = <<"execution_attempt", "attempted">>
    BY <1>1, <1>2, EvidenceOfHistory
<1>5. /\ DOMAIN tl = 1 .. L + 6
      /\ \A n \in 1 .. L + 6 : tl[n].stage = s[n][1] /\ tl[n].status = s[n][2]
    BY <1>1, <1>3 DEF Matches
<1>6. 5 + k \in 1 .. L + 6 /\ tl[5 + k].stage = "execution_attempt"
    BY <1>3, <1>4, <1>5
<1>7. Having(tl, "execution_attempt") # {}
    BY <1>5, <1>6 DEF Having
<1>8. PICK m \in 1 .. L + 6 :
            tl[m].stage = "execution_attempt" /\ LastStatus(tl, "execution_attempt") = tl[m].status
  <2>1. L + 6 \in Nat
      BY <1>3
  <2> QED BY <1>5, <1>7, <2>1, LastOfStage
<1>9. s[m][1] = "execution_attempt" /\ s[m][2] = tl[m].status
    BY <1>5, <1>8
<1>10. m # 1 /\ m \notin 2 .. 5 /\ m # L + 6
    BY <1>3, <1>9
<1>11. m - 5 \in 1 .. L /\ 5 + (m - 5) = m
    BY <1>3, <1>10
<1>12. s[m] \in EvidencePair
    BY <1>3, <1>11
<1>13. LastStatus(tl, "execution_attempt") \in {"attempted", "failed", "ambiguous"}
    BY <1>8, <1>9, <1>12 DEF EvidencePair
<1> QED BY <1>13 DEF classifyIntent

\* Only what is taken for not attempted may be retried.
LEMMA RetryNeedsNoIntent ==
    ASSUME NEW intent, NEW presence, decideOutcome(intent, presence).retrySafe
    PROVE  intent = "not_committed"
BY DEF decideOutcome, Outcome
-----------------------------------------------------------------------------
(***************************************************************************)
(* Chains                                                                  *)
(***************************************************************************)
IsSequence(s) == \E T : s \in Seq(T)

\* Every entry is sealed with the one before it.
Linked(t, s) ==
    \A i \in 1 .. Len(s) :
        /\ s[i].sequence = i
        /\ s[i].previousHash = IF i = 1 THEN genesisHash(t) ELSE s[i - 1].entryHash
        /\ s[i].entryHash = <<s[i].previousHash, i, s[i].body>>
HeadOf(t, s) == IF Len(s) = 0 THEN genesisHash(t) ELSE s[Len(s)].entryHash

\* The entries are in the order of their instants, none of them after at.
InTime(s, at) ==
    /\ \A i \in 1 .. Len(s) : s[i].body.timestamp \in Nat /\ s[i].body.timestamp <= at
    /\ \A i, j \in 1 .. Len(s) : i <= j => s[i].body.timestamp <= s[j].body.timestamp

\* The fields of a sealed entry.
LEMMA SealedEntry ==
    ASSUME NEW p, NEW n, NEW b
    PROVE  /\ Sealed(p, n, b).sequence = n /\ Sealed(p, n, b).body = b
           /\ Sealed(p, n, b).previousHash = p /\ Sealed(p, n, b).entryHash = <<p, n, b>>
BY DEF Sealed

\* The length and the domain of a sequence.
LEMMA SequenceLength ==
    ASSUME NEW s, IsSequence(s)
    PROVE  Len(s) \in Nat /\ DOMAIN s = 1 .. Len(s) /\ s = [i \in 1 .. Len(s) |-> s[i]]
           /\ (s = <<>> <=> Len(s) = 0)
<1>1. PICK T : s \in Seq(T)
    BY DEF IsSequence
<1> QED BY <1>1

\* A function on the first numbers is a sequence.
LEMMA FunctionSequence ==
    ASSUME NEW n \in Nat, NEW f, f = [i \in 1 .. n |-> f[i]]
    PROVE  IsSequence(f) /\ Len(f) = n
<1>1. PICK T : T = {f[i] : i \in 1 .. n}
    OBVIOUS
<1>2. \A i \in 1 .. n : f[i] \in T
    BY <1>1
<1>3. f \in [1 .. n -> T]
    BY <1>2
<1>4. f \in Seq(T)
    BY <1>3
<1>5. Len(f) = n
    BY <1>3, <1>4
<1> QED BY <1>4, <1>5 DEF IsSequence

\* One entry more.
LEMMA OneEntryMore ==
    ASSUME NEW s, IsSequence(s), NEW x
    PROVE  /\ IsSequence(Append(s, x)) /\ Len(Append(s, x)) = Len(s) + 1
           /\ \A i \in 1 .. Len(s) : Append(s, x)[i] = s[i]
           /\ Append(s, x)[Len(s) + 1] = x
<1>1. PICK T : s \in Seq(T)
    BY DEF IsSequence
<1>2. PICK U : U = T \cup {x}
    OBVIOUS
<1>3. s \in Seq(U) /\ x \in U
  <2>1. s \in [1 .. Len(s) -> U] /\ Len(s) \in Nat
      BY <1>1, <1>2
  <2> QED BY <1>2, <2>1
<1>4. /\ Append(s, x) \in Seq(U) /\ Len(Append(s, x)) = Len(s) + 1
      /\ \A i \in 1 .. Len(s) : Append(s, x)[i] = s[i]
      /\ Append(s, x)[Len(s) + 1] = x
    BY <1>3
<1> QED BY <1>4 DEF IsSequence

\* Sealing the entries anew, one after the other.
LinkedAnew(t, s, f) ==
    f = [i \in 1 .. Len(s) |->
            Sealed(IF i = 1 THEN genesisHash(t) ELSE f[i - 1].entryHash, i, s[i].body)]

\* The recursion is well founded: there is such a function.
LEMMA LinkedExists ==
    ASSUME NEW t, NEW s, IsSequence(s)
    PROVE  \E f : LinkedAnew(t, s, f)
<1> DEFINE Next1(f, i) == Sealed(IF i = 1 THEN genesisHash(t) ELSE f[i - 1].entryHash, i, s[i].body)
           Good(n, f) == f = [i \in 1 .. n |-> f[i]] /\ \A i \in 1 .. n : f[i] = Next1(f, i)
           Ns == {n \in 0 .. Len(s) : \E f : Good(n, f)}
<1>0. PICK N \in Nat : N = Len(s)
    BY SequenceLength
<1>1. 0 \in Ns
  <2>1. PICK f : f = [i \in 1 .. 0 |-> 0]
      OBVIOUS
  <2>2. Good(0, f)
    <3> HIDE DEF Next1
    <3> QED BY <2>1
  <2> HIDE DEF Good
  <2> QED BY <1>0, <2>2
<1>2. ASSUME NEW n \in 0 .. N - 1, n \in Ns PROVE n + 1 \in Ns
  <2>1. PICK f : Good(n, f)
    <3> HIDE DEF Good
    <3> QED BY <1>2
  <2>2. PICK x : x = Next1(f, n + 1)
      OBVIOUS
  <2>3. PICK g : g = [i \in 1 .. n + 1 |-> IF i = n + 1 THEN x ELSE f[i]]
      OBVIOUS
  <2>4. g = [i \in 1 .. n + 1 |-> g[i]] /\ g[n + 1] = x /\ \A i \in 1 .. n : g[i] = f[i]
    <3> HIDE DEF Next1, Good, Ns
    <3> QED BY <1>2, <2>3
  <2>5. ASSUME NEW i \in 1 .. n + 1 PROVE Next1(g, i) = Next1(f, i)
    <3>1. i = 1 \/ i - 1 \in 1 .. n
        BY <1>2
    <3>2. i = 1 \/ g[i - 1] = f[i - 1]
        BY <2>4, <3>1
    <3> QED BY <3>2
  <2>6. \A i \in 1 .. n + 1 : g[i] = Next1(g, i)
    <3>1. \A i \in 1 .. n : f[i] = Next1(f, i)
        BY <2>1
    <3> HIDE DEF Next1, Good
    <3>2. ASSUME NEW i \in 1 .. n + 1 PROVE g[i] = Next1(f, i)
      <4>1. CASE i = n + 1
          BY <2>2, <2>4, <4>1
      <4>2. CASE i # n + 1
        <5>1. i \in 1 .. n
            BY <1>2, <4>2
        <5> QED BY <2>4, <3>1, <5>1
      <4> QED BY <4>1, <4>2
    <3> QED BY <2>5, <3>2
  <2>7. Good(n + 1, g)
    <3> HIDE DEF Next1
    <3> QED BY <2>4, <2>6
  <2>8. n + 1 \in 0 .. N
      BY <1>2
  <2> HIDE DEF Good
  <2> QED BY <1>0, <2>7, <2>8
<1>3. PICK f : Good(N, f)
  <2>1. 0 .. N \subseteq Ns
    <3> HIDE DEF Ns
    <3> QED BY <1>1, <1>2, NumbersUpTo
  <2> HIDE DEF Good
  <2>2. N \in Ns
      BY <2>1
  <2> QED BY <2>2
<1>4. f = [i \in 1 .. N |-> Next1(f, i)]
  <2> HIDE DEF Next1
  <2> QED BY <1>3
<1> QED BY <1>0, <1>4 DEF LinkedAnew

\* The chain that is linked again has the same bodies, and verifies.
LEMMA RelinkedChain ==
    ASSUME NEW t, NEW s, IsSequence(s)
    PROVE  LET r == relinkTenantChain(t, s)
           IN  /\ IsSequence(r) /\ Len(r) = Len(s) /\ Linked(t, r)
               /\ \A i \in 1 .. Len(s) : r[i].body = s[i].body
<1>0. PICK N \in Nat : N = Len(s)
    BY SequenceLength
<1>1. PICK r : r = relinkTenantChain(t, s)
    OBVIOUS
<1>2. LinkedAnew(t, s, r)
  <2> DEFINE f == CHOOSE f : LinkedAnew(t, s, f)
  <2>1. LinkedAnew(t, s, f)
      BY LinkedExists
  <2>2. r = f
      BY <1>1 DEF relinkTenantChain, LinkedAnew
  <2> QED BY <2>1, <2>2
<1>3. ASSUME NEW i \in 1 .. N
      PROVE  r[i] = Sealed(IF i = 1 THEN genesisHash(t) ELSE r[i - 1].entryHash, i, s[i].body)
    BY <1>0, <1>2 DEF LinkedAnew
<1>4. r = [i \in 1 .. N |-> r[i]]
    BY <1>0, <1>2 DEF LinkedAnew
<1>5. IsSequence(r) /\ Len(r) = N
    BY <1>4, FunctionSequence
<1>6. ASSUME NEW i \in 1 .. N
      PROVE  /\ r[i].sequence = i /\ r[i].body = s[i].body
             /\ r[i].previousHash = IF i = 1 THEN genesisHash(t) ELSE r[i - 1].entryHash
             /\ r[i].entryHash = <<r[i].previousHash, i, r[i].body>>
    BY <1>3, SealedEntry
<1>7. Linked(t, r)
    BY <1>5, <1>6 DEF Linked
<1> QED BY <1>0, <1>1, <1>5, <1>6, <1>7

\* What the file says of a tenant, with a head among some hashes.
TenantRecord(hashes) ==
    [tracked : BOOLEAN, entryCount : Nat, headHash : hashes,
     retentionDays : RetentionDays \cup {Forever}, legalHold : BOOLEAN, deletionRequested : BOOLEAN]

\* A tenant r with a chain s that verifies, written up to an instant.
GoodTenant(t, r, s, at) ==
    /\ \E hashes : r \in TenantRecord(hashes)
    /\ IsSequence(s) /\ Linked(t, s) /\ InTime(s, at)
    /\ r.entryCount = Len(s) /\ r.headHash = HeadOf(t, s)
    /\ ~r.tracked => r = Untracked(t) /\ Len(s) = 0

SameSettings(r, q) ==
    /\ q.retentionDays = r.retentionDays /\ q.legalHold = r.legalHold
    /\ q.deletionRequested = r.deletionRequested

Held(r) == r.legalHold \/ r.retentionDays = Forever

\* A tenant whose count and head are written.
Recounted(r, n, head) == [r EXCEPT !.entryCount = n, !.headHash = head]

\* The record of a tenant whose entries are counted anew.
LEMMA TenantWritten ==
    ASSUME NEW hashes, NEW r \in TenantRecord(hashes), NEW n \in Nat, NEW head,
           NEW q, q = Recounted(r, n, head)
    PROVE  /\ q \in TenantRecord({head}) /\ SameSettings(r, q) /\ q.tracked = r.tracked
           /\ q.entryCount = n /\ q.headHash = head
BY DEF TenantRecord, SameSettings, Recounted

\* The fields of a mutation in progress.
LEMMA MutationFields ==
    ASSUME NEW c, NEW r, NEW k
    PROVE  /\ Mutation(c, r, k).chain = c /\ Mutation(c, r, k).tenant = r
           /\ Mutation(c, r, k).ok = k
BY DEF Mutation

\* What a rotation leaves to one tenant, as entries, as a chain and as a record.
Survivors(r, s, at) ==
    IF ~(r.retentionDays # Forever /\ ~r.legalHold) THEN s
    ELSE Kept(s, {i \in DOMAIN s : s[i].body.timestamp >= at - r.retentionDays})
Rebuilt(t, r, s, at) ==
    IF Len(Survivors(r, s, at)) # Len(s) THEN relinkTenantChain(t, Survivors(r, s, at)) ELSE s
Renewed(t, r, s, at) ==
    IF ~(Len(Survivors(r, s, at)) # Len(s)) THEN r
    ELSE [r EXCEPT
            !.entryCount = Len(Rebuilt(t, r, s, at)),
            !.headHash = IF Rebuilt(t, r, s, at) = <<>> THEN genesisHash(t)
                         ELSE Rebuilt(t, r, s, at)[Len(Rebuilt(t, r, s, at))].entryHash]

EndOf(s, q) ==
    \E c \in 0 .. Len(s) : Len(q) = Len(s) - c /\ \A i \in 1 .. Len(s) - c : q[i] = s[c + i]

\* What is left of a tenant's chain when it is rotated is the end of that chain.
LEMMA RotatedTenant ==
    ASSUME NEW t, NEW r, NEW s, NEW at \in Nat, NEW later \in Nat, at <= later,
           GoodTenant(t, r, s, at), ~Held(r),
           NEW q, q = Survivors(r, s, later)
    PROVE  IsSequence(q) /\ EndOf(s, q)
<1>1. PICK T : s \in Seq(T)
    BY DEF GoodTenant, IsSequence
<1>2. PICK d \in Nat : d = r.retentionDays
    BY LedgerAssumption DEF GoodTenant, TenantRecord, Held
<1> DEFINE places == {i \in DOMAIN s : s[i].body.timestamp >= later - d}
<1>3. \A i, j \in 1 .. Len(s) : /\ s[i].body.timestamp \in Nat
                                /\ i <= j => s[i].body.timestamp <= s[j].body.timestamp
    BY DEF GoodTenant, InTime
<1>4. Len(s) \in Nat /\ DOMAIN s = 1 .. Len(s)
    BY <1>1
<1>5. \A i \in places, j \in DOMAIN s : i <= j => j \in places
    BY <1>2, <1>3, <1>4
<1>6. places \in SUBSET DOMAIN s
    OBVIOUS
<1>7. q = Kept(s, places)
    BY <1>2 DEF Survivors, Held
<1> HIDE DEF places
<1>8. PICK m \in 0 .. Len(s) :
            /\ q \in Seq(T) /\ Len(q) = Len(s) - m
            /\ \A n \in 1 .. Len(s) - m : q[n] = s[m + n]
  <2>1. \E m \in 0 .. Len(s) :
            /\ Kept(s, places) \in Seq(T) /\ Len(Kept(s, places)) = Len(s) - m
            /\ \A n \in 1 .. Len(s) - m : Kept(s, places)[n] = s[m + n]
      BY <1>1, <1>5, <1>6, KeptEnd
  <2> QED BY <1>7, <2>1, Zenon
<1>9. IsSequence(q)
    BY <1>8 DEF IsSequence
<1> QED BY <1>8, <1>9, Zenon DEF EndOf

\* The chains c of tenants r are good, up to an instant.
GoodChains(c, r, at) ==
    /\ c = [u \in LedgerTenant |-> c[u]] /\ r = [u \in LedgerTenant |-> r[u]]
    /\ \A u \in LedgerTenant : GoodTenant(u, r[u], c[u], at)

\* Rotation is that for every tenant.
LEMMA RotationByTenant ==
    ASSUME NEW c, NEW r, NEW k, NEW at
    PROVE  rotateForRetention(Mutation(c, r, k), at) =
                Mutation([t \in LedgerTenant |-> Rebuilt(t, r[t], c[t], at)],
                         [t \in LedgerTenant |-> Renewed(t, r[t], c[t], at)], k)
<1>1. ASSUME NEW st
      PROVE  rotateForRetention(st, at) =
                Mutation([t \in LedgerTenant |-> Rebuilt(t, st.tenant[t], st.chain[t], at)],
                         [t \in LedgerTenant |-> Renewed(t, st.tenant[t], st.chain[t], at)], st.ok)
  <2> DEFINE x == [t \in LedgerTenant |-> Rebuilt(t, st.tenant[t], st.chain[t], at)]
             y == [t \in LedgerTenant |->
                    IF ~(Len(Survivors(st.tenant[t], st.chain[t], at)) # Len(st.chain[t]))
                    THEN st.tenant[t]
                    ELSE [st.tenant[t] EXCEPT
                        !.entryCount = Len(x[t]),
                        !.headHash = IF x[t] = <<>> THEN genesisHash(t)
                                     ELSE x[t][Len(x[t])].entryHash]]
  <2>1. rotateForRetention(st, at) = Mutation(x, y, st.ok)
      BY Zenon DEF rotateForRetention, Rebuilt, Survivors, Rotated
  <2>2. \A t \in LedgerTenant : x[t] = Rebuilt(t, st.tenant[t], st.chain[t], at)
      OBVIOUS
  <2>3. y = [t \in LedgerTenant |-> Renewed(t, st.tenant[t], st.chain[t], at)]
      BY <2>2 DEF Renewed
  <2> QED BY <2>1, <2>3, Zenon
<1>2. PICK st : st = Mutation(c, r, k)
    OBVIOUS
<1>3. st.chain = c /\ st.tenant = r /\ st.ok = k
    BY <1>2, MutationFields
<1>4. rotateForRetention(st, at) =
                Mutation([t \in LedgerTenant |-> Rebuilt(t, st.tenant[t], st.chain[t], at)],
                         [t \in LedgerTenant |-> Renewed(t, st.tenant[t], st.chain[t], at)], st.ok)
    BY <1>1
<1> QED BY <1>2, <1>3, <1>4

\* The bodies of a chain s and of what is appended to it, in their order.
Shown(s, new, i) == IF i <= Len(s) THEN s[i].body ELSE new[i - Len(s)]

\* The chain q is the end of what a chain s and the first m new bodies make; a tenant
\* that is held loses nothing.
Grown(r, s, m, new, q) ==
    \E c \in 0 .. Len(s) + m :
        /\ Len(q) = Len(s) + m - c
        /\ \A i \in 1 .. Len(q) : q[i].body = Shown(s, new, c + i)
        /\ Held(r) => c = 0 /\ \A i \in 1 .. Len(s) : q[i] = s[i]

\* A chain that nothing is appended to is the end of itself.
LEMMA GrownByNothing ==
    ASSUME NEW r, NEW s, IsSequence(s), NEW new
    PROVE  Grown(r, s, 0, new, s)
<1>1. Len(s) \in Nat
    BY SequenceLength
<1>2. \A i \in 1 .. Len(s) : s[i].body = Shown(s, new, 0 + i)
    BY <1>1 DEF Shown
<1>3. 0 \in 0 .. Len(s) + 0 /\ Len(s) = Len(s) + 0 - 0
    BY <1>1
<1> QED BY <1>2, <1>3 DEF Grown

\* A chain that is in time stays so later.
LEMMA StillInTime ==
    ASSUME NEW s, NEW at \in Nat, NEW later \in Nat, at <= later, InTime(s, at)
    PROVE  InTime(s, later)
BY DEF InTime

\* What is good at an instant is good later.
LEMMA StillGood ==
    ASSUME NEW t, NEW r, NEW s, NEW at \in Nat, NEW later \in Nat, at <= later, GoodTenant(t, r, s, at)
    PROVE  GoodTenant(t, r, s, later)
BY StillInTime DEF GoodTenant

\* A tenant that is rotated is good again, under the same settings.
LEMMA TenantRotated ==
    ASSUME NEW t, NEW r, NEW s, NEW at \in Nat, NEW later \in Nat, at <= later,
           GoodTenant(t, r, s, at), NEW new,
           NEW q, q = Rebuilt(t, r, s, later), NEW p, p = Renewed(t, r, s, later)
    PROVE  /\ GoodTenant(t, p, q, later) /\ SameSettings(r, p) /\ p.tracked = r.tracked
           /\ Grown(r, s, 0, new, q)
<1>0. IsSequence(s) /\ Len(s) \in Nat
    BY SequenceLength DEF GoodTenant
<1>1. CASE Len(Survivors(r, s, later)) = Len(s)
  <2>1. q = s /\ p = r
      BY <1>1 DEF Rebuilt, Renewed
  <2> QED BY <1>0, <2>1, StillGood, GrownByNothing DEF SameSettings
<1>2. CASE Len(Survivors(r, s, later)) # Len(s)
  <2>1. ~Held(r)
      BY <1>2 DEF Survivors, Held
  <2>2. PICK v : v = Survivors(r, s, later)
      OBVIOUS
  <2>3. IsSequence(v) /\ EndOf(s, v)
    <3>1. ~Held(r) /\ GoodTenant(t, r, s, at) /\ v = Survivors(r, s, later)
        BY <2>1, <2>2
    <3> QED BY <3>1, RotatedTenant
  <2>4. IsSequence(v)
      BY <2>3
  <2>5. PICK c \in 0 .. Len(s) : Len(v) = Len(s) - c /\ \A i \in 1 .. Len(s) - c : v[i] = s[c + i]
      BY <2>3 DEF EndOf
  <2>6. q = relinkTenantChain(t, v)
      BY <1>2, <2>2 DEF Rebuilt
  <2>7. /\ IsSequence(q) /\ Len(q) = Len(v) /\ Linked(t, q)
        /\ \A i \in 1 .. Len(v) : q[i].body = v[i].body
      BY <2>4, <2>6, RelinkedChain
  <2>8. PICK N \in Nat : N = Len(q) /\ Len(v) = N /\ Len(s) = N + c
      BY <1>0, <2>5, <2>7
  <2>9. \A i \in 1 .. N : q[i].body = s[c + i].body /\ c + i \in 1 .. Len(s)
    <3>1. \A i \in 1 .. N : q[i].body = v[i].body
        BY <2>7, <2>8
    <3>2. \A i \in 1 .. N : v[i] = s[c + i] /\ c + i \in 1 .. Len(s)
        BY <1>0, <2>5, <2>8
    <3> QED BY <3>1, <3>2
  <2>10. InTime(q, later)
    <3>1. InTime(s, later)
        BY StillInTime DEF GoodTenant
    <3>2. ASSUME NEW i \in 1 .. N, NEW j \in 1 .. N, i <= j
          PROVE  /\ q[i].body.timestamp \in Nat /\ q[i].body.timestamp <= later
                 /\ q[i].body.timestamp <= q[j].body.timestamp
      <4>1. c + i \in 1 .. Len(s) /\ c + j \in 1 .. Len(s) /\ c + i <= c + j
          BY <2>5, <2>9, <3>2
      <4>2. /\ s[c + i].body.timestamp \in Nat /\ s[c + i].body.timestamp <= later
            /\ s[c + i].body.timestamp <= s[c + j].body.timestamp
          BY <3>1, <4>1 DEF InTime
      <4>3. q[i].body = s[c + i].body /\ q[j].body = s[c + j].body
          BY <2>9
      <4> QED BY <4>2, <4>3
    <3> QED BY <2>8, <3>2 DEF InTime
  <2>11. PICK head : head = IF q = <<>> THEN genesisHash(t) ELSE q[Len(q)].entryHash
      OBVIOUS
  <2>12. p = [r EXCEPT !.entryCount = Len(q), !.headHash = head]
      BY <1>2, <2>11 DEF Renewed
  <2>13. /\ p \in TenantRecord({head}) /\ SameSettings(r, p) /\ p.tracked = r.tracked
         /\ p.entryCount = Len(q) /\ p.headHash = head
    <3>1. PICK hashes : r \in TenantRecord(hashes)
        BY DEF GoodTenant
    <3>2. p = Recounted(r, N, head)
        BY <2>8, <2>12 DEF Recounted
    <3>3. /\ p \in TenantRecord({head}) /\ SameSettings(r, p) /\ p.tracked = r.tracked
          /\ p.entryCount = N /\ p.headHash = head
        BY <3>1, <3>2, TenantWritten
    <3> QED BY <2>8, <3>3
  <2>14. head = HeadOf(t, q)
      BY <2>7, <2>11, SequenceLength DEF HeadOf
  <2>15. r.tracked = TRUE
    <3>2. Held(Untracked(t))
        BY DEF Held, Untracked
    <3>3. r.tracked \in BOOLEAN /\ (~r.tracked => r = Untracked(t))
        BY DEF GoodTenant, TenantRecord
    <3> QED BY <2>1, <3>2, <3>3
  <2>16. GoodTenant(t, p, q, later)
      BY <2>7, <2>10, <2>13, <2>14, <2>15 DEF GoodTenant
  <2>17. Grown(r, s, 0, new, q)
    <3>1. c \in 0 .. Len(s) + 0 /\ Len(q) = Len(s) + 0 - c
        BY <1>0, <2>5, <2>8
    <3>2. \A i \in 1 .. Len(q) : q[i].body = Shown(s, new, c + i)
        BY <2>8, <2>9 DEF Shown
    <3> QED BY <2>1, <3>1, <3>2 DEF Grown
  <2> QED BY <2>13, <2>16, <2>17
<1> QED BY <1>1, <1>2

\* The chains c and tenants r become c2 and rb: the chain of t grows by the first m new
\* bodies, all of them may lose entries, and the settings stay.
Becomes(c, r, c2, rb, t, m, new) ==
    \A u \in LedgerTenant :
        /\ SameSettings(r[u], rb[u])
        /\ Grown(r[u], c[u], IF u = t THEN m ELSE 0, new, c2[u])

\* The mutation st has rotated these chains, which stay good under the same settings.
RotationOf(c, r, k, t, later, new, st) ==
    \E c2, rb :
        /\ st = Mutation(c2, rb, k)
        /\ GoodChains(c2, rb, later) /\ Becomes(c, r, c2, rb, t, 0, new)
        /\ \A u \in LedgerTenant : rb[u].tracked = r[u].tracked

\* A rotation keeps the chains good, under the same settings.
LEMMA RotatedChains ==
    ASSUME NEW c, NEW r, NEW k, NEW at \in Nat, NEW later \in Nat, at <= later,
           GoodChains(c, r, at), NEW t, NEW new
    PROVE  RotationOf(c, r, k, t, later, new, rotateForRetention(Mutation(c, r, k), later))
<1>1. PICK c2 : c2 = [u \in LedgerTenant |-> Rebuilt(u, r[u], c[u], later)]
    OBVIOUS
<1>2. PICK rb : rb = [u \in LedgerTenant |-> Renewed(u, r[u], c[u], later)]
    OBVIOUS
<1>3. rotateForRetention(Mutation(c, r, k), later) = Mutation(c2, rb, k)
    BY <1>1, <1>2, RotationByTenant, Zenon
<1>4. ASSUME NEW u \in LedgerTenant
      PROVE  /\ GoodTenant(u, rb[u], c2[u], later) /\ SameSettings(r[u], rb[u])
             /\ rb[u].tracked = r[u].tracked /\ Grown(r[u], c[u], 0, new, c2[u])
  <2>1. c2[u] = Rebuilt(u, r[u], c[u], later) /\ rb[u] = Renewed(u, r[u], c[u], later)
      BY <1>1, <1>2
  <2>2. GoodTenant(u, r[u], c[u], at)
      BY DEF GoodChains
  <2> QED BY <2>1, <2>2, TenantRotated
<1>5. c2 = [u \in LedgerTenant |-> c2[u]] /\ rb = [u \in LedgerTenant |-> rb[u]]
    BY <1>1, <1>2
<1>6. GoodChains(c2, rb, later)
    BY <1>4, <1>5 DEF GoodChains
<1>7. Becomes(c, r, c2, rb, t, 0, new)
    BY <1>4, Zenon DEF Becomes
<1> QED BY <1>3, <1>4, <1>6, <1>7 DEF RotationOf

\* A tenant that is written into its place.
LEMMA OneTenantWritten ==
    ASSUME NEW r, r = [u \in LedgerTenant |-> r[u]], NEW t \in LedgerTenant, NEW p
    PROVE  LET q == [r EXCEPT ![t] = p]
           IN  /\ q = [u \in LedgerTenant |-> q[u]] /\ q[t] = p
               /\ \A u \in LedgerTenant : u # t => q[u] = r[u]
OBVIOUS

\* A tenant that is seen for the first time.
LEMMA NewTenant ==
    ASSUME NEW t, NEW s, NEW at, GoodTenant(t, Untracked(t), s, at), Len(s) = 0,
           NEW p, p = [Untracked(t) EXCEPT !.tracked = TRUE]
    PROVE  GoodTenant(t, p, s, at) /\ p.tracked = TRUE /\ SameSettings(Untracked(t), p)
<1>1. PICK g : g = genesisHash(t)
    OBVIOUS
<1>2. p = [tracked |-> TRUE, entryCount |-> 0, headHash |-> g, retentionDays |-> Forever,
           legalHold |-> FALSE, deletionRequested |-> FALSE]
    BY <1>1 DEF Untracked
<1>3. PICK hashes : p \in TenantRecord(hashes)
  <2>1. PICK hashes : Untracked(t) \in TenantRecord(hashes)
      BY DEF GoodTenant
  <2>2. PICK r \in TenantRecord(hashes) : r = Untracked(t)
      BY <2>1
  <2>3. [r EXCEPT !.tracked = TRUE] \in TenantRecord(hashes)
      BY DEF TenantRecord
  <2> QED BY <2>2, <2>3
<1>4. SameSettings(Untracked(t), p)
    BY <1>2 DEF Untracked, SameSettings
<1>5. p.tracked = TRUE /\ p.entryCount = 0 /\ p.headHash = g
    BY <1>2
<1>6. HeadOf(t, s) = g
    BY <1>1 DEF HeadOf
<1>7. IsSequence(s) /\ Linked(t, s) /\ InTime(s, at)
    BY DEF GoodTenant
<1> QED BY <1>3, <1>4, <1>5, <1>6, <1>7 DEF GoodTenant

\* The mutation st has the tenant t, and otherwise these chains under the same settings.
CreationOf(c, r, k, t, st) ==
    \E rb : \E k2 \in BOOLEAN :
        /\ st = Mutation(c, rb, k2)
        /\ k2 => k
        /\ \A at : GoodChains(c, r, at) =>
            /\ GoodChains(c, rb, at) /\ rb[t].tracked = TRUE
            /\ \A u \in LedgerTenant : SameSettings(r[u], rb[u])

\* getOrCreateTenant() keeps the chains good, and the settings.
LEMMA TenantCreated ==
    ASSUME NEW c, NEW r, NEW k \in BOOLEAN, NEW t \in LedgerTenant
    PROVE  CreationOf(c, r, k, t, WithTenant(Mutation(c, r, k), t))
<1>1. PICK st : st = Mutation(c, r, k)
    OBVIOUS
<1>2. st.chain = c /\ st.tenant = r /\ st.ok = k
    BY <1>1, MutationFields
<1>3. CASE r[t].tracked
  <2>1. WithTenant(st, t) = Mutation(c, r, k)
      BY <1>1, <1>2, <1>3 DEF WithTenant
  <2>2. ASSUME NEW at, GoodChains(c, r, at) PROVE r[t].tracked = TRUE
    <3>1. \E hashes : r[t] \in TenantRecord(hashes)
        BY <2>2 DEF GoodChains, GoodTenant
    <3> QED BY <1>3, <3>1 DEF TenantRecord
  <2> QED BY <1>1, <2>1, <2>2 DEF SameSettings, CreationOf
<1>4. CASE ~r[t].tracked
  <2>1. PICK p : p = [Untracked(t) EXCEPT !.tracked = TRUE]
      OBVIOUS
  <2>2. PICK rb : rb = [r EXCEPT ![t] = p]
      OBVIOUS
  <2>3. PICK k2 \in BOOLEAN :
            k2 = (k /\ Cardinality({u \in LedgerTenant : r[u].tracked}) < MaxLedgerTenants)
      OBVIOUS
  <2>4. WithTenant(st, t) = Mutation(c, rb, k2)
    <3>1. WithTenant(st, t) =
            Mutation(st.chain, [st.tenant EXCEPT ![t] = [Untracked(t) EXCEPT !.tracked = TRUE]],
                     st.ok /\ Cardinality({u \in LedgerTenant : st.tenant[u].tracked})
                                < MaxLedgerTenants)
        BY <1>2, <1>4, Zenon DEF WithTenant
    <3> QED BY <1>2, <2>1, <2>2, <2>3, <3>1, Zenon
  <2>5. k2 => k
      BY <2>3
  <2>6. ASSUME NEW at, GoodChains(c, r, at)
        PROVE  /\ GoodChains(c, rb, at) /\ rb[t].tracked = TRUE
               /\ \A u \in LedgerTenant : SameSettings(r[u], rb[u])
    <3>1. /\ rb = [u \in LedgerTenant |-> rb[u]] /\ rb[t] = p
          /\ \A u \in LedgerTenant : u # t => rb[u] = r[u]
      <4>1. r = [u \in LedgerTenant |-> r[u]]
          BY <2>6 DEF GoodChains
      <4> QED BY <2>2, <4>1, OneTenantWritten
    <3>2. GoodTenant(t, r[t], c[t], at)
        BY <2>6 DEF GoodChains
    <3>3. r[t] = Untracked(t) /\ Len(c[t]) = 0
        BY <1>4, <3>2 DEF GoodTenant
    <3>4. GoodTenant(t, p, c[t], at) /\ p.tracked = TRUE /\ SameSettings(r[t], p)
        BY <2>1, <3>2, <3>3, NewTenant
    <3>5. GoodChains(c, rb, at)
        BY <2>6, <3>1, <3>4 DEF GoodChains
    <3>6. \A u \in LedgerTenant : SameSettings(r[u], rb[u])
        BY <3>1, <3>4 DEF SameSettings
    <3> QED BY <3>1, <3>4, <3>5, <3>6
  <2> QED BY <1>1, <2>4, <2>5, <2>6 DEF CreationOf
<1> QED BY <1>3, <1>4

Tracked(p) == p.tracked = TRUE

\* The entry that appendEntry() makes of a body.
EntryFor(t, p, b) ==
    Sealed(IF p.entryCount = 0 THEN genesisHash(t) ELSE p.headHash, p.entryCount + 1, b)

LongerChain(t, p, s, b) == Append(s, EntryFor(t, p, b))
LongerTenant(t, p, b) ==
    Recounted(p, EntryFor(t, p, b).sequence, EntryFor(t, p, b).entryHash)

\* A chain with one more entry, sealed with the head, verifies with it.
LEMMA EntryAppended ==
    ASSUME NEW t, NEW p, NEW s, NEW at \in Nat, GoodTenant(t, p, s, at), Tracked(p),
           NEW b, b.timestamp = at,
           NEW q, q = LongerChain(t, p, s, b), NEW p2, p2 = LongerTenant(t, p, b)
    PROVE  /\ GoodTenant(t, p2, q, at) /\ SameSettings(p, p2) /\ Len(q) = Len(s) + 1
           /\ \A i \in 1 .. Len(s) : q[i] = s[i]
           /\ q[Len(s) + 1].body = b
<1>0. PICK e : /\ e = EntryFor(t, p, b) /\ q = Append(s, e)
               /\ p2 = Recounted(p, e.sequence, e.entryHash)
    BY Zenon DEF LongerChain, LongerTenant
<1>1. PICK N \in Nat : N = Len(s) /\ p.entryCount = N
    BY SequenceLength DEF GoodTenant
<1>2. /\ IsSequence(q) /\ Len(q) = N + 1 /\ \A i \in 1 .. N : q[i] = s[i]
      /\ q[N + 1] = e
    BY <1>0, <1>1, OneEntryMore DEF GoodTenant
<1>3. PICK h : h = HeadOf(t, s)
    OBVIOUS
<1>4. e = Sealed(h, N + 1, b)
  <2>1. p.headHash = h
      BY <1>3 DEF GoodTenant
  <2>2. p.entryCount = 0 => genesisHash(t) = h
      BY <1>1, <1>3 DEF HeadOf
  <2> QED BY <1>0, <1>1, <2>1, <2>2 DEF EntryFor
<1>5. e.sequence = N + 1 /\ e.body = b /\ e.previousHash = h /\ e.entryHash = <<h, N + 1, b>>
    BY <1>4, SealedEntry
<1>6. Linked(t, q)
  <2>1. ASSUME NEW i \in 1 .. N + 1
        PROVE  /\ q[i].sequence = i
               /\ q[i].previousHash = IF i = 1 THEN genesisHash(t) ELSE q[i - 1].entryHash
               /\ q[i].entryHash = <<q[i].previousHash, i, q[i].body>>
    <3>1. CASE i = N + 1
      <4>1. q[i] = e
          BY <1>2, <3>1
      <4>2. h = IF i = 1 THEN genesisHash(t) ELSE q[i - 1].entryHash
        <5>1. CASE N = 0
          <6>1. i = 1
              BY <3>1, <5>1
          <6> QED BY <1>1, <1>3, <5>1, <6>1 DEF HeadOf
        <5>2. CASE N # 0
          <6>1. i # 1 /\ i - 1 = N /\ N \in 1 .. N
              BY <3>1, <5>2
          <6>2. q[i - 1] = s[N]
              BY <1>2, <6>1
          <6> QED BY <1>1, <1>3, <5>2, <6>1, <6>2 DEF HeadOf
        <5> QED BY <5>1, <5>2
      <4> QED BY <1>5, <3>1, <4>1, <4>2
    <3>2. CASE i # N + 1
      <4>1. i \in 1 .. N /\ (i = 1 \/ i - 1 \in 1 .. N)
          BY <3>2
      <4>2. q[i] = s[i] /\ (i = 1 \/ q[i - 1] = s[i - 1])
          BY <1>2, <4>1
      <4>3. /\ s[i].sequence = i
            /\ s[i].previousHash = IF i = 1 THEN genesisHash(t) ELSE s[i - 1].entryHash
            /\ s[i].entryHash = <<s[i].previousHash, i, s[i].body>>
          BY <1>1, <4>1 DEF GoodTenant, Linked
      <4> QED BY <4>2, <4>3
    <3> QED BY <3>1, <3>2
  <2> QED BY <1>2, <2>1 DEF Linked
<1>7. InTime(q, at)
  <2>1. InTime(s, at)
      BY DEF GoodTenant
  <2>2. ASSUME NEW i \in 1 .. N + 1
        PROVE  /\ q[i].body.timestamp \in Nat /\ q[i].body.timestamp <= at
               /\ i \in 1 .. N => q[i] = s[i]
               /\ i \notin 1 .. N => q[i].body.timestamp = at
    <3>1. CASE i = N + 1
      <4>1. q[i].body = b
          BY <1>2, <1>5, <3>1
      <4>2. q[i].body.timestamp = at
          BY <4>1
      <4>3. i \notin 1 .. N
          BY <3>1
      <4>4. PICK x : x = q[i].body.timestamp
          OBVIOUS
      <4>5. x \in Nat /\ x <= at /\ x = at
          BY <4>2, <4>4
      <4> QED BY <4>3, <4>4, <4>5, Zenon
    <3>2. CASE i # N + 1
      <4>1. i \in 1 .. N
          BY <3>2
      <4> QED BY <1>1, <1>2, <2>1, <4>1 DEF InTime
    <3> QED BY <3>1, <3>2
  <2>3. ASSUME NEW i \in 1 .. N + 1, NEW j \in 1 .. N + 1, i <= j
        PROVE  q[i].body.timestamp <= q[j].body.timestamp
    <3>1. CASE j \in 1 .. N
      <4>1. i \in 1 .. N
          BY <2>3, <3>1
      <4> QED BY <1>1, <2>1, <2>2, <2>3, <3>1, <4>1 DEF InTime
    <3>2. CASE j \notin 1 .. N
        BY <2>2, <3>2
    <3> QED BY <3>1, <3>2
  <2> QED BY <1>2, <2>2, <2>3 DEF InTime
<1>8. PICK x : x = e.entryHash
    OBVIOUS
<1>9. /\ p2 \in TenantRecord({x}) /\ SameSettings(p, p2) /\ p2.tracked = TRUE
      /\ p2.entryCount = N + 1 /\ p2.headHash = x
  <2>1. PICK hashes : p \in TenantRecord(hashes)
      BY DEF GoodTenant
  <2>2. N + 1 \in Nat /\ p2 = Recounted(p, N + 1, x)
    <3>1. PICK n : n = N + 1
        OBVIOUS
    <3>2. p2 = Recounted(p, n, x)
        BY <1>0, <1>5, <1>8, <3>1, Zenon
    <3> QED BY <3>1, <3>2
  <2> QED BY <2>1, <2>2, TenantWritten DEF Tracked
<1>10. HeadOf(t, q) = x
    BY <1>2, <1>8 DEF HeadOf
<1>11. GoodTenant(t, p2, q, at)
    BY <1>2, <1>6, <1>7, <1>9, <1>10 DEF GoodTenant
<1>12. q[N + 1].body = b
    BY <1>2, <1>5
<1> QED BY <1>1, <1>2, <1>9, <1>11, <1>12

\* What grows twice has grown by both.
LEMMA GrownTwice ==
    ASSUME NEW r, NEW ra, Held(r) <=> Held(ra), NEW s, IsSequence(s), NEW q, IsSequence(q),
           NEW m \in Nat, NEW l \in Nat, NEW new, NEW more,
           \A i \in 1 .. l : new[m + i] = more[i], NEW v,
           Grown(r, s, m, new, q), Grown(ra, q, l, more, v)
    PROVE  Grown(r, s, m + l, new, v)
<1>1. PICK N \in Nat, Q \in Nat : N = Len(s) /\ Q = Len(q)
    BY SequenceLength
<1>2. PICK c \in 0 .. N + m :
        /\ Q = N + m - c /\ \A i \in 1 .. Q : q[i].body = Shown(s, new, c + i)
        /\ Held(r) => c = 0 /\ \A i \in 1 .. N : q[i] = s[i]
    BY <1>1 DEF Grown
<1>3. PICK d \in 0 .. Q + l :
        /\ Len(v) = Q + l - d /\ \A i \in 1 .. Q + l - d : v[i].body = Shown(q, more, d + i)
        /\ Held(ra) => d = 0 /\ \A i \in 1 .. Q : v[i] = q[i]
    BY <1>1 DEF Grown
<1>4. c + d \in 0 .. N + (m + l) /\ Len(v) = N + (m + l) - (c + d)
    BY <1>2, <1>3
<1>5. ASSUME NEW i \in 1 .. Len(v) PROVE v[i].body = Shown(s, new, (c + d) + i)
  <2>1. i \in 1 .. Q + l - d /\ v[i].body = Shown(q, more, d + i) /\ d + i \in Nat
      BY <1>3
  <2>2. CASE d + i <= Q
    <3>1. v[i].body = q[d + i].body
        BY <1>1, <2>1, <2>2 DEF Shown
    <3>2. d + i \in 1 .. Q
        BY <2>1, <2>2
    <3>3. q[d + i].body = Shown(s, new, c + (d + i)) /\ c + (d + i) = (c + d) + i
        BY <1>2, <3>2
    <3> QED BY <3>1, <3>3
  <2>3. CASE d + i > Q
    <3>1. PICK j \in 1 .. l : j = d + i - Q
        BY <2>1, <2>3
    <3>2. v[i].body = more[j]
        BY <1>1, <2>1, <2>3, <3>1 DEF Shown
    <3>3. (c + d) + i > N /\ (c + d) + i - N = m + j
        BY <1>2, <2>1, <2>3, <3>1
    <3>4. Shown(s, new, (c + d) + i) = new[m + j]
      <4>1. PICK x \in Nat : x = (c + d) + i
          BY <1>2, <1>3
      <4>2. ~(x <= Len(s)) /\ x - Len(s) = m + j
          BY <1>1, <3>3, <4>1
      <4>3. Shown(s, new, x) = new[x - Len(s)]
          BY <4>2 DEF Shown
      <4> QED BY <4>1, <4>2, <4>3
    <3> QED BY <3>2, <3>4
  <2> QED BY <2>1, <2>2, <2>3
<1>6. Held(r) => c + d = 0 /\ \A i \in 1 .. N : v[i] = s[i]
  <2> SUFFICES ASSUME Held(r) PROVE c + d = 0 /\ \A i \in 1 .. N : v[i] = s[i]
      OBVIOUS
  <2>1. c = 0 /\ d = 0 /\ Q >= N
      BY <1>2, <1>3
  <2> QED BY <1>2, <1>3, <2>1
<1>7. \E x \in 0 .. N + (m + l) :
        /\ Len(v) = N + (m + l) - x
        /\ \A i \in 1 .. Len(v) : v[i].body = Shown(s, new, x + i)
        /\ Held(r) => x = 0 /\ \A i \in 1 .. N : v[i] = s[i]
    BY <1>4, <1>5, <1>6
<1> QED BY <1>1, <1>7 DEF Grown

\* Under the same settings a tenant is held, or is not.
LEMMA HeldAlike ==
    ASSUME NEW r, NEW ra, SameSettings(r, ra)
    PROVE  Held(r) <=> Held(ra)
BY DEF Held, SameSettings

\* One entry is a growth by one.
LEMMA GrownByOne ==
    ASSUME NEW r, NEW s, IsSequence(s), NEW b, NEW v, Len(v) = Len(s) + 1,
           \A i \in 1 .. Len(s) : v[i] = s[i], v[Len(s) + 1].body = b
    PROVE  Grown(r, s, 1, <<b>>, v)
<1>1. PICK N \in Nat : N = Len(s)
    BY SequenceLength
<1>2. ASSUME NEW i \in 1 .. Len(v) PROVE v[i].body = Shown(s, <<b>>, 0 + i)
  <2>1. CASE i <= N
    <3>1. v[i] = s[i] /\ 0 + i = i
        BY <1>1, <2>1
    <3> QED BY <1>1, <2>1, <3>1 DEF Shown
  <2>2. CASE i > N
    <3>1. i = N + 1 /\ i - N = 1 /\ 0 + i = i
        BY <1>1, <2>2
    <3>2. <<b>>[i - N] = b
        BY <3>1
    <3>3. Shown(s, <<b>>, 0 + i) = b
        BY <1>1, <2>2, <3>1, <3>2 DEF Shown
    <3> QED BY <1>1, <3>1, <3>3
  <2> QED BY <1>1, <2>1, <2>2
<1>3. 0 \in 0 .. Len(s) + 1 /\ Len(v) = Len(s) + 1 - 0
    BY <1>1
<1> QED BY <1>2, <1>3 DEF Grown

\* One more element than a bounded set has.
LEMMA OneMoreElement ==
    ASSUME NEW S, IsFiniteSet(S), NEW bound \in Nat, Cardinality(S) < bound, NEW x,
           NEW T, T \subseteq S \cup {x}
    PROVE  IsFiniteSet(T) /\ Cardinality(T) <= bound
<1>1. Cardinality(S) \in Nat
    BY FS_CardinalityType
<1>2. IsFiniteSet(S \cup {x}) /\ Cardinality(S \cup {x}) <= Cardinality(S) + 1
  <2>1. CASE x \in S
    <3>1. S \cup {x} = S
        BY <2>1
    <3> QED BY <1>1, <3>1
  <2>2. CASE x \notin S
    <3>1. IsFiniteSet(S \cup {x}) /\ Cardinality(S \cup {x}) = Cardinality(S) + 1
        BY <2>2, FS_AddElement
    <3> QED BY <1>1, <3>1
  <2> QED BY <2>1, <2>2
<1>3. IsFiniteSet(T) /\ Cardinality(T) <= Cardinality(S \cup {x})
    BY <1>2, FS_Subset
<1>4. Cardinality(T) \in Nat /\ Cardinality(S \cup {x}) \in Nat
    BY <1>2, <1>3, FS_CardinalityType
<1> QED BY <1>1, <1>2, <1>3, <1>4

\* The places of all entries, and what the file has room for.
Pairs(c) == UNION {{u} \X DOMAIN c[u] : u \in LedgerTenant}
ChainFits(c) == IsFiniteSet(Pairs(c)) /\ Cardinality(Pairs(c)) <= MaxLedgerEntries

\* A place of an entry.
LEMMA PairsOf ==
    ASSUME NEW c, NEW x
    PROVE  x \in Pairs(c) <=> \E u \in LedgerTenant : \E i \in DOMAIN c[u] : x = <<u, i>>
<1>1. ASSUME NEW u PROVE x \in {u} \X DOMAIN c[u] <=> \E i \in DOMAIN c[u] : x = <<u, i>>
    OBVIOUS
<1>2. x \in Pairs(c) <=> \E u \in LedgerTenant : x \in {u} \X DOMAIN c[u]
    BY SMT DEF Pairs
<1> QED BY <1>1, <1>2

\* Without an entry more there is no place more.
LEMMA FewerPairs ==
    ASSUME NEW c, NEW r, NEW d, NEW q, NEW at, NEW later, NEW t, NEW new,
           GoodChains(c, r, at), GoodChains(d, q, later), Becomes(c, r, d, q, t, 0, new),
           IsFiniteSet(Pairs(c))
    PROVE  IsFiniteSet(Pairs(d))
<1>1. ASSUME NEW u \in LedgerTenant PROVE DOMAIN d[u] \subseteq DOMAIN c[u]
  <2>1. PICK s, v : s = c[u] /\ v = d[u]
      OBVIOUS
  <2>2. IsSequence(s) /\ IsSequence(v)
      BY <2>1 DEF GoodChains, GoodTenant
  <2>3. PICK n \in Nat : n = Len(s) /\ DOMAIN s = 1 .. n
      BY <2>2, SequenceLength
  <2>4. PICK l \in Nat : l = Len(v) /\ DOMAIN v = 1 .. l
      BY <2>2, SequenceLength
  <2>5. Grown(r[u], s, 0, new, v)
      BY <2>1 DEF Becomes
  <2>6. l <= n
      BY <2>3, <2>4, <2>5 DEF Grown
  <2> QED BY <2>1, <2>3, <2>4, <2>6
<1>2. ASSUME NEW x \in Pairs(d) PROVE x \in Pairs(c)
  <2>1. PICK u \in LedgerTenant : \E i \in DOMAIN d[u] : x = <<u, i>>
      BY <1>2, PairsOf
  <2> QED BY <1>1, <2>1, PairsOf
<1> QED BY <1>2, FS_Subset

\* A chain with one more entry has one place more.
LEMMA OnePairMore ==
    ASSUME NEW d, NEW t \in LedgerTenant, IsSequence(d[t]), NEW e, NEW c2,
           c2[t] = Append(d[t], e), \A u \in LedgerTenant : u # t => c2[u] = d[u],
           IsFiniteSet(Pairs(d)), ~(Total(d) >= MaxLedgerEntries)
    PROVE  ChainFits(c2)
<1>1. PICK s : s = d[t]
    OBVIOUS
<1>2. PICK n \in Nat : n = Len(s) /\ DOMAIN s = 1 .. n
    BY <1>1, SequenceLength
<1>3. DOMAIN Append(s, e) = 1 .. n + 1
    BY <1>1, <1>2 DEF IsSequence
<1>4. ASSUME NEW x \in Pairs(c2) PROVE x \in Pairs(d) \cup {<<t, n + 1>>}
  <2>1. PICK u \in LedgerTenant : \E i \in DOMAIN c2[u] : x = <<u, i>>
      BY <1>4, PairsOf
  <2>2. PICK i \in DOMAIN c2[u] : x = <<u, i>>
      BY <2>1
  <2>3. CASE u = t /\ i = n + 1
      BY <2>2, <2>3
  <2>4. CASE ~(u = t /\ i = n + 1)
    <3>1. i \in DOMAIN d[u]
        BY <1>1, <1>2, <1>3, <2>2, <2>4
    <3> QED BY <2>2, <3>1, PairsOf
  <2> QED BY <2>3, <2>4
<1>5. Total(d) = Cardinality(Pairs(d))
    BY Zenon DEF Total, Pairs
<1>6. Cardinality(Pairs(d)) \in Nat /\ MaxLedgerEntries \in Nat
    BY FS_CardinalityType, LedgerAssumption
<1>7. Cardinality(Pairs(d)) < MaxLedgerEntries
    BY <1>5, <1>6
<1> QED BY <1>4, <1>6, <1>7, OneMoreElement DEF ChainFits

\* The mutation st has appended the first m new bodies to the chain of t, or has failed;
\* what it has made of chains that fit into the file fits.
AppendOf(c, r, k, t, m, new, at, later, st) ==
    \E c2, rb : \E k2 \in BOOLEAN :
        /\ st = Mutation(c2, rb, k2)
        /\ k2 => k
        /\ k2 /\ GoodChains(c, r, at) =>
            GoodChains(c2, rb, later) /\ Becomes(c, r, c2, rb, t, m, new)
        /\ k2 /\ GoodChains(c, r, at) /\ ChainFits(c) => ChainFits(c2)

\* appendEntry() keeps the chains good: its tenant's grows by the entry.
LEMMA AppendedEntry ==
    ASSUME NEW c, NEW r, NEW k \in BOOLEAN, NEW t \in LedgerTenant, NEW b,
           NEW at \in Nat, NEW later \in Nat, at <= later, b.timestamp = later
    PROVE  AppendOf(c, r, k, t, 1, <<b>>, at, later, appendEntry(Mutation(c, r, k), t, b))
<1>1. PICK before : before = Mutation(c, r, k)
    OBVIOUS
<1>2. PICK st : st = WithTenant(before, t)
    OBVIOUS
<1>3. CreationOf(c, r, k, t, st)
    BY <1>1, <1>2, TenantCreated
<1>4. PICK ra : \E k1 \in BOOLEAN :
                /\ st = Mutation(c, ra, k1)
                /\ k1 => k
                /\ \A a : GoodChains(c, r, a) =>
                    /\ GoodChains(c, ra, a) /\ ra[t].tracked = TRUE
                    /\ \A u \in LedgerTenant : SameSettings(r[u], ra[u])
    BY <1>3, Zenon DEF CreationOf
<1>k. PICK k1 \in BOOLEAN :
                /\ st = Mutation(c, ra, k1)
                /\ k1 => k
                /\ \A a : GoodChains(c, r, a) =>
                    /\ GoodChains(c, ra, a) /\ ra[t].tracked = TRUE
                    /\ \A u \in LedgerTenant : SameSettings(r[u], ra[u])
    BY <1>4
<1>5. st.chain = c /\ st.tenant = ra /\ st.ok = k1
    BY <1>k, MutationFields
<1>6. PICK room : room = IF Total(st.chain) >= MaxLedgerEntries
                         THEN rotateForRetention(st, b.timestamp) ELSE st
    OBVIOUS
<1>7. PICK tenant : tenant = room.tenant[t]
    OBVIOUS
<1>8. PICK e : e = EntryFor(t, tenant, b)
    OBVIOUS
<1>9. appendEntry(before, t, b) =
        IF ~st.ok \/ Total(room.chain) >= MaxLedgerEntries
        THEN Mutation(st.chain, st.tenant, FALSE)
        ELSE Mutation([room.chain EXCEPT ![t] = Append(room.chain[t], e)],
                      [room.tenant EXCEPT ![t] =
                            [tenant EXCEPT !.entryCount = e.sequence, !.headHash = e.entryHash]],
                      TRUE)
    BY <1>2, <1>6, <1>7, <1>8, Zenon DEF appendEntry, EntryFor
<1>10. CASE ~st.ok \/ Total(room.chain) >= MaxLedgerEntries
  <2>1. appendEntry(before, t, b) = Mutation(st.chain, st.tenant, FALSE)
      BY <1>9, <1>10
  <2> QED BY <1>1, <2>1 DEF AppendOf
<1>11. CASE ~(~st.ok \/ Total(room.chain) >= MaxLedgerEntries)
  <2>1. PICK p : p = Recounted(tenant, e.sequence, e.entryHash)
      OBVIOUS
  <2>2. PICK v : v = Append(room.chain[t], e)
      OBVIOUS
  <2>3. PICK c2, rb : c2 = [room.chain EXCEPT ![t] = v] /\ rb = [room.tenant EXCEPT ![t] = p]
      OBVIOUS
  <2>4. appendEntry(before, t, b) = Mutation(c2, rb, TRUE)
      BY <1>9, <1>11, <2>1, <2>2, <2>3, Zenon DEF Recounted
  <2>5. k1 = TRUE /\ k = TRUE
      BY <1>k, <1>5, <1>11
  <2>6. ASSUME GoodChains(c, r, at)
        PROVE  /\ GoodChains(c2, rb, later) /\ Becomes(c, r, c2, rb, t, 1, <<b>>)
               /\ ChainFits(c) => ChainFits(c2)
    <3>1. /\ GoodChains(c, ra, at) /\ ra[t].tracked = TRUE
          /\ \A u \in LedgerTenant : SameSettings(r[u], ra[u])
        BY <1>k, <2>6
    <3>2. PICK d, q : /\ room = Mutation(d, q, k1)
                      /\ GoodChains(d, q, later) /\ Becomes(c, ra, d, q, t, 0, <<b>>)
                      /\ \A u \in LedgerTenant : q[u].tracked = ra[u].tracked
      <4>1. CASE room = rotateForRetention(st, later)
        <5>1. PICK new : new = <<b>>
            OBVIOUS
        <5>2. RotationOf(c, ra, k1, t, later, new, rotateForRetention(Mutation(c, ra, k1), later))
            BY <3>1, RotatedChains
        <5>3. RotationOf(c, ra, k1, t, later, <<b>>, room)
            BY <1>k, <4>1, <5>1, <5>2
        <5> QED BY <5>3, Zenon DEF RotationOf
      <4>2. CASE room = st
        <5>1. GoodChains(c, ra, later)
            BY <3>1, StillGood DEF GoodChains
        <5>2. ASSUME NEW u \in LedgerTenant
              PROVE  SameSettings(ra[u], ra[u]) /\ Grown(ra[u], c[u], 0, <<b>>, c[u])
          <6>1. IsSequence(c[u])
              BY <3>1 DEF GoodChains, GoodTenant
          <6> QED BY <6>1, GrownByNothing DEF SameSettings
        <5>3. Becomes(c, ra, c, ra, t, 0, <<b>>)
            BY <5>2, Zenon DEF Becomes
        <5> QED BY <1>k, <4>2, <5>1, <5>3
      <4> QED BY <1>6, <4>1, <4>2
    <3>3. room.chain = d /\ room.tenant = q
        BY <3>2, MutationFields
    <3>4. /\ c2 = [u \in LedgerTenant |-> c2[u]] /\ c2[t] = v
          /\ \A u \in LedgerTenant : u # t => c2[u] = d[u]
      <4>1. d = [u \in LedgerTenant |-> d[u]] /\ c2 = [d EXCEPT ![t] = v]
          BY <2>3, <3>2, <3>3 DEF GoodChains
      <4> QED BY <4>1, OneTenantWritten
    <3>5. /\ rb = [u \in LedgerTenant |-> rb[u]] /\ rb[t] = p
          /\ \A u \in LedgerTenant : u # t => rb[u] = q[u]
      <4>1. q = [u \in LedgerTenant |-> q[u]] /\ rb = [q EXCEPT ![t] = p]
          BY <2>3, <3>2, <3>3 DEF GoodChains
      <4> QED BY <4>1, OneTenantWritten
    <3>6. PICK s : /\ s = d[t] /\ v = LongerChain(t, tenant, s, b) /\ p = LongerTenant(t, tenant, b)
                     /\ tenant = q[t]
        BY <1>7, <1>8, <2>1, <2>2, <3>3, Zenon DEF LongerChain, LongerTenant
    <3>7. GoodTenant(t, tenant, s, later) /\ tenant.tracked = TRUE
        BY <3>1, <3>2, <3>6 DEF GoodChains
    <3>8. /\ GoodTenant(t, p, v, later) /\ SameSettings(tenant, p) /\ Len(v) = Len(s) + 1
          /\ \A i \in 1 .. Len(s) : v[i] = s[i]
          /\ v[Len(s) + 1].body = b
      <4>1. /\ GoodTenant(t, tenant, s, later) /\ Tracked(tenant) /\ b.timestamp = later
            /\ v = LongerChain(t, tenant, s, b) /\ p = LongerTenant(t, tenant, b)
          BY <3>6, <3>7 DEF Tracked
      <4>2. GoodTenant(t, p, v, later) /\ SameSettings(tenant, p)
          BY <4>1, EntryAppended
      <4>3. Len(v) = Len(s) + 1 /\ v[Len(s) + 1].body = b
          BY <4>1, EntryAppended
      <4>4. \A i \in 1 .. Len(s) : v[i] = s[i]
          BY <4>1, EntryAppended
      <4> QED BY <4>2, <4>3, <4>4
    <3>9. GoodChains(c2, rb, later)
      <4>1. ASSUME NEW u \in LedgerTenant PROVE GoodTenant(u, rb[u], c2[u], later)
        <5>1. CASE u = t
            BY <3>4, <3>5, <3>8, <5>1
        <5>2. CASE u # t
            BY <3>2, <3>4, <3>5, <5>2 DEF GoodChains
        <5> QED BY <5>1, <5>2
      <4> QED BY <3>4, <3>5, <4>1 DEF GoodChains
    <3>10. ASSUME NEW u \in LedgerTenant
           PROVE  /\ SameSettings(r[u], rb[u])
                  /\ Grown(r[u], c[u], IF u = t THEN 1 ELSE 0, <<b>>, c2[u])
      <4>1. /\ SameSettings(r[u], ra[u]) /\ SameSettings(ra[u], q[u])
            /\ Grown(ra[u], c[u], 0, <<b>>, d[u])
        <5>1. SameSettings(ra[u], q[u]) /\ Grown(ra[u], c[u], IF u = t THEN 0 ELSE 0, <<b>>, d[u])
            BY <3>2 DEF Becomes
        <5> QED BY <3>1, <5>1
      <4>2. SameSettings(q[u], rb[u])
        <5>1. CASE u = t
            BY <3>5, <3>6, <3>8, <5>1
        <5>2. CASE u # t
            BY <3>5, <5>2 DEF SameSettings
        <5> QED BY <5>1, <5>2
      <4>3. SameSettings(r[u], rb[u]) /\ SameSettings(r[u], q[u])
          BY <4>1, <4>2 DEF SameSettings
      <4>4. (Held(r[u]) <=> Held(ra[u])) /\ (Held(r[u]) <=> Held(q[u]))
          BY <4>1, <4>3, HeldAlike
      <4>5. Grown(r[u], c[u], 0, <<b>>, d[u])
          BY <4>1, <4>4 DEF Grown
      <4>6. IsSequence(c[u]) /\ IsSequence(d[u])
          BY <3>1, <3>2 DEF GoodChains, GoodTenant
      <4>7. CASE u = t
        <5>1. Grown(q[u], d[u], 1, <<b>>, c2[u])
            BY <3>4, <3>6, <3>8, <4>6, <4>7, GrownByOne
        <5>2. PICK new : new = <<b>>
            OBVIOUS
        <5>3. \A i \in 1 .. 1 : new[0 + i] = new[i]
            OBVIOUS
        <5>4. Grown(r[u], c[u], 0 + 1, new, c2[u])
          <6>1. Grown(r[u], c[u], 0, new, d[u]) /\ Grown(q[u], d[u], 1, new, c2[u])
              BY <4>5, <5>1, <5>2
          <6> QED BY <4>4, <4>6, <5>3, <6>1, GrownTwice
        <5> QED BY <4>3, <4>7, <5>2, <5>4
      <4>8. CASE u # t
        <5>1. c2[u] = d[u]
            BY <3>4, <4>8
        <5> QED BY <4>3, <4>5, <4>8, <5>1
      <4> QED BY <4>7, <4>8
    <3>11. ASSUME ChainFits(c) PROVE ChainFits(c2)
      <4>1. IsFiniteSet(Pairs(d))
        <5>1. PICK new : new = <<b>>
            OBVIOUS
        <5>2. Becomes(c, ra, d, q, t, 0, new) /\ IsFiniteSet(Pairs(c))
            BY <3>2, <3>11, <5>1 DEF ChainFits
        <5> QED BY <3>1, <3>2, <5>2, FewerPairs
      <4>2. IsSequence(d[t]) /\ c2[t] = Append(d[t], e)
          BY <2>2, <3>2, <3>3, <3>4 DEF GoodChains, GoodTenant
      <4>3. ~(Total(d) >= MaxLedgerEntries)
          BY <1>11, <3>3
      <4> QED BY <3>4, <4>1, <4>2, <4>3, OnePairMore
    <3> QED BY <3>9, <3>10, <3>11, Zenon DEF Becomes
  <2> QED BY <1>1, <2>4, <2>5, <2>6 DEF AppendOf
<1> QED BY <1>10, <1>11

\* One more entry after others.
LEMMA AppendedAgain ==
    ASSUME NEW c, NEW r, NEW k, NEW t \in LedgerTenant, NEW m \in Nat, NEW new,
           NEW at \in Nat, NEW x \in Nat, NEW y \in Nat, x <= y, NEW b, b = new[m + 1],
           b.timestamp = y, NEW st, AppendOf(c, r, k, t, m, new, at, x, st)
    PROVE  AppendOf(c, r, k, t, m + 1, new, at, y, appendEntry(st, t, b))
<1>1. PICK c1, ra : \E k1 \in BOOLEAN :
        /\ st = Mutation(c1, ra, k1) /\ (k1 => k)
        /\ k1 /\ GoodChains(c, r, at) =>
            GoodChains(c1, ra, x) /\ Becomes(c, r, c1, ra, t, m, new)
        /\ k1 /\ GoodChains(c, r, at) /\ ChainFits(c) => ChainFits(c1)
    BY Zenon DEF AppendOf
<1>2. PICK k1 \in BOOLEAN :
        /\ st = Mutation(c1, ra, k1) /\ (k1 => k)
        /\ k1 /\ GoodChains(c, r, at) =>
            GoodChains(c1, ra, x) /\ Becomes(c, r, c1, ra, t, m, new)
        /\ k1 /\ GoodChains(c, r, at) /\ ChainFits(c) => ChainFits(c1)
    BY <1>1
<1>3. PICK more, v : more = <<b>> /\ v = appendEntry(st, t, b)
    OBVIOUS
<1>4. AppendOf(c1, ra, k1, t, 1, more, x, y, v)
  <2>1. AppendOf(c1, ra, k1, t, 1, <<b>>, x, y, appendEntry(Mutation(c1, ra, k1), t, b))
      BY AppendedEntry
  <2> QED BY <1>2, <1>3, <2>1, Zenon
<1>5. PICK c2, rb : \E k2 \in BOOLEAN :
        /\ v = Mutation(c2, rb, k2) /\ (k2 => k1)
        /\ k2 /\ GoodChains(c1, ra, x) =>
            GoodChains(c2, rb, y) /\ Becomes(c1, ra, c2, rb, t, 1, more)
        /\ k2 /\ GoodChains(c1, ra, x) /\ ChainFits(c1) => ChainFits(c2)
    BY <1>4, Zenon DEF AppendOf
<1>6. PICK k2 \in BOOLEAN :
        /\ v = Mutation(c2, rb, k2) /\ (k2 => k1)
        /\ k2 /\ GoodChains(c1, ra, x) =>
            GoodChains(c2, rb, y) /\ Becomes(c1, ra, c2, rb, t, 1, more)
        /\ k2 /\ GoodChains(c1, ra, x) /\ ChainFits(c1) => ChainFits(c2)
    BY <1>5
<1>7. ASSUME k2, GoodChains(c, r, at)
      PROVE  GoodChains(c2, rb, y) /\ Becomes(c, r, c2, rb, t, m + 1, new)
  <2>1. GoodChains(c1, ra, x) /\ Becomes(c, r, c1, ra, t, m, new)
      BY <1>2, <1>6, <1>7
  <2>2. GoodChains(c2, rb, y) /\ Becomes(c1, ra, c2, rb, t, 1, more)
      BY <1>6, <1>7, <2>1
  <2>3. ASSUME NEW u \in LedgerTenant
        PROVE  /\ SameSettings(r[u], rb[u])
               /\ Grown(r[u], c[u], IF u = t THEN m + 1 ELSE 0, new, c2[u])
    <3>1. /\ SameSettings(r[u], ra[u]) /\ Grown(r[u], c[u], IF u = t THEN m ELSE 0, new, c1[u])
          /\ SameSettings(ra[u], rb[u]) /\ Grown(ra[u], c1[u], IF u = t THEN 1 ELSE 0, more, c2[u])
        BY <2>1, <2>2 DEF Becomes
    <3>2. SameSettings(r[u], rb[u])
        BY <3>1 DEF SameSettings
    <3>3. Held(r[u]) <=> Held(ra[u])
        BY <3>1, HeldAlike
    <3>4. IsSequence(c[u]) /\ IsSequence(c1[u])
        BY <1>7, <2>1 DEF GoodChains, GoodTenant
    <3>5. CASE u = t
      <4>1. Grown(r[u], c[u], m, new, c1[u]) /\ Grown(ra[u], c1[u], 1, more, c2[u])
          BY <3>1, <3>5
      <4>2. \A i \in 1 .. 1 : new[m + i] = more[i]
          BY <1>3
      <4>3. Grown(r[u], c[u], m + 1, new, c2[u])
          BY <3>3, <3>4, <4>1, <4>2, GrownTwice
      <4> QED BY <3>2, <3>5, <4>3
    <3>6. CASE u # t
      <4>1. Grown(r[u], c[u], 0, new, c1[u]) /\ Grown(ra[u], c1[u], 0, more, c2[u])
          BY <3>1, <3>6
      <4>2. \A i \in 1 .. 0 : new[0 + i] = more[i]
          OBVIOUS
      <4>3. Grown(r[u], c[u], 0 + 0, new, c2[u])
          BY <3>3, <3>4, <4>1, <4>2, GrownTwice
      <4> QED BY <3>2, <3>6, <4>3
    <3> QED BY <3>5, <3>6
  <2> QED BY <2>2, <2>3, Zenon DEF Becomes
<1>8. /\ v = Mutation(c2, rb, k2) /\ (k2 => k)
      /\ k2 /\ GoodChains(c, r, at) =>
            GoodChains(c2, rb, y) /\ Becomes(c, r, c2, rb, t, m + 1, new)
      /\ k2 /\ GoodChains(c, r, at) /\ ChainFits(c) => ChainFits(c2)
    BY <1>2, <1>6, <1>7
<1> QED BY <1>3, <1>8, Zenon DEF AppendOf

\* The appendEntry() calls of a mutation, as a function of how many of them there were.
AfterEach(st, t, new, N, f) ==
    f = [n \in 0 .. N |-> IF n = 0 THEN st ELSE appendEntry(f[n - 1], t, new[n])]

\* There is such a function.
LEMMA AfterEachExists ==
    ASSUME NEW st, NEW t, NEW new, NEW N \in Nat
    PROVE  \E f : AfterEach(st, t, new, N, f)
<1> DEFINE Step(f, n) == IF n = 0 THEN st ELSE appendEntry(f[n - 1], t, new[n])
           Good(m, f) == f = [n \in 0 .. m |-> f[n]] /\ \A n \in 0 .. m : f[n] = Step(f, n)
           Ns == {m \in 0 .. N : \E f : Good(m, f)}
<1>1. 0 \in Ns
  <2>1. PICK f : f = [n \in 0 .. 0 |-> st]
      OBVIOUS
  <2>2. f = [n \in 0 .. 0 |-> f[n]] /\ \A n \in 0 .. 0 : n = 0 /\ f[n] = st
      BY <2>1
  <2>3. Good(0, f)
      BY <2>2, Zenon
  <2> HIDE DEF Good
  <2> QED BY <2>3
<1>2. ASSUME NEW m \in 0 .. N - 1, m \in Ns PROVE m + 1 \in Ns
  <2>1. PICK f : Good(m, f)
    <3> HIDE DEF Good
    <3> QED BY <1>2
  <2>2. PICK x : x = Step(f, m + 1)
      OBVIOUS
  <2>3. PICK g : g = [n \in 0 .. m + 1 |-> IF n = m + 1 THEN x ELSE f[n]]
      OBVIOUS
  <2>4. g = [n \in 0 .. m + 1 |-> g[n]] /\ g[m + 1] = x /\ \A n \in 0 .. m : g[n] = f[n]
    <3> HIDE DEF Step, Good, Ns
    <3> QED BY <1>2, <2>3
  <2>5. ASSUME NEW n \in 0 .. m + 1 PROVE Step(g, n) = Step(f, n)
    <3>1. n = 0 \/ n - 1 \in 0 .. m
        BY <1>2
    <3>2. n = 0 \/ g[n - 1] = f[n - 1]
        BY <2>4, <3>1
    <3> QED BY <3>2
  <2>6. \A n \in 0 .. m + 1 : g[n] = Step(g, n)
    <3>1. \A n \in 0 .. m : f[n] = Step(f, n)
        BY <2>1
    <3> HIDE DEF Step, Good
    <3>2. ASSUME NEW n \in 0 .. m + 1 PROVE g[n] = Step(f, n)
      <4>1. CASE n = m + 1
          BY <2>2, <2>4, <4>1
      <4>2. CASE n # m + 1
        <5>1. n \in 0 .. m
            BY <1>2, <4>2
        <5> QED BY <2>4, <3>1, <5>1
      <4> QED BY <4>1, <4>2
    <3> QED BY <2>5, <3>2
  <2>7. Good(m + 1, g)
    <3> HIDE DEF Step
    <3> QED BY <2>4, <2>6
  <2>8. m + 1 \in 0 .. N
      BY <1>2
  <2> HIDE DEF Good
  <2> QED BY <2>7, <2>8
<1>3. PICK f : Good(N, f)
  <2>1. 0 .. N \subseteq Ns
    <3> HIDE DEF Ns
    <3> QED BY <1>1, <1>2, NumbersUpTo
  <2> HIDE DEF Good
  <2>2. N \in Ns
      BY <2>1
  <2> QED BY <2>2
<1>4. f = [n \in 0 .. N |-> Step(f, n)]
  <2> HIDE DEF Step
  <2> QED BY <1>3
<1> QED BY <1>4 DEF AfterEach

\* What is good at an instant is good later.
LEMMA AppendedLater ==
    ASSUME NEW c, NEW r, NEW k, NEW t, NEW m, NEW new, NEW at, NEW x \in Nat, NEW later \in Nat,
           x <= later, NEW st, AppendOf(c, r, k, t, m, new, at, x, st)
    PROVE  AppendOf(c, r, k, t, m, new, at, later, st)
<1>1. ASSUME NEW c2, NEW rb, GoodChains(c2, rb, x) PROVE GoodChains(c2, rb, later)
    BY <1>1, StillGood DEF GoodChains
<1> QED BY <1>1, Zenon DEF AppendOf

\* Before the first entry.
LEMMA AppendedNothing ==
    ASSUME NEW c, NEW r, NEW k \in BOOLEAN, NEW t, NEW new, NEW at
    PROVE  AppendOf(c, r, k, t, 0, new, at, at, Mutation(c, r, k))
<1>1. ASSUME GoodChains(c, r, at) PROVE Becomes(c, r, c, r, t, 0, new)
  <2>1. ASSUME NEW u \in LedgerTenant
        PROVE  SameSettings(r[u], r[u]) /\ Grown(r[u], c[u], IF u = t THEN 0 ELSE 0, new, c[u])
    <3>1. IsSequence(c[u])
        BY <1>1 DEF GoodChains, GoodTenant
    <3> QED BY <3>1, GrownByNothing DEF SameSettings
  <2> QED BY <2>1, Zenon DEF Becomes
<1> QED BY <1>1, Zenon DEF AppendOf

\* appendAll() keeps the chains good: its tenant's grows by the entries, in their order.
LEMMA AppendedAll ==
    ASSUME NEW c, NEW r, NEW k \in BOOLEAN, NEW t \in LedgerTenant, NEW new, IsSequence(new),
           NEW at \in Nat, NEW later \in Nat,
           \A i \in 1 .. Len(new) :
                new[i].timestamp \in Nat /\ at <= new[i].timestamp /\ new[i].timestamp <= later,
           \A i, j \in 1 .. Len(new) : i <= j => new[i].timestamp <= new[j].timestamp,
           at <= later
    PROVE  AppendOf(c, r, k, t, Len(new), new, at, later, appendAll(Mutation(c, r, k), t, new))
<1>1. PICK N \in Nat : N = Len(new)
    BY SequenceLength
<1>2. PICK st : st = Mutation(c, r, k)
    OBVIOUS
<1>3. PICK f : f = CHOOSE g : AfterEach(st, t, new, N, g)
    OBVIOUS
<1>4. AfterEach(st, t, new, N, f)
  <2>1. \E g : AfterEach(st, t, new, N, g)
      BY AfterEachExists
  <2> QED BY <1>3, <2>1, Zenon
<1>5. appendAll(st, t, new) = f[N]
    BY <1>1, <1>3, Zenon DEF appendAll, AfterEach
<1>6. f[0] = st /\ \A n \in 1 .. N : f[n] = appendEntry(f[n - 1], t, new[n])
    BY <1>4 DEF AfterEach
<1> DEFINE T(n) == IF n = 0 THEN at ELSE new[n].timestamp
           Ns == {n \in 0 .. N : AppendOf(c, r, k, t, n, new, at, T(n), f[n])}
<1>7. 0 \in Ns
  <2>1. AppendOf(c, r, k, t, 0, new, at, at, st)
      BY <1>2, AppendedNothing
  <2>2. T(0) = at /\ f[0] = st
      BY <1>6
  <2> HIDE DEF T
  <2> QED BY <2>1, <2>2
<1>8. ASSUME NEW n \in 0 .. N - 1, n \in Ns PROVE n + 1 \in Ns
  <2>1. PICK x : x = T(n)
      OBVIOUS
  <2>2. PICK b : b = new[n + 1]
      OBVIOUS
  <2>3. n \in Nat /\ n + 1 \in 1 .. N /\ n + 1 \in 0 .. N /\ (n + 1) - 1 = n /\ n + 1 # 0
      BY <1>8
  <2>4. PICK y \in Nat : y = b.timestamp
      BY <1>1, <2>2, <2>3
  <2>5. x \in Nat /\ x <= y
    <3>1. CASE n = 0
        BY <1>1, <2>1, <2>2, <2>3, <2>4, <3>1
    <3>2. CASE n # 0
      <4>1. n \in 1 .. N /\ n <= n + 1
          BY <1>8, <3>2
      <4>2. x = new[n].timestamp
          BY <2>1, <3>2
      <4> QED BY <1>1, <2>2, <2>3, <2>4, <4>1, <4>2
    <3> QED BY <3>1, <3>2
  <2>6. AppendOf(c, r, k, t, n, new, at, x, f[n])
      BY <1>8, <2>1
  <2>7. AppendOf(c, r, k, t, n + 1, new, at, y, appendEntry(f[n], t, b))
      BY <2>2, <2>3, <2>4, <2>5, <2>6, AppendedAgain
  <2>8. f[n + 1] = appendEntry(f[n], t, b)
      BY <1>6, <2>2, <2>3
  <2>9. T(n + 1) = y
      BY <2>2, <2>3, <2>4
  <2> HIDE DEF T
  <2> QED BY <2>3, <2>7, <2>8, <2>9
<1>9. PICK x : x = T(N)
    OBVIOUS
<1>10. AppendOf(c, r, k, t, N, new, at, x, f[N])
  <2>1. 0 .. N \subseteq Ns
    <3> HIDE DEF Ns
    <3> QED BY <1>7, <1>8, NumbersUpTo
  <2>2. N \in Ns
      BY <2>1
  <2> HIDE DEF T
  <2> QED BY <1>9, <2>2
<1>11. x \in Nat /\ x <= later
    BY <1>1, <1>9
<1>12. AppendOf(c, r, k, t, N, new, at, later, f[N])
    BY <1>10, <1>11, AppendedLater
<1> QED BY <1>1, <1>2, <1>5, <1>12

-----------------------------------------------------------------------------
(***************************************************************************)
(* Timelines.  The intent of an action comes first and a rotation drops    *)
(* from the front, so what still has its intent is whole.                  *)
(***************************************************************************)

\* The entries of id, from place i on, are what the history h was recorded as.
Block(b, N, id, h, i) ==
    /\ h \in ReceiptHistory /\ i + Len(Stages(h)) <= N + 1
    /\ \A j \in 1 .. N : b[j].actionId = id <=> i <= j /\ j < i + Len(Stages(h))
    /\ \A n \in 1 .. Len(Stages(h)) :
        b[i + n - 1].stage = Stages(h)[n][1] /\ b[i + n - 1].status = Stages(h)[n][2]

\* Among the first N bodies what has its intent is whole.
Whole(b, N, id, h) ==
    \A i \in 1 .. N : b[i].actionId = id /\ b[i].stage = "intent" => Block(b, N, id, h, i)

\* The number of stages.
LEMMA StageCount ==
    ASSUME NEW h \in ReceiptHistory
    PROVE  Len(Stages(h)) \in Nat \ {0} /\ Stages(h)[1][1] = "intent"
<1>1. h \in Seq(ReceiptStatus)
    BY HistoryType
<1>2. PICK L : L = Len(Evidences(h))
    OBVIOUS
<1>3. L \in Nat /\ Len(Stages(h)) = L + 6 /\ Stages(h)[1] = <<"intent", "no_status">>
    BY <1>1, <1>2, StagesOfHistory
<1> QED BY <1>3

\* What is whole is whole without its first entries.
LEMMA WholeWithoutFirst ==
    ASSUME NEW N \in Nat, NEW c \in 0 .. N, NEW b, NEW d, NEW id, NEW h, Whole(b, N, id, h),
           \A i \in 1 .. N - c : d[i] = b[c + i]
    PROVE  Whole(d, N - c, id, h)
<1> SUFFICES ASSUME NEW i \in 1 .. N - c, d[i].actionId = id, d[i].stage = "intent"
             PROVE  Block(d, N - c, id, h, i)
    BY DEF Whole
<1>1. c + i \in 1 .. N /\ b[c + i].actionId = id /\ b[c + i].stage = "intent"
    OBVIOUS
<1>2. Block(b, N, id, h, c + i)
    BY <1>1 DEF Whole
<1>3. h \in ReceiptHistory
    BY <1>2 DEF Block
<1>4. PICK S, L : S = Stages(h) /\ L = Len(S)
    OBVIOUS
<1>5. L \in Nat
    BY <1>3, <1>4, StageCount
<1>6. /\ c + i + L <= N + 1
      /\ \A j \in 1 .. N : b[j].actionId = id <=> c + i <= j /\ j < c + i + L
      /\ \A n \in 1 .. L : b[c + i + n - 1].stage = S[n][1] /\ b[c + i + n - 1].status = S[n][2]
    BY <1>2, <1>4 DEF Block
<1>7. i + L <= (N - c) + 1
    BY <1>5, <1>6
<1>8. ASSUME NEW j \in 1 .. N - c PROVE d[j].actionId = id <=> i <= j /\ j < i + L
  <2>1. c + j \in 1 .. N /\ d[j] = b[c + j]
      OBVIOUS
  <2>2. b[c + j].actionId = id <=> c + i <= c + j /\ c + j < c + i + L
      BY <1>6, <2>1
  <2>3. (c + i <= c + j <=> i <= j) /\ (c + j < c + i + L <=> j < i + L)
      BY <1>5
  <2> QED BY <2>1, <2>2, <2>3
<1>9. ASSUME NEW n \in 1 .. L PROVE d[i + n - 1].stage = S[n][1] /\ d[i + n - 1].status = S[n][2]
  <2>1. i + n - 1 \in 1 .. N - c /\ c + (i + n - 1) = c + i + n - 1
      BY <1>5, <1>7
  <2>2. d[i + n - 1] = b[c + i + n - 1]
      BY <2>1
  <2> QED BY <1>6, <2>2
<1> QED BY <1>3, <1>4, <1>7, <1>8, <1>9 DEF Block

\* What is whole stays so when others are recorded.
LEMMA WholeWithOthers ==
    ASSUME NEW N \in Nat, NEW M \in Nat, N <= M, NEW b, NEW d, NEW id, NEW h, Whole(b, N, id, h),
           \A i \in 1 .. N : d[i] = b[i], \A i \in N + 1 .. M : d[i].actionId # id
    PROVE  Whole(d, M, id, h)
<1> SUFFICES ASSUME NEW i \in 1 .. M, d[i].actionId = id, d[i].stage = "intent"
             PROVE  Block(d, M, id, h, i)
    BY DEF Whole
<1>1. i \in 1 .. N
    OBVIOUS
<1>2. Block(b, N, id, h, i)
    BY <1>1 DEF Whole
<1>3. h \in ReceiptHistory
    BY <1>2 DEF Block
<1>4. PICK S, L : S = Stages(h) /\ L = Len(S)
    OBVIOUS
<1>5. L \in Nat
    BY <1>3, <1>4, StageCount
<1>6. /\ i + L <= N + 1
      /\ \A j \in 1 .. N : b[j].actionId = id <=> i <= j /\ j < i + L
      /\ \A n \in 1 .. L : b[i + n - 1].stage = S[n][1] /\ b[i + n - 1].status = S[n][2]
    BY <1>2, <1>4 DEF Block
<1>7. ASSUME NEW j \in 1 .. M PROVE d[j].actionId = id <=> i <= j /\ j < i + L
  <2>1. CASE j \in 1 .. N
      BY <1>6, <2>1
  <2>2. CASE j \notin 1 .. N
    <3>1. j \in N + 1 .. M /\ ~(j < i + L)
        BY <1>5, <1>6, <2>2
    <3> QED BY <3>1
  <2> QED BY <2>1, <2>2
<1>8. ASSUME NEW n \in 1 .. L PROVE d[i + n - 1].stage = S[n][1] /\ d[i + n - 1].status = S[n][2]
  <2>1. i + n - 1 \in 1 .. N
      BY <1>5, <1>6
  <2>2. d[i + n - 1] = b[i + n - 1]
      BY <2>1
  <2> QED BY <1>6, <2>2
<1>9. i + L <= M + 1
    BY <1>5, <1>6
<1> QED BY <1>3, <1>4, <1>7, <1>8, <1>9 DEF Block

\* What is recorded is whole.
LEMMA WholeWhenRecorded ==
    ASSUME NEW N \in Nat, NEW d, NEW id, NEW h \in ReceiptHistory, NEW S, S = Stages(h),
           NEW L \in Nat, L = Len(S),
           \A i \in 1 .. N : d[i].actionId # id,
           \A n \in 1 .. L : /\ d[N + n].actionId = id /\ d[N + n].stage = S[n][1]
                             /\ d[N + n].status = S[n][2]
    PROVE  Whole(d, N + L, id, h)
<1> SUFFICES ASSUME NEW i \in 1 .. N + L, d[i].actionId = id, d[i].stage = "intent"
             PROVE  Block(d, N + L, id, h, i)
    BY DEF Whole
<1>1. PICK k \in 1 .. L : i = N + k
  <2>1. ~(i \in 1 .. N)
      OBVIOUS
  <2>2. i - N \in 1 .. L /\ i = N + (i - N)
      BY <2>1
  <2> QED BY <2>2
<1>2. k = 1
  <2>1. S[k][1] = "intent"
      BY <1>1
  <2>2. h \in Seq(ReceiptStatus)
      BY HistoryType
  <2> QED BY <2>1, <2>2, IntentIsFirst
<1>3. i = N + 1
    BY <1>1, <1>2
<1>4. i + L <= (N + L) + 1
    BY <1>3
<1>5. ASSUME NEW j \in 1 .. N + L PROVE d[j].actionId = id <=> i <= j /\ j < i + L
  <2>1. CASE j \in 1 .. N
      BY <1>3, <2>1
  <2>2. CASE j \notin 1 .. N
    <3>1. j - N \in 1 .. L /\ N + (j - N) = j
        BY <2>2
    <3>2. d[j].actionId = id
        BY <3>1
    <3>3. i <= j /\ j < i + L
        BY <1>3, <2>2
    <3> QED BY <3>2, <3>3
  <2> QED BY <2>1, <2>2
<1>6. ASSUME NEW n \in 1 .. L PROVE d[i + n - 1].stage = S[n][1] /\ d[i + n - 1].status = S[n][2]
  <2>1. i + n - 1 = N + n
      BY <1>3
  <2> QED BY <2>1
<1> QED BY <1>4, <1>5, <1>6 DEF Block

\* The entries that are kept are entries.
LEMMA KeptPlaces ==
    ASSUME NEW N \in Nat, NEW places \in SUBSET (1 .. N), NEW s, NEW q, q = Kept(s, places),
           NEW C, C = Cardinality(places)
    PROVE  /\ C \in Nat /\ q = [n \in 1 .. C |-> q[n]]
           /\ \A n \in 1 .. C : \E i \in places : Before(places, i) = n - 1 /\ q[n] = s[i]
BY KeptEntries

\* The places are the L ones from lo on.
Consecutive(places, N, lo, L) == \A i \in 1 .. N : i \in places <=> lo <= i /\ i < lo + L

\* What is kept of consecutive places.
LEMMA KeptInterval ==
    ASSUME NEW N \in Nat, NEW lo \in Nat, NEW L \in Nat, 1 <= lo, lo + L <= N + 1,
           NEW places \in SUBSET (1 .. N), Consecutive(places, N, lo, L),
           NEW s, NEW q, q = Kept(s, places)
    PROVE  q = [n \in 1 .. L |-> s[lo + n - 1]]
<1>1. places = lo .. lo + L - 1
  <2>1. \A i \in 1 .. N : i \in places <=> lo <= i /\ i < lo + L
      BY DEF Consecutive
  <2>2. \A i \in lo .. lo + L - 1 : i \in 1 .. N /\ lo <= i /\ i < lo + L
      OBVIOUS
  <2>3. \A i \in 1 .. N : lo <= i /\ i < lo + L => i \in lo .. lo + L - 1
      OBVIOUS
  <2> QED BY <2>1, <2>2, <2>3
<1>2. \A a, b \in Nat : Cardinality(a .. b) = IF a > b THEN 0 ELSE b - a + 1
    BY FS_Interval
<1>3. Cardinality(places) = L
  <2>1. CASE L = 0
    <3>1. places = {}
        BY <1>1, <2>1
    <3> QED BY <2>1, <3>1, FS_EmptySet
  <2>2. CASE L # 0
    <3>1. lo + L - 1 \in Nat /\ ~(lo > lo + L - 1) /\ (lo + L - 1) - lo + 1 = L
        BY <2>2
    <3> QED BY <1>1, <1>2, <3>1
  <2> QED BY <2>1, <2>2
<1>4. ASSUME NEW i \in places PROVE Before(places, i) = i - lo
  <2>1. {j \in places : j < i} = lo .. i - 1
      BY <1>1
  <2>2. Before(places, i) = Cardinality(lo .. i - 1)
      BY <2>1 DEF Before
  <2>3. CASE i = lo
    <3>1. lo .. i - 1 = {}
        BY <2>3
    <3> QED BY <2>2, <2>3, <3>1, FS_EmptySet
  <2>4. CASE i # lo
    <3>1. i - 1 \in Nat /\ ~(lo > i - 1) /\ (i - 1) - lo + 1 = i - lo
        BY <1>1, <2>4
    <3> QED BY <1>2, <2>2, <3>1
  <2> QED BY <2>3, <2>4
<1>5. /\ q = [n \in 1 .. L |-> q[n]]
      /\ \A n \in 1 .. L : \E i \in places : Before(places, i) = n - 1 /\ q[n] = s[i]
  <2>1. PICK C : C = Cardinality(places)
      OBVIOUS
  <2>2. /\ q = [n \in 1 .. C |-> q[n]]
        /\ \A n \in 1 .. C : \E i \in places : Before(places, i) = n - 1 /\ q[n] = s[i]
      BY <2>1, KeptPlaces
  <2> QED BY <1>3, <2>1, <2>2
<1>6. ASSUME NEW n \in 1 .. L PROVE q[n] = s[lo + n - 1]
  <2>1. PICK i \in places : Before(places, i) = n - 1 /\ q[n] = s[i]
      BY <1>5
  <2>2. i = lo + n - 1
      BY <1>1, <1>4, <2>1
  <2> QED BY <2>1, <2>2
<1> QED BY <1>5, <1>6

\* The timeline of an action that still has its intent is the one that was recorded.
LEMMA TimelineIsWhole ==
    ASSUME NEW N \in Nat, NEW b, NEW id, NEW h, Whole(b, N, id, h),
           NEW places \in SUBSET (1 .. N), \A i \in 1 .. N : i \in places <=> b[i].actionId = id,
           NEW tl, tl = Kept(b, places), IncidentSource(tl)
    PROVE  h \in ReceiptHistory /\ Matches(tl, h)
<1>c. PICK C : C = Cardinality(places)
    OBVIOUS
<1>1. C \in Nat /\ tl = [n \in 1 .. C |-> tl[n]] /\ \A n \in 1 .. C : \E i \in places : tl[n] = b[i]
  <2>1. /\ C \in Nat /\ tl = [n \in 1 .. C |-> tl[n]]
        /\ \A n \in 1 .. C : \E i \in places : Before(places, i) = n - 1 /\ tl[n] = b[i]
      BY <1>c, KeptPlaces
  <2> QED BY <2>1
<1>2. PICK m \in DOMAIN tl : tl[m].stage = "intent"
    BY DEF IncidentSource, Having
<1>3. PICK i \in 1 .. N : b[i].actionId = id /\ b[i].stage = "intent"
  <2>1. m \in 1 .. C
      BY <1>1
  <2>2. PICK i \in places : tl[m] = b[i]
      BY <1>1, <2>1
  <2> QED BY <1>2, <2>2
<1>4. Block(b, N, id, h, i)
    BY <1>3 DEF Whole
<1>5. h \in ReceiptHistory
    BY <1>4 DEF Block
<1>6. PICK S, L : S = Stages(h) /\ L = Len(S)
    OBVIOUS
<1>7. L \in Nat
    BY <1>5, <1>6, StageCount
<1>8. /\ i + L <= N + 1
      /\ \A j \in 1 .. N : b[j].actionId = id <=> i <= j /\ j < i + L
      /\ \A n \in 1 .. L : b[i + n - 1].stage = S[n][1] /\ b[i + n - 1].status = S[n][2]
    BY <1>4, <1>6 DEF Block
<1>9. Consecutive(places, N, i, L)
    BY <1>8 DEF Consecutive
<1>10. tl = [n \in 1 .. L |-> b[i + n - 1]]
  <2>1. i \in Nat /\ 1 <= i /\ i + L <= N + 1
      BY <1>7, <1>8
  <2> QED BY <1>7, <1>9, <2>1, KeptInterval
<1>11. IsSequence(tl) /\ Len(tl) = L
  <2>1. tl = [n \in 1 .. L |-> tl[n]]
      BY <1>10
  <2> QED BY <1>7, <2>1, FunctionSequence
<1>12. DOMAIN tl = 1 .. L /\ \A n \in 1 .. L : tl[n].stage = S[n][1] /\ tl[n].status = S[n][2]
    BY <1>8, <1>10
<1> QED BY <1>5, <1>6, <1>11, <1>12 DEF Matches

\* The bodies of a chain.
Bodies(s) == [i \in DOMAIN s |-> s[i].body]

\* The hash of an action tells its id.
HashTells(b) ==
    b.actionId \in LedgerActionId =>
        b.actionHash \in Envelope /\ ledgerId[b.actionHash] = b.actionId
HashesTell(s) == \A i \in 1 .. Len(s) : HashTells(s[i].body)

\* The hashes of a chain that grows.
LEMMA GrownTells ==
    ASSUME NEW r, NEW s, IsSequence(s), NEW m \in Nat, NEW new, NEW q, IsSequence(q),
           Grown(r, s, m, new, q), HashesTell(s), \A i \in 1 .. m : HashTells(new[i])
    PROVE  HashesTell(q)
<1>1. PICK N \in Nat : N = Len(s)
    BY SequenceLength
<1>2. PICK c \in 0 .. N + m : Len(q) = N + m - c /\ \A i \in 1 .. Len(q) : q[i].body = Shown(s, new, c + i)
    BY <1>1 DEF Grown
<1>3. ASSUME NEW i \in 1 .. Len(q) PROVE HashTells(q[i].body)
  <2>1. PICK x \in 1 .. N + m : x = c + i
      BY <1>2
  <2>2. q[i].body = Shown(s, new, x)
      BY <1>2, <2>1
  <2>3. CASE x <= N
    <3>1. q[i].body = s[x].body /\ x \in 1 .. N
        BY <1>1, <2>2, <2>3 DEF Shown
    <3> QED BY <1>1, <3>1 DEF HashesTell
  <2>4. CASE x > N
    <3>1. q[i].body = new[x - N] /\ x - N \in 1 .. m
        BY <1>1, <2>2, <2>4 DEF Shown
    <3> QED BY <3>1
  <2> QED BY <2>3, <2>4
<1> QED BY <1>3 DEF HashesTell

\* What grows is the end of a longer sequence of bodies.
LEMMA GrownFrom ==
    ASSUME NEW r, NEW s, IsSequence(s), NEW m \in Nat, NEW new, NEW q, IsSequence(q),
           Grown(r, s, m, new, q), NEW id, NEW h, NEW v,
           v = [i \in 1 .. Len(s) + m |-> Shown(s, new, i)], Whole(v, Len(s) + m, id, h)
    PROVE  Whole(Bodies(q), Len(q), id, h)
<1>1. PICK N \in Nat : N = Len(s)
    BY SequenceLength
<1>2. PICK c \in 0 .. N + m : Len(q) = N + m - c /\ \A i \in 1 .. Len(q) : q[i].body = Shown(s, new, c + i)
    BY <1>1 DEF Grown
<1>3. PICK M \in Nat : \E d : d = Bodies(q) /\ M = N + m
    OBVIOUS
<1>d. PICK d : d = Bodies(q) /\ M = N + m
    BY <1>3
<1>4. DOMAIN q = 1 .. Len(q)
    BY SequenceLength
<1>5. \A i \in 1 .. M - c : d[i] = v[c + i]
  <2>1. ASSUME NEW i \in 1 .. M - c PROVE d[i] = v[c + i]
    <3>1. i \in 1 .. Len(q) /\ c + i \in 1 .. N + m
        BY <1>2, <1>d
    <3>2. d[i] = q[i].body
        BY <1>d, <1>4, <3>1 DEF Bodies
    <3>3. v[c + i] = Shown(s, new, c + i)
        BY <1>1, <3>1
    <3> QED BY <1>2, <3>1, <3>2, <3>3
  <2> QED BY <2>1
<1>6. Whole(v, M, id, h)
    BY <1>1, <1>d
<1>7. Whole(d, M - c, id, h)
    BY <1>2, <1>d, <1>5, <1>6, WholeWithoutFirst
<1> QED BY <1>2, <1>d, <1>7

\* The other actions' timelines in a chain that grows.
LEMMA GrownWithOthers ==
    ASSUME NEW r, NEW s, IsSequence(s), NEW m \in Nat, NEW new, NEW q, IsSequence(q),
           Grown(r, s, m, new, q), NEW id, NEW h, Whole(Bodies(s), Len(s), id, h),
           \A i \in 1 .. m : new[i].actionId # id
    PROVE  Whole(Bodies(q), Len(q), id, h)
<1>1. PICK N \in Nat : N = Len(s) /\ DOMAIN s = 1 .. N
    BY SequenceLength
<1>2. PICK v : v = [i \in 1 .. N + m |-> Shown(s, new, i)]
    OBVIOUS
<1>m. PICK M \in Nat : M = N + m
    OBVIOUS
<1>3. PICK b : b = Bodies(s) /\ M = N + m
    BY <1>m
<1>4. \A i \in 1 .. N : v[i] = b[i]
    BY <1>1, <1>2, <1>3 DEF Shown, Bodies
<1>5. ASSUME NEW i \in N + 1 .. M PROVE v[i].actionId # id
  <2>1. i - N \in 1 .. m /\ ~(i <= N) /\ i \in 1 .. N + m
      BY <1>3
  <2>2. v[i] = new[i - N]
      BY <1>1, <1>2, <2>1 DEF Shown
  <2> QED BY <2>1, <2>2
<1>6. Whole(b, N, id, h) /\ N <= M
    BY <1>1, <1>3
<1>7. Whole(v, M, id, h)
    BY <1>4, <1>5, <1>6, WholeWithOthers
<1>8. v = [i \in 1 .. Len(s) + m |-> Shown(s, new, i)] /\ Whole(v, Len(s) + m, id, h)
    BY <1>1, <1>2, <1>3, <1>7
<1> QED BY <1>8, GrownFrom

\* The bodies are those of the stages of an action.
BodiesFor(new, id, S) ==
    \A n \in 1 .. Len(S) :
        new[n].actionId = id /\ new[n].stage = S[n][1] /\ new[n].status = S[n][2]

\* The timeline that is recorded in a chain that grows.
LEMMA GrownByTimeline ==
    ASSUME NEW r, NEW s, IsSequence(s), NEW m \in Nat, NEW new, NEW q, IsSequence(q),
           Grown(r, s, m, new, q), NEW id, NEW h \in ReceiptHistory, Places(s, id) = {},
           NEW S, S = Stages(h), m = Len(S), BodiesFor(new, id, S)
    PROVE  Whole(Bodies(q), Len(q), id, h)
<1>1. PICK N \in Nat : N = Len(s) /\ DOMAIN s = 1 .. N
    BY SequenceLength
<1>2. PICK v : v = [i \in 1 .. N + m |-> Shown(s, new, i)]
    OBVIOUS
<1>3. ASSUME NEW i \in 1 .. N PROVE v[i].actionId # id
  <2>1. v[i] = s[i].body
      BY <1>1, <1>2 DEF Shown
  <2> QED BY <1>1, <2>1 DEF Places
<1>4. ASSUME NEW n \in 1 .. m PROVE v[N + n] = new[n]
  <2>1. N + n \in 1 .. N + m /\ ~(N + n <= N) /\ N + n - N = n
      OBVIOUS
  <2> QED BY <1>1, <1>2, <2>1 DEF Shown
<1>5. \A n \in 1 .. m : /\ v[N + n].actionId = id /\ v[N + n].stage = S[n][1]
                        /\ v[N + n].status = S[n][2]
    BY <1>4 DEF BodiesFor
<1>6. Whole(v, N + m, id, h)
    BY <1>3, <1>5, WholeWhenRecorded
<1>7. v = [i \in 1 .. Len(s) + m |-> Shown(s, new, i)] /\ Whole(v, Len(s) + m, id, h)
    BY <1>1, <1>2, <1>6
<1> QED BY <1>7, GrownFrom

-----------------------------------------------------------------------------
(***************************************************************************)
(* The inductive invariant of the ledger.                                  *)
(***************************************************************************)

\* What has its intent is whole, for every action of a tenant.
TimelinesWhole(s, histories) ==
    \A id \in LedgerActionId : Whole(Bodies(s), Len(s), id, histories[id])

\* A fixture is made of the ledger of a tenant.
FixturesHaveTenants ==
    \A e \in Envelope : fixture[e] # NoFixture => fixture[e].tenant \in LedgerTenant

\* The invariant of the ledger.
LedgerInv ==
    /\ now \in Nat
    /\ GoodChains(chain, ledgerTenant, now) /\ ChainFits(chain)
    /\ recorded = [t \in LedgerTenant |-> recorded[t]]
    /\ \A t \in LedgerTenant :
        /\ recorded[t] = [id \in LedgerActionId |-> recorded[t][id]]
        /\ HashesTell(chain[t]) /\ TimelinesWhole(chain[t], recorded[t])
    /\ fixture = [e \in Envelope |-> fixture[e]]
    /\ FixturesTellTheRecord /\ FixturesHaveTenants

\* What HeldRecordsStay says of one step.
HeldStay ==
    \A t \in LedgerTenant :
        (ledgerTenant'[t].legalHold \/ ledgerTenant'[t].retentionDays = Forever) =>
            /\ Len(chain[t]) <= Len(chain'[t])
            /\ \A i \in DOMAIN chain[t] : chain'[t][i] = chain[t][i]

\* What a mutation that succeeds leaves behind.
LEMMA WrittenChains ==
    ASSUME NEW c, NEW r, NEW k, NEW t, NEW m, NEW new, NEW at, NEW later,
           NEW st, AppendOf(c, r, k, t, m, new, at, later, st), GoodChains(c, r, at), Write(st)
    PROVE  /\ GoodChains(chain', ledgerTenant', later)
           /\ Becomes(c, r, chain', ledgerTenant', t, m, new)
           /\ ChainFits(c) => ChainFits(chain')
<1>1. PICK c2, rb : \E k2 \in BOOLEAN :
        /\ st = Mutation(c2, rb, k2) /\ (k2 => k)
        /\ k2 /\ GoodChains(c, r, at) =>
            GoodChains(c2, rb, later) /\ Becomes(c, r, c2, rb, t, m, new)
        /\ k2 /\ GoodChains(c, r, at) /\ ChainFits(c) => ChainFits(c2)
    BY Zenon DEF AppendOf
<1>2. PICK k2 \in BOOLEAN :
        /\ st = Mutation(c2, rb, k2)
        /\ k2 => GoodChains(c2, rb, later) /\ Becomes(c, r, c2, rb, t, m, new)
        /\ k2 /\ ChainFits(c) => ChainFits(c2)
    BY <1>1
<1>3. st.chain = c2 /\ st.tenant = rb /\ st.ok = k2
    BY <1>2, MutationFields
<1>4. k2 /\ chain' = c2 /\ ledgerTenant' = rb
    BY <1>3 DEF Write
<1> QED BY <1>2, <1>4

\* A chain that becomes longer, or shorter, keeps what is held.
LEMMA HeldEntries ==
    ASSUME NEW r, NEW t, NEW m \in Nat, NEW new,
           \A u \in LedgerTenant : IsSequence(chain[u]),
           Becomes(chain, r, chain', ledgerTenant', t, m, new)
    PROVE  HeldStay
<1> SUFFICES ASSUME NEW u \in LedgerTenant,
                    ledgerTenant'[u].legalHold \/ ledgerTenant'[u].retentionDays = Forever
             PROVE  /\ Len(chain[u]) <= Len(chain'[u])
                    /\ \A i \in DOMAIN chain[u] : chain'[u][i] = chain[u][i]
    BY DEF HeldStay
<1>1. PICK l \in Nat : l = IF u = t THEN m ELSE 0
    OBVIOUS
<1>2. PICK s : s = chain[u]
    OBVIOUS
<1>3. PICK q : q = chain'[u]
    OBVIOUS
<1>4. PICK N \in Nat : N = Len(s) /\ DOMAIN s = 1 .. N
    BY <1>2, SequenceLength
<1>5. SameSettings(r[u], ledgerTenant'[u]) /\ Grown(r[u], s, l, new, q)
    BY <1>1, <1>2, <1>3 DEF Becomes
<1>6. Held(r[u])
    BY <1>5 DEF Held, SameSettings
<1>7. Len(q) = N + l /\ \A i \in 1 .. N : q[i] = s[i]
    BY <1>4, <1>5, <1>6 DEF Grown
<1> QED BY <1>2, <1>3, <1>4, <1>7

\* Before anything is recorded.
LEMMA LedgerInitially == LedgerInit => LedgerInv
<1> SUFFICES ASSUME LedgerInit PROVE LedgerInv
    OBVIOUS
<1>0. /\ now = 0 /\ chain = [t \in LedgerTenant |-> <<>>]
      /\ ledgerTenant = [t \in LedgerTenant |-> Untracked(t)]
      /\ fixture = [e \in Envelope |-> NoFixture]
      /\ recorded = [t \in LedgerTenant |-> [id \in LedgerActionId |-> <<>>]]
    BY DEF LedgerInit
<1>1. ASSUME NEW t \in LedgerTenant PROVE GoodTenant(t, Untracked(t), <<>>, 0)
  <2>1. Untracked(t) \in TenantRecord({genesisHash(t)})
    <3>1. PICK g : g = genesisHash(t)
        OBVIOUS
    <3>2. Untracked(t) = [tracked |-> FALSE, entryCount |-> 0, headHash |-> g,
            retentionDays |-> Forever, legalHold |-> FALSE, deletionRequested |-> FALSE]
        BY <3>1 DEF Untracked
    <3> QED BY <3>1, <3>2 DEF TenantRecord
  <2>2. IsSequence(<<>>) /\ Len(<<>>) = 0
    <3>1. <<>> \in Seq({})
        OBVIOUS
    <3> QED BY <3>1 DEF IsSequence
  <2>3. Linked(t, <<>>) /\ InTime(<<>>, 0) /\ HeadOf(t, <<>>) = genesisHash(t)
      BY <2>2 DEF Linked, InTime, HeadOf
  <2>4. Untracked(t).entryCount = 0 /\ Untracked(t).headHash = genesisHash(t)
      BY DEF Untracked
  <2> QED BY <2>1, <2>2, <2>3, <2>4 DEF GoodTenant
<1>2. GoodChains(chain, ledgerTenant, now)
  <2>1. \A t \in LedgerTenant : chain[t] = <<>> /\ ledgerTenant[t] = Untracked(t)
      BY <1>0
  <2>2. chain = [t \in LedgerTenant |-> chain[t]] /\ ledgerTenant = [t \in LedgerTenant |-> ledgerTenant[t]]
      BY <1>0
  <2>3. \A t \in LedgerTenant : GoodTenant(t, ledgerTenant[t], chain[t], now)
      BY <1>0, <1>1, <2>1
  <2> QED BY <2>2, <2>3 DEF GoodChains
<1>3. ASSUME NEW t \in LedgerTenant
      PROVE  /\ recorded[t] = [id \in LedgerActionId |-> recorded[t][id]]
             /\ HashesTell(chain[t]) /\ TimelinesWhole(chain[t], recorded[t])
  <2>1. chain[t] = <<>> /\ Len(chain[t]) = 0
      BY <1>0
  <2> QED BY <1>0, <2>1 DEF HashesTell, TimelinesWhole, Whole
<1>f. ChainFits(chain)
  <2>1. \A t \in LedgerTenant : DOMAIN chain[t] = {}
      BY <1>0
  <2>2. ASSUME NEW x PROVE x \notin Pairs(chain)
      BY <2>1, PairsOf
  <2>3. Pairs(chain) = {}
      BY <2>2
  <2> QED BY <2>3, FS_EmptySet, LedgerAssumption DEF ChainFits
<1>4. /\ fixture = [e \in Envelope |-> fixture[e]]
      /\ FixturesTellTheRecord /\ FixturesHaveTenants
    BY <1>0 DEF FixturesTellTheRecord, FixturesHaveTenants
<1>5. recorded = [t \in LedgerTenant |-> recorded[t]] /\ now \in Nat
    BY <1>0
<1> QED BY <1>2, <1>3, <1>4, <1>5, <1>f DEF LedgerInv

\* The hashes still tell, whoever's chain grows.
LEMMA StillTelling ==
    ASSUME NEW r, NEW t, NEW m \in Nat, NEW new, NEW at, NEW later, GoodChains(chain, ledgerTenant, at),
           GoodChains(chain', ledgerTenant', later),
           Becomes(chain, r, chain', ledgerTenant', t, m, new),
           \A i \in 1 .. m : HashTells(new[i]),
           NEW u \in LedgerTenant, HashesTell(chain[u])
    PROVE  HashesTell(chain'[u])
<1>1. PICK l \in Nat : l = IF u = t THEN m ELSE 0
    OBVIOUS
<1>2. PICK s : s = chain[u]
    OBVIOUS
<1>3. PICK q : q = chain'[u]
    OBVIOUS
<1>4. Grown(r[u], s, l, new, q)
    BY <1>1, <1>2, <1>3 DEF Becomes
<1>5. IsSequence(s) /\ IsSequence(q) /\ HashesTell(s)
    BY <1>2, <1>3 DEF GoodChains, GoodTenant
<1>6. \A i \in 1 .. l : HashTells(new[i])
    BY <1>1
<1> QED BY <1>3, <1>4, <1>5, <1>6, GrownTells

\* The timelines of the other actions stay whole, whoever's chain grows.
LEMMA StillWhole ==
    ASSUME NEW r, NEW t, NEW m \in Nat, NEW new, NEW at, NEW later, GoodChains(chain, ledgerTenant, at),
           GoodChains(chain', ledgerTenant', later),
           Becomes(chain, r, chain', ledgerTenant', t, m, new),
           NEW u \in LedgerTenant, NEW id, NEW h, Whole(Bodies(chain[u]), Len(chain[u]), id, h),
           u = t => \A i \in 1 .. m : new[i].actionId # id
    PROVE  Whole(Bodies(chain'[u]), Len(chain'[u]), id, h)
<1>1. PICK l \in Nat : l = IF u = t THEN m ELSE 0
    OBVIOUS
<1>2. PICK s : s = chain[u]
    OBVIOUS
<1>3. PICK q : q = chain'[u]
    OBVIOUS
<1>4. Grown(r[u], s, l, new, q)
    BY <1>1, <1>2, <1>3 DEF Becomes
<1>5. IsSequence(s) /\ IsSequence(q) /\ Whole(Bodies(s), Len(s), id, h)
    BY <1>2, <1>3 DEF GoodChains, GoodTenant
<1>6. \A i \in 1 .. l : new[i].actionId # id
    BY <1>1
<1>7. Whole(Bodies(q), Len(q), id, h)
    BY <1>4, <1>5, <1>6, GrownWithOthers
<1> QED BY <1>3, <1>7

\* The fields of a body.
LEMMA BodyFields ==
    ASSUME NEW id, NEW e, NEW stage, NEW status, NEW at
    PROVE  LET b == Body(id, e, stage, status, at)
           IN  /\ b.actionId = id /\ b.actionHash = e /\ b.stage = stage /\ b.status = status
               /\ b.timestamp = at
BY DEF Body

\* The entries of a timeline, stamped when they are appended.
BodiesOf(id, e, S, n, first, then) ==
    [i \in DOMAIN S |-> Body(id, e, S[i][1], S[i][2], IF i <= n THEN first ELSE then)]

Stamped(new, id, e, S, first, then) ==
    /\ IsSequence(new) /\ Len(new) = Len(S)
    /\ BodiesFor(new, id, S) /\ \A i \in 1 .. Len(S) : new[i].actionHash = e
    /\ \A i \in 1 .. Len(S) :
        new[i].timestamp \in Nat /\ first <= new[i].timestamp /\ new[i].timestamp <= then
    /\ \A i, j \in 1 .. Len(S) : i <= j => new[i].timestamp <= new[j].timestamp

\* The entries of a timeline are stamped in the order of time.
LEMMA StampedBodies ==
    ASSUME NEW id, NEW e, NEW S, IsSequence(S), NEW n \in Nat, NEW first \in Nat, NEW then \in Nat,
           first <= then, NEW new, new = BodiesOf(id, e, S, n, first, then)
    PROVE  Stamped(new, id, e, S, first, then)
<1>1. PICK N \in Nat : N = Len(S) /\ DOMAIN S = 1 .. N
    BY SequenceLength
<1>2. /\ new = [i \in 1 .. N |-> new[i]]
      /\ \A i \in 1 .. N :
            new[i] = Body(id, e, S[i][1], S[i][2], IF i <= n THEN first ELSE then)
    BY <1>1 DEF BodiesOf
<1>3. IsSequence(new) /\ Len(new) = N
    BY <1>2, FunctionSequence
<1>4. ASSUME NEW i \in 1 .. N
      PROVE  /\ new[i].actionId = id /\ new[i].actionHash = e /\ new[i].stage = S[i][1]
             /\ new[i].status = S[i][2]
             /\ new[i].timestamp = IF i <= n THEN first ELSE then
    BY <1>2, BodyFields
<1>5. \A i \in 1 .. N :
        /\ new[i].timestamp \in Nat /\ first <= new[i].timestamp /\ new[i].timestamp <= then
        /\ i <= n => new[i].timestamp = first
        /\ i > n => new[i].timestamp = then
    BY <1>4
<1>6. \A i, j \in 1 .. N : i <= j => new[i].timestamp <= new[j].timestamp
    BY <1>5
<1> QED BY <1>1, <1>3, <1>4, <1>5, <1>6 DEF Stamped, BodiesFor

\* recordAction() keeps the invariant, and what is held.
LEMMA RecordStep ==
    ASSUME LedgerInv, NEW t \in LedgerTenant, NEW e \in Envelope, NEW h \in ReceiptHistory,
           NEW n \in Nat, NEW later \in {now, now + 1}, RecordAction(t, e, h, n, later)
    PROVE  LedgerInv' /\ HeldStay
<1>1. PICK id \in LedgerActionId : id = ledgerId[e]
    BY LedgerAssumption
<1>2. PICK S : S = Stages(h)
    OBVIOUS
<1>3. PICK new : new = BodiesOf(id, e, S, n, now, later)
    OBVIOUS
<1>4. /\ Places(chain[t], id) = {} /\ Write(appendAll(State, t, new))
      /\ recorded' = [recorded EXCEPT ![t] = [recorded[t] EXCEPT ![id] = h]]
      /\ now' = later /\ fixture' = fixture
    BY <1>1, <1>2, <1>3, Zenon DEF RecordAction, BodiesOf
<1>5. PICK at \in Nat : at = now
    BY DEF LedgerInv
<1>6. later \in Nat /\ at <= later
    BY <1>5
<1>7. IsSequence(S)
    BY <1>2, HistoryType, StagesOfHistory DEF IsSequence
<1>s. Stamped(new, id, e, S, at, later)
    BY <1>3, <1>5, <1>6, <1>7, StampedBodies
<1>8. PICK m \in Nat : m = Len(S) /\ m = Len(new)
    BY <1>7, <1>s, SequenceLength DEF Stamped
<1>9. \A i \in 1 .. m :
        /\ new[i].actionId = id /\ new[i].actionHash = e /\ new[i].stage = S[i][1]
        /\ new[i].status = S[i][2]
    BY <1>8, <1>s DEF Stamped, BodiesFor
<1>10. GoodChains(chain, ledgerTenant, at)
    BY <1>5 DEF LedgerInv
<1>11. /\ GoodChains(chain', ledgerTenant', later)
       /\ Becomes(chain, ledgerTenant, chain', ledgerTenant', t, m, new)
       /\ ChainFits(chain')
  <2>1. PICK c : c = chain
      OBVIOUS
  <2>2. PICK r : r = ledgerTenant
      OBVIOUS
  <2>3. PICK st : st = appendAll(Mutation(c, r, TRUE), t, new)
      OBVIOUS
  <2>4. /\ IsSequence(new)
        /\ \A i \in 1 .. Len(new) :
            new[i].timestamp \in Nat /\ at <= new[i].timestamp /\ new[i].timestamp <= later
        /\ \A i, j \in 1 .. Len(new) : i <= j => new[i].timestamp <= new[j].timestamp
      BY <1>8, <1>s DEF Stamped
  <2>5. AppendOf(c, r, TRUE, t, m, new, at, later, st)
      BY <1>6, <1>8, <2>3, <2>4, AppendedAll
  <2>6. Write(st)
      BY <1>4, <2>1, <2>2, <2>3 DEF State
  <2>7. GoodChains(c, r, at)
      BY <1>10, <2>1, <2>2
  <2>8. /\ GoodChains(chain', ledgerTenant', later)
        /\ Becomes(c, r, chain', ledgerTenant', t, m, new) /\ (ChainFits(c) => ChainFits(chain'))
      BY <2>5, <2>6, <2>7, WrittenChains
  <2>9. ChainFits(c)
      BY <2>1 DEF LedgerInv
  <2> QED BY <2>1, <2>2, <2>8, <2>9
<1>12. \A u \in LedgerTenant : IsSequence(chain[u]) /\ IsSequence(chain'[u])
    BY <1>10, <1>11 DEF GoodChains, GoodTenant
<1>13. HeldStay
    BY <1>11, <1>12, HeldEntries
<1>14. ASSUME NEW u \in LedgerTenant PROVE HashesTell(chain'[u])
  <2>1. \A i \in 1 .. m : HashTells(new[i])
      BY <1>1, <1>9 DEF HashTells
  <2>2. HashesTell(chain[u])
      BY DEF LedgerInv
  <2> QED BY <1>10, <1>11, <2>1, <2>2, StillTelling
<1>15. /\ recorded' = [u \in LedgerTenant |-> recorded'[u]]
       /\ \A u \in LedgerTenant : u # t => recorded'[u] = recorded[u]
       /\ recorded'[t] = [recorded[t] EXCEPT ![id] = h]
    BY <1>4 DEF LedgerInv
<1>16. ASSUME NEW u \in LedgerTenant
       PROVE  /\ recorded'[u] = [i \in LedgerActionId |-> recorded'[u][i]]
              /\ \A i \in LedgerActionId : recorded'[u][i] = IF u = t /\ i = id THEN h ELSE recorded[u][i]
  <2>1. recorded[u] = [i \in LedgerActionId |-> recorded[u][i]]
      BY DEF LedgerInv
  <2>2. CASE u = t
      BY <1>15, <2>1, <2>2
  <2>3. CASE u # t
      BY <1>15, <2>1, <2>3
  <2> QED BY <2>2, <2>3
<1>17. ASSUME NEW u \in LedgerTenant, NEW i \in LedgerActionId
       PROVE  Whole(Bodies(chain'[u]), Len(chain'[u]), i, recorded'[u][i])
  <2>1. CASE u = t /\ i = id
    <3>1. PICK s : s = chain[t]
        OBVIOUS
    <3>2. PICK q : q = chain'[t]
        OBVIOUS
    <3>3. Grown(ledgerTenant[t], s, m, new, q)
        BY <1>11, <3>1, <3>2 DEF Becomes
    <3>4. IsSequence(s) /\ IsSequence(q) /\ Places(s, id) = {}
        BY <1>4, <1>12, <3>1, <3>2
    <3>5. Whole(Bodies(q), Len(q), id, h)
      <4>1. BodiesFor(new, id, S)
          BY <1>s DEF Stamped
      <4> QED BY <1>2, <1>8, <3>3, <3>4, <4>1, GrownByTimeline
    <3>6. recorded'[u][i] = h
        BY <1>16, <2>1
    <3> QED BY <2>1, <3>2, <3>5, <3>6
  <2>2. CASE ~(u = t /\ i = id)
    <3>1. PICK g : g = recorded[u][i]
        OBVIOUS
    <3>2. recorded'[u][i] = g
        BY <1>16, <2>2, <3>1
    <3>3. Whole(Bodies(chain[u]), Len(chain[u]), i, g)
        BY <3>1 DEF LedgerInv, TimelinesWhole
    <3>4. u = t => \A j \in 1 .. m : new[j].actionId # i
        BY <1>9, <2>2
    <3>5. Whole(Bodies(chain'[u]), Len(chain'[u]), i, g)
        BY <1>10, <1>11, <3>3, <3>4, StillWhole
    <3> QED BY <3>2, <3>5
  <2> QED BY <2>1, <2>2
<1>18. fixture' = [x \in Envelope |-> fixture'[x]] /\ FixturesTellTheRecord' /\ FixturesHaveTenants'
    BY <1>4 DEF LedgerInv, FixturesTellTheRecord, FixturesHaveTenants
<1>19. \A u \in LedgerTenant : TimelinesWhole(chain'[u], recorded'[u])
    BY <1>17 DEF TimelinesWhole
<1>20. now' \in Nat /\ GoodChains(chain', ledgerTenant', now') /\ ChainFits(chain')
    BY <1>4, <1>6, <1>11
<1>21. LedgerInv'
    BY <1>14, <1>15, <1>16, <1>18, <1>19, <1>20 DEF LedgerInv
<1> QED BY <1>13, <1>21

\* The settings and what they may be.
SettingValue(setting, value) ==
    \/ setting = "retentionDays" /\ value \in RetentionDays \cup {Forever}
    \/ setting = "legalHold" /\ value \in BOOLEAN
    \/ setting = "deletionRequested" /\ value \in BOOLEAN

WithSetting(r, setting, value) == [r EXCEPT ![setting] = value]

\* A setting that is written changes nothing else.
LEMMA SettingWritten ==
    ASSUME NEW hashes, NEW r \in TenantRecord(hashes), NEW setting, NEW value,
           SettingValue(setting, value), NEW q, q = WithSetting(r, setting, value)
    PROVE  /\ q \in TenantRecord(hashes) /\ q.entryCount = r.entryCount /\ q.headHash = r.headHash
           /\ q.tracked = r.tracked
<1>1. CASE setting = "retentionDays" /\ value \in RetentionDays \cup {Forever}
  <2>1. q = [r EXCEPT !.retentionDays = value]
      BY <1>1 DEF WithSetting
  <2> QED BY <1>1, <2>1 DEF TenantRecord
<1>2. CASE setting = "legalHold" /\ value \in BOOLEAN
  <2>1. q = [r EXCEPT !.legalHold = value]
      BY <1>2 DEF WithSetting
  <2> QED BY <1>2, <2>1 DEF TenantRecord
<1>3. CASE setting = "deletionRequested" /\ value \in BOOLEAN
  <2>1. q = [r EXCEPT !.deletionRequested = value]
      BY <1>3 DEF WithSetting
  <2> QED BY <1>3, <2>1 DEF TenantRecord
<1> QED BY <1>1, <1>2, <1>3 DEF SettingValue

\* A tenant whose setting is written is good.
LEMMA GoodWithSetting ==
    ASSUME NEW t, NEW r, NEW s, NEW at, GoodTenant(t, r, s, at), Tracked(r), NEW setting, NEW value,
           SettingValue(setting, value), NEW q, q = WithSetting(r, setting, value)
    PROVE  GoodTenant(t, q, s, at)
<1>1. PICK hashes : r \in TenantRecord(hashes)
    BY DEF GoodTenant
<1>2. /\ q \in TenantRecord(hashes) /\ q.entryCount = r.entryCount /\ q.headHash = r.headHash
      /\ q.tracked = r.tracked
    BY <1>1, SettingWritten
<1>3. q.tracked
    BY <1>2 DEF Tracked
<1> QED BY <1>2, <1>3 DEF GoodTenant

\* A change of settings keeps the invariant, and what is held under the new ones.
LEMMA GovernStep ==
    ASSUME LedgerInv, NEW t \in LedgerTenant, NEW setting, NEW value, NEW stage, NEW status,
           SettingValue(setting, value), Govern(t, setting, value, stage, status)
    PROVE  LedgerInv' /\ HeldStay
<1>1. PICK at \in Nat : at = now
    BY DEF LedgerInv
<1>2. PICK b : b = Body("governance", Forever, stage, status, now)
    OBVIOUS
<1>3. b.timestamp = at /\ b.actionId = "governance"
    BY <1>1, <1>2, BodyFields
<1>4. PICK c : c = chain
    OBVIOUS
<1>5. PICK r : r = ledgerTenant
    OBVIOUS
<1>6. PICK st : st = WithTenant(Mutation(c, r, TRUE), t)
    OBVIOUS
<1>7. CreationOf(c, r, TRUE, t, st)
    BY <1>6, TenantCreated
<1>8. PICK ra : \E k1 \in BOOLEAN :
        /\ st = Mutation(c, ra, k1)
        /\ k1 => TRUE
        /\ \A a : GoodChains(c, r, a) =>
            /\ GoodChains(c, ra, a) /\ ra[t].tracked = TRUE
            /\ \A u \in LedgerTenant : SameSettings(r[u], ra[u])
    BY <1>7, Zenon DEF CreationOf
<1>9. PICK k1 \in BOOLEAN :
        /\ st = Mutation(c, ra, k1)
        /\ \A a : GoodChains(c, r, a) => GoodChains(c, ra, a) /\ ra[t].tracked = TRUE
    BY <1>8
<1>10. st.chain = c /\ st.tenant = ra /\ st.ok = k1
    BY <1>9, MutationFields
<1>11. PICK p : p = WithSetting(ra[t], setting, value)
    OBVIOUS
<1>12. PICK rb : rb = [ra EXCEPT ![t] = p]
    OBVIOUS
<1>13. PICK v : v = appendEntry(Mutation(c, rb, k1), t, b)
    OBVIOUS
<1>14. Write(v) /\ now' = now /\ fixture' = fixture /\ recorded' = recorded
  <2>1. PICK s0 : s0 = WithTenant(State, t)
      OBVIOUS
  <2>2. s0 = st
      BY <1>4, <1>5, <1>6, <2>1 DEF State
  <2>3. Write(appendEntry(Mutation(s0.chain, [s0.tenant EXCEPT ![t][setting] = value], s0.ok), t, b))
      BY <1>2, <2>1, Zenon DEF Govern
  <2>4. [s0.tenant EXCEPT ![t][setting] = value] = rb
      BY <1>10, <1>11, <1>12, <2>2 DEF WithSetting
  <2>5. Write(v)
      BY <1>10, <1>13, <2>2, <2>3, <2>4, Zenon
  <2> QED BY <2>5 DEF Govern
<1>15. GoodChains(c, r, at)
    BY <1>1, <1>4, <1>5 DEF LedgerInv
<1>16. GoodChains(c, ra, at) /\ Tracked(ra[t])
    BY <1>9, <1>15 DEF Tracked
<1>17. GoodChains(c, rb, at)
  <2>1. /\ rb = [u \in LedgerTenant |-> rb[u]] /\ rb[t] = p
        /\ \A u \in LedgerTenant : u # t => rb[u] = ra[u]
    <3>1. ra = [u \in LedgerTenant |-> ra[u]]
        BY <1>16 DEF GoodChains
    <3> QED BY <1>12, <3>1, OneTenantWritten
  <2>2. GoodTenant(t, p, c[t], at)
    <3>1. GoodTenant(t, ra[t], c[t], at)
        BY <1>16 DEF GoodChains
    <3> QED BY <1>11, <1>16, <3>1, GoodWithSetting
  <2>3. ASSUME NEW u \in LedgerTenant PROVE GoodTenant(u, rb[u], c[u], at)
    <3>1. CASE u = t
        BY <2>1, <2>2, <3>1
    <3>2. CASE u # t
        BY <1>16, <2>1, <3>2 DEF GoodChains
    <3> QED BY <3>1, <3>2
  <2>4. c = [u \in LedgerTenant |-> c[u]]
      BY <1>16 DEF GoodChains
  <2> QED BY <2>1, <2>3, <2>4 DEF GoodChains
<1>18. PICK new : new = <<b>>
    OBVIOUS
<1>19. AppendOf(c, rb, k1, t, 1, new, at, at, v)
  <2>1. AppendOf(c, rb, k1, t, 1, <<b>>, at, at, appendEntry(Mutation(c, rb, k1), t, b))
      BY <1>3, AppendedEntry
  <2> QED BY <1>13, <1>18, <2>1, Zenon
<1>20. /\ GoodChains(chain', ledgerTenant', at) /\ Becomes(c, rb, chain', ledgerTenant', t, 1, new)
       /\ ChainFits(chain')
  <2>1. ChainFits(c)
      BY <1>4 DEF LedgerInv
  <2> QED BY <1>14, <1>17, <1>19, <2>1, WrittenChains
<1>21. /\ GoodChains(chain, ledgerTenant, at)
       /\ Becomes(chain, rb, chain', ledgerTenant', t, 1, new)
    BY <1>4, <1>5, <1>15, <1>20
<1>22. HeldStay
  <2>1. \A u \in LedgerTenant : IsSequence(chain[u])
      BY <1>21 DEF GoodChains, GoodTenant
  <2> QED BY <1>21, <2>1, HeldEntries
<1>23. \A i \in 1 .. 1 : new[i].actionId = "governance" /\ HashTells(new[i])
    BY <1>3, <1>18, LedgerAssumption DEF HashTells
<1>24. ASSUME NEW u \in LedgerTenant PROVE HashesTell(chain'[u])
  <2>1. HashesTell(chain[u])
      BY DEF LedgerInv
  <2> QED BY <1>20, <1>21, <1>23, <2>1, StillTelling
<1>25. ASSUME NEW u \in LedgerTenant, NEW i \in LedgerActionId
       PROVE  Whole(Bodies(chain'[u]), Len(chain'[u]), i, recorded'[u][i])
  <2>1. PICK h : h = recorded[u][i]
      OBVIOUS
  <2>2. Whole(Bodies(chain[u]), Len(chain[u]), i, h)
      BY <2>1 DEF LedgerInv, TimelinesWhole
  <2>3. u = t => \A j \in 1 .. 1 : new[j].actionId # i
      BY <1>23, LedgerAssumption
  <2>4. Whole(Bodies(chain'[u]), Len(chain'[u]), i, h)
      BY <1>20, <1>21, <2>2, <2>3, StillWhole
  <2> QED BY <1>14, <2>1, <2>4
<1>26. \A u \in LedgerTenant : TimelinesWhole(chain'[u], recorded'[u])
    BY <1>25 DEF TimelinesWhole
<1>27. /\ fixture' = [x \in Envelope |-> fixture'[x]] /\ FixturesTellTheRecord'
       /\ FixturesHaveTenants' /\ recorded' = [u \in LedgerTenant |-> recorded'[u]]
       /\ \A u \in LedgerTenant : recorded'[u] = [id \in LedgerActionId |-> recorded'[u][id]]
    BY <1>14 DEF LedgerInv, FixturesTellTheRecord, FixturesHaveTenants
<1>28. now' \in Nat /\ GoodChains(chain', ledgerTenant', now') /\ ChainFits(chain')
    BY <1>1, <1>14, <1>20
<1>29. LedgerInv'
    BY <1>24, <1>26, <1>27, <1>28 DEF LedgerInv
<1> QED BY <1>22, <1>29

\* A chain that is good verifies.
LEMMA GoodVerifies ==
    ASSUME LedgerInv
    PROVE  LedgerChainsVerify
<1> SUFFICES ASSUME NEW t \in LedgerTenant PROVE ChainVerifies(t)
    BY DEF LedgerChainsVerify
<1>1. PICK s : s = chain[t]
    OBVIOUS
<1>2. PICK r : r = ledgerTenant[t]
    OBVIOUS
<1>3. GoodTenant(t, r, s, now)
    BY <1>1, <1>2 DEF LedgerInv, GoodChains
<1>4. PICK N \in Nat : N = Len(s) /\ DOMAIN s = 1 .. N /\ (s = <<>> <=> N = 0)
    BY <1>3, SequenceLength DEF GoodTenant
<1>5. N = r.entryCount
    BY <1>3, <1>4 DEF GoodTenant
<1>6. \A i \in 1 .. N :
        /\ s[i].sequence = i
        /\ s[i].previousHash = IF i = 1 THEN genesisHash(t) ELSE s[i - 1].entryHash
        /\ s[i].entryHash = <<s[i].previousHash, i, s[i].body>>
    BY <1>3, <1>4 DEF GoodTenant, Linked
<1>7. r.headHash = IF s = <<>> THEN genesisHash(t) ELSE s[Len(s)].entryHash
    BY <1>3, <1>4 DEF GoodTenant, HeadOf
<1> QED BY <1>1, <1>2, <1>4, <1>5, <1>6, <1>7 DEF ChainVerifies

\* A timeline that is read from the ledger, with its intent, is the one that was recorded.
LEMMA TimelineRead ==
    ASSUME LedgerInv, NEW t \in LedgerTenant, NEW id \in LedgerActionId,
           NEW tl, tl = EntriesForAction(chain[t], id), IncidentSource(tl)
    PROVE  recorded[t][id] \in ReceiptHistory /\ Matches(tl, recorded[t][id])
<1>1. PICK s : s = chain[t]
    OBVIOUS
<1>2. PICK h : h = recorded[t][id]
    OBVIOUS
<1>3. IsSequence(s)
    BY <1>1 DEF LedgerInv, GoodChains, GoodTenant
<1>4. PICK N \in Nat : N = Len(s) /\ DOMAIN s = 1 .. N
    BY <1>3, SequenceLength
<1>5. PICK b : b = Bodies(s)
    OBVIOUS
<1>6. Whole(b, N, id, h)
    BY <1>1, <1>2, <1>4, <1>5 DEF LedgerInv, TimelinesWhole
<1>7. PICK places \in SUBSET (1 .. N) : places = Places(s, id)
    BY <1>4 DEF Places
<1>8. \A i \in 1 .. N : i \in places <=> b[i].actionId = id
    BY <1>4, <1>5, <1>7 DEF Places, Bodies
<1>9. tl = Kept(b, places)
    BY <1>1, <1>5, <1>7 DEF EntriesForAction, Bodies
<1>10. h \in ReceiptHistory /\ Matches(tl, h)
    BY <1>6, <1>8, <1>9, TimelineIsWhole
<1> QED BY <1>2, <1>10

\* createIncidentFixture() keeps the invariant: what it expects was recorded.
LEMMA FixtureStep ==
    ASSUME LedgerInv, NEW t \in LedgerTenant, NEW id \in LedgerActionId, CreateIncidentFixture(t, id)
    PROVE  LedgerInv'
<1>1. PICK tl : tl = EntriesForAction(chain[t], id)
    OBVIOUS
<1>2. PICK h : h = recorded[t][id]
    OBVIOUS
<1>3. PICK x : x = tl[1].actionHash
    OBVIOUS
<1>4. PICK f : f = [tenant |-> t, actionId |-> id, history |-> h,
                    verified |-> LastStatus(tl, "verification") = "verified"]
    OBVIOUS
<1>5. /\ IncidentSource(tl) /\ fixture' = [fixture EXCEPT ![x] = f]
      /\ now' = now /\ chain' = chain /\ ledgerTenant' = ledgerTenant /\ recorded' = recorded
    BY <1>1, <1>2, <1>3, <1>4, Zenon DEF CreateIncidentFixture
<1>6. h \in ReceiptHistory /\ Matches(tl, h)
    BY <1>1, <1>2, <1>5, TimelineRead
<1>7. LastStatus(tl, "verification") = "verified" <=> \E i \in DOMAIN h : h[i] = "verified"
    BY <1>6, VerifiedTimeline
<1>8. f.tenant = t /\ f.history = h /\ (f.verified <=> \E i \in DOMAIN f.history : f.history[i] = "verified")
    BY <1>4, <1>7
<1>9. fixture = [e \in Envelope |-> fixture[e]]
    BY DEF LedgerInv
<1>10. fixture' = [e \in Envelope |-> fixture'[e]]
    BY <1>5, <1>9
<1>11. ASSUME NEW e \in Envelope, fixture'[e] # NoFixture
       PROVE  fixture'[e].verified <=>
                \E i \in DOMAIN fixture'[e].history : fixture'[e].history[i] = "verified"
  <2>1. CASE e = x
    <3>1. fixture'[e] = f
        BY <1>5, <1>9, <2>1
    <3> QED BY <1>8, <3>1
  <2>2. CASE e # x
    <3>1. fixture'[e] = fixture[e]
        BY <1>5, <1>9, <2>2
    <3> QED BY <1>11, <3>1 DEF LedgerInv, FixturesTellTheRecord
  <2> QED BY <2>1, <2>2
<1>12. FixturesTellTheRecord'
    BY <1>11 DEF FixturesTellTheRecord
<1>13. FixturesHaveTenants'
    BY <1>5, <1>8, <1>9 DEF LedgerInv, FixturesHaveTenants
<1> QED BY <1>5, <1>10, <1>12, <1>13 DEF LedgerInv

\* The passing of time changes nothing.
LEMMA LedgerTickStep ==
    ASSUME LedgerInv, now' \in {now, now + 1}, UNCHANGED ledgerOnly
    PROVE  LedgerInv'
<1>1. PICK at \in Nat : at = now
    BY DEF LedgerInv
<1>2. PICK later \in Nat : later = now' /\ at <= later
    BY <1>1
<1>3. chain' = chain /\ ledgerTenant' = ledgerTenant /\ recorded' = recorded /\ fixture' = fixture
    BY DEF ledgerOnly
<1>4. GoodChains(chain, ledgerTenant, later)
    BY <1>1, <1>2, StillGood DEF LedgerInv, GoodChains
<1>5. GoodChains(chain', ledgerTenant', now') /\ now' \in Nat
    BY <1>2, <1>3, <1>4
<1>6. FixturesTellTheRecord' /\ FixturesHaveTenants' /\ ChainFits(chain')
    BY <1>3 DEF LedgerInv, FixturesTellTheRecord, FixturesHaveTenants
<1> QED BY <1>3, <1>5, <1>6 DEF LedgerInv

\* What does not touch the chains keeps what is held.
LEMMA UntouchedStay ==
    ASSUME LedgerInv, chain' = chain
    PROVE  HeldStay
<1>1. \A t \in LedgerTenant : Len(chain[t]) \in Nat
    BY SequenceLength DEF LedgerInv, GoodChains, GoodTenant
<1> QED BY <1>1 DEF HeldStay

\* A timeline that is recorded for a tenant.
LEMMA RecordSomethingStep ==
    ASSUME LedgerInv, NEW t \in LedgerTenant, RecordSomething(t)
    PROVE  LedgerInv' /\ HeldStay
<1>1. PICK e \in Envelope, h \in ReceiptHistory, later \in {now, now + 1} \cap 0 .. MaxTime :
        \E n \in SplitAt \cup {Len(Stages(h))} : RecordAction(t, e, h, n, later)
    BY DEF RecordSomething
<1>2. PICK n \in SplitAt \cup {Len(Stages(h))} : RecordAction(t, e, h, n, later)
    BY <1>1
<1>3. n \in Nat
    BY StageCount, LedgerAssumption
<1> QED BY <1>2, <1>3, RecordStep

\* The settings of a tenant that are configured.
LEMMA RetentionStep ==
    ASSUME LedgerInv, NEW t \in LedgerTenant, NEW days \in RetentionDays \cup {Forever},
           ConfigureRetention(t, days)
    PROVE  LedgerInv' /\ HeldStay
<1>1. SettingValue("retentionDays", days)
    BY DEF SettingValue
<1> QED BY <1>1, GovernStep DEF ConfigureRetention

\* Every step of the ledger keeps the invariant, and what is held.
LEMMA LedgerStep ==
    ASSUME LedgerInv, LedgerNext \/ UNCHANGED ledgerVars
    PROVE  LedgerInv' /\ HeldStay
<1>1. CASE UNCHANGED ledgerVars
  <2>1. now' \in {now, now + 1} /\ UNCHANGED ledgerOnly /\ chain' = chain
      BY <1>1 DEF ledgerVars, ledgerOnly
  <2> QED BY <2>1, LedgerTickStep, UntouchedStay
<1>2. CASE LedgerTick
  <2>1. now' \in {now, now + 1} /\ UNCHANGED ledgerOnly /\ chain' = chain
      BY <1>2 DEF LedgerTick, Tick, ledgerOnly
  <2> QED BY <2>1, LedgerTickStep, UntouchedStay
<1>3. ASSUME NEW t \in LedgerTenant, RecordSomething(t) PROVE LedgerInv' /\ HeldStay
    BY <1>3, RecordSomethingStep
<1>4. ASSUME NEW t \in LedgerTenant, NEW days \in RetentionDays \cup {Forever}, ConfigureRetention(t, days)
      PROVE  LedgerInv' /\ HeldStay
    BY <1>4, RetentionStep
<1>5. ASSUME NEW t \in LedgerTenant, NEW active \in BOOLEAN, SetLegalHold(t, active)
      PROVE  LedgerInv' /\ HeldStay
  <2>1. SettingValue("legalHold", active)
      BY DEF SettingValue
  <2> QED BY <1>5, <2>1, GovernStep DEF SetLegalHold
<1>6. ASSUME NEW t \in LedgerTenant, RequestDeletion(t) PROVE LedgerInv' /\ HeldStay
  <2>1. SettingValue("deletionRequested", TRUE)
      BY DEF SettingValue
  <2> QED BY <1>6, <2>1, GovernStep DEF RequestDeletion
<1>7. ASSUME NEW t \in LedgerTenant, NEW id \in LedgerActionId, CreateIncidentFixture(t, id)
      PROVE  LedgerInv' /\ HeldStay
  <2>1. chain' = chain
      BY <1>7 DEF CreateIncidentFixture
  <2> QED BY <1>7, <2>1, FixtureStep, UntouchedStay
<1> QED BY <1>1, <1>2, <1>3, <1>4, <1>5, <1>6, <1>7 DEF LedgerNext

\* Whatever is appended, dropped and linked again, every chain verifies from its genesis to
\* its head, and every incident fixture expects the outcome that was recorded.
THEOREM LedgerIsTrue == LedgerSpec => []LedgerTellsTheRecord
<1>1. LedgerInit => LedgerInv
    BY LedgerInitially
<1>2. LedgerInv /\ [LedgerNext]_ledgerVars => LedgerInv'
    BY LedgerStep
<1>3. LedgerInv => LedgerTellsTheRecord
    BY GoodVerifies DEF LedgerInv, LedgerTellsTheRecord
<1> QED BY <1>1, <1>2, <1>3, PTL DEF LedgerSpec

\* What a tenant under legal hold, or without a retention period, has recorded stays.
THEOREM HeldIsKept == LedgerSpec => HeldRecordsStay
<1>1. LedgerInit => LedgerInv
    BY LedgerInitially
<1>2. LedgerInv /\ [LedgerNext]_ledgerVars => LedgerInv' /\ HeldStay
    BY LedgerStep
<1> QED BY <1>1, <1>2, PTL DEF LedgerSpec, HeldRecordsStay, HeldStay

\* A chain in the file is no longer than the file.
LEMMA LedgerTyped == LedgerInv => LedgerTypeOK
<1> SUFFICES ASSUME LedgerInv PROVE LedgerTypeOK
    OBVIOUS
<1>1. Total(chain) <= MaxLedgerEntries
  <2>1. Total(chain) = Cardinality(Pairs(chain))
      BY Zenon DEF Total, Pairs
  <2> QED BY <2>1 DEF LedgerInv, ChainFits
<1>2. ASSUME NEW t \in LedgerTenant
      PROVE  /\ ledgerTenant[t].entryCount \in 0 .. MaxLedgerEntries
             /\ ledgerTenant[t].retentionDays \in RetentionDays \cup {Forever}
             /\ {ledgerTenant[t].tracked, ledgerTenant[t].legalHold,
                 ledgerTenant[t].deletionRequested} \subseteq BOOLEAN
             /\ \A i \in DOMAIN chain[t] : chain[t][i].body.timestamp \in 0 .. now
  <2>1. PICK r, s : r = ledgerTenant[t] /\ s = chain[t]
      OBVIOUS
  <2>2. GoodTenant(t, r, s, now) /\ now \in Nat
      BY <2>1 DEF LedgerInv, GoodChains
  <2>3. PICK N \in Nat : N = Len(s) /\ DOMAIN s = 1 .. N
      BY <2>2, SequenceLength DEF GoodTenant
  <2>4. \A i \in 1 .. N : s[i].body.timestamp \in 0 .. now
      BY <2>2, <2>3 DEF GoodTenant, InTime
  <2>5. PICK hashes : r \in TenantRecord(hashes)
      BY <2>2 DEF GoodTenant
  <2>6. /\ r.retentionDays \in RetentionDays \cup {Forever}
        /\ r.tracked \in BOOLEAN /\ r.legalHold \in BOOLEAN /\ r.deletionRequested \in BOOLEAN
      BY <2>5 DEF TenantRecord
  <2>7. N <= MaxLedgerEntries
    <3> DEFINE place == [i \in 1 .. N |-> <<t, i>>]
    <3>1. place \in Injection(1 .. N, Pairs(chain))
      <4>1. \A i \in 1 .. N : place[i] \in Pairs(chain)
          BY <2>1, <2>3, PairsOf
      <4>2. \A i, j \in 1 .. N : place[i] = place[j] => i = j
          OBVIOUS
      <4>3. place \in [1 .. N -> Pairs(chain)]
          BY <4>1
      <4> HIDE DEF place
      <4> QED BY <4>2, <4>3 DEF Injection, IsInjective
    <3>2. IsFiniteSet(1 .. N) /\ Cardinality(1 .. N) = N
        BY FS_Interval
    <3>3. IsFiniteSet(Pairs(chain)) /\ Cardinality(Pairs(chain)) <= MaxLedgerEntries
        BY DEF LedgerInv, ChainFits
    <3>4. Cardinality(Pairs(chain)) \in Nat /\ MaxLedgerEntries \in Nat
        BY <3>3, FS_CardinalityType, LedgerAssumption
    <3>5. N <= Cardinality(Pairs(chain))
        BY <3>1, <3>2, <3>3, FS_Injection
    <3> QED BY <3>3, <3>4, <3>5
  <2>8. r.entryCount = N
      BY <2>2, <2>3 DEF GoodTenant
  <2>9. r.entryCount \in 0 .. MaxLedgerEntries
      BY <2>7, <2>8, LedgerAssumption
  <2> QED BY <2>1, <2>3, <2>4, <2>6, <2>9
<1>3. \A e \in Envelope : fixture[e] # NoFixture => fixture[e].tenant \in LedgerTenant
    BY DEF LedgerInv, FixturesHaveTenants
<1> QED BY <1>1, <1>2, <1>3, Zenon DEF LedgerTypeOK

\* The file keeps to its bound: what would not fit, after a rotation, is not appended.
THEOREM LedgerTypes == LedgerSpec => []LedgerTypeOK
<1>1. LedgerInit => LedgerInv
    BY LedgerInitially
<1>2. LedgerInv /\ [LedgerNext]_ledgerVars => LedgerInv'
    BY LedgerStep
<1>3. LedgerInv => LedgerTypeOK
    BY LedgerTyped
<1> QED BY <1>1, <1>2, <1>3, PTL DEF LedgerSpec

-----------------------------------------------------------------------------
(***************************************************************************)
(* Reconciliation.  What a run has read of an action with its intent is    *)
(* what was recorded, whatever the ledger has become meanwhile, and the    *)
(* hash of what it has read tells the action.                              *)
(***************************************************************************)

\* A set in some order, every element once.
LEMMA OrderedSet ==
    ASSUME NEW S, IsFiniteSet(S), NEW f, f = SetToSeq(S)
    PROVE  \E n \in Nat : f \in [1 .. n -> S] /\ IsInjective(f)
<1>1. PICK n \in Nat : n = Cardinality(S)
    BY FS_CardinalityType
<1>2. \E g \in [1 .. n -> S] : IsInjective(g)
    BY <1>1, FS_CardinalityType DEF ExistsBijection, Bijection, Injection
<1>3. f \in [1 .. n -> S] /\ IsInjective(f)
    BY <1>1, <1>2, Zenon DEF SetToSeq
<1> QED BY <1>3

\* Two sequences, one after the other.
LEMMA JoinedSequences ==
    ASSUME NEW a, IsSequence(a), NEW b, IsSequence(b), NEW j, j = a \o b
    PROVE  /\ IsSequence(j) /\ Len(j) = Len(a) + Len(b)
           /\ \A i \in 1 .. Len(a) : j[i] = a[i]
           /\ \A i \in 1 .. Len(b) : j[Len(a) + i] = b[i]
<1>1. PICK T1 : a \in Seq(T1)
    BY DEF IsSequence
<1>2. PICK T2 : b \in Seq(T2)
    BY DEF IsSequence
<1>3. PICK T : T = T1 \cup T2
    OBVIOUS
<1>4. a \in Seq(T) /\ b \in Seq(T)
  <2>1. a \in [1 .. Len(a) -> T] /\ Len(a) \in Nat
      BY <1>1, <1>3
  <2>2. b \in [1 .. Len(b) -> T] /\ Len(b) \in Nat
      BY <1>2, <1>3
  <2>3. a \in Seq(T)
      BY <2>1
  <2>4. b \in Seq(T)
      BY <2>2
  <2> QED BY <2>3, <2>4
<1>5. j \in Seq(T) /\ Len(j) = Len(a) + Len(b)
    BY <1>4
<1>6. /\ \A i \in 1 .. Len(a) : j[i] = a[i]
      /\ \A i \in 1 .. Len(b) : j[Len(a) + i] = b[i]
    BY <1>4, Joined
<1> QED BY <1>5, <1>6 DEF IsSequence

\* j is a and then b.
Together(a, b, j) ==
    /\ IsSequence(j) /\ Len(j) = Len(a) + Len(b)
    /\ \A i \in 1 .. Len(a) : j[i] = a[i]
    /\ \A i \in 1 .. Len(b) : j[Len(a) + i] = b[i]

LEMMA JoinedTogether ==
    ASSUME NEW a, IsSequence(a), NEW b, IsSequence(b), NEW j, j = a \o b
    PROVE  Together(a, b, j)
<1>1. IsSequence(j) /\ Len(j) = Len(a) + Len(b)
    BY JoinedSequences
<1>2. /\ \A i \in 1 .. Len(a) : j[i] = a[i]
      /\ \A i \in 1 .. Len(b) : j[Len(a) + i] = b[i]
    BY JoinedSequences
<1> QED BY <1>1, <1>2, Zenon DEF Together

\* A timeline of id, as the ledger knew it with the history h.
Reading(tl, id, h) ==
    /\ tl # <<>> => tl[1].actionHash \in Envelope /\ ledgerId[tl[1].actionHash] = id
    /\ IncidentSource(tl) => h \in ReceiptHistory /\ Matches(tl, h)

\* What a run has in its hands.
RunRecord(x) ==
    /\ x = [phase |-> x.phase, timelines |-> x.timelines, results |-> x.results,
            history |-> x.history]
    /\ IsFiniteSet(DOMAIN x.results)
    /\ \A id \in DOMAIN x.results :
        /\ id \in LedgerActionId /\ x.timelines[id] # <<>>
        /\ x.results[id].retrySafe => classifyIntent(x.timelines[id]) = "not_committed"
    /\ \A id \in LedgerActionId : Reading(x.timelines[id], id, x.history[id])

ReconInv ==
    /\ LedgerInv
    /\ recon = [r \in ReconRun |-> recon[r]]
    /\ \A r \in ReconRun : RunRecord(recon[r])
    /\ IsSequence(findings) /\ OneOpenFindingPerAction

\* A run that has read nothing.
LEMMA IdlingRun == RunRecord(Idling)
<1>1. PICK T, H : T = [id \in LedgerActionId |-> <<>>] /\ H = [id \in {} |-> {}]
    OBVIOUS
<1>2. Idling = [phase |-> "idle", timelines |-> T, results |-> H, history |-> T]
    BY <1>1 DEF Idling
<1>3. PICK x : x = Idling
    OBVIOUS
<1>4. /\ x.phase = "idle" /\ x.timelines = T /\ x.results = H /\ x.history = T
      /\ x = [phase |-> x.phase, timelines |-> x.timelines, results |-> x.results,
              history |-> x.history]
    BY <1>2, <1>3
<1>5. DOMAIN x.results = {}
    BY <1>1, <1>4
<1>6. IsFiniteSet(DOMAIN x.results)
    BY <1>5, FS_EmptySet
<1>7. ASSUME NEW id \in LedgerActionId PROVE Reading(x.timelines[id], id, x.history[id])
  <2>1. x.timelines[id] = <<>>
      BY <1>1, <1>4
  <2>2. ~IncidentSource(<<>>)
      BY DEF IncidentSource, Having
  <2> QED BY <2>1, <2>2 DEF Reading
<1> QED BY <1>3, <1>4, <1>5, <1>6, <1>7 DEF RunRecord

\* What a run reads of the ledger.
LEMMA ReadingOfLedger ==
    ASSUME LedgerInv, NEW t \in LedgerTenant, NEW id \in LedgerActionId,
           NEW tl, tl = EntriesForAction(chain[t], id)
    PROVE  Reading(tl, id, recorded[t][id])
<1>1. IncidentSource(tl) => recorded[t][id] \in ReceiptHistory /\ Matches(tl, recorded[t][id])
    BY TimelineRead
<1>2. ASSUME tl # <<>> PROVE tl[1].actionHash \in Envelope /\ ledgerId[tl[1].actionHash] = id
  <2>1. PICK s : s = chain[t]
      OBVIOUS
  <2>2. IsSequence(s) /\ HashesTell(s)
      BY <2>1 DEF LedgerInv, GoodChains, GoodTenant
  <2>3. PICK N \in Nat : N = Len(s) /\ DOMAIN s = 1 .. N
      BY <2>2, SequenceLength
  <2>4. PICK b : b = Bodies(s)
      OBVIOUS
  <2>5. PICK places \in SUBSET (1 .. N) : places = Places(s, id)
      BY <2>3 DEF Places
  <2>6. tl = Kept(b, places)
      BY <2>1, <2>4, <2>5 DEF EntriesForAction, Bodies
  <2>7. PICK C : C = Cardinality(places)
      OBVIOUS
  <2>8. /\ C \in Nat /\ tl = [n \in 1 .. C |-> tl[n]]
        /\ \A n \in 1 .. C : \E i \in places : Before(places, i) = n - 1 /\ tl[n] = b[i]
      BY <2>6, <2>7, KeptPlaces
  <2>9. C # 0
    <3>1. CASE C = 0
      <4>1. tl = [n \in 1 .. 0 |-> tl[n]]
          BY <2>8, <3>1
      <4>2. IsSequence(tl) /\ Len(tl) = 0
          BY <4>1, FunctionSequence
      <4>3. tl = <<>>
          BY <4>2, SequenceLength
      <4> QED BY <1>2, <4>3
    <3> QED BY <3>1
  <2>10. PICK i \in places : tl[1] = b[i]
    <3>1. 1 \in 1 .. C
        BY <2>8, <2>9
    <3> QED BY <2>8, <3>1
  <2>11. i \in 1 .. N /\ b[i] = s[i].body /\ s[i].body.actionId = id
      BY <2>3, <2>4, <2>5 DEF Places, Bodies
  <2>12. HashTells(s[i].body)
      BY <2>2, <2>3, <2>11 DEF HashesTell
  <2> QED BY <2>10, <2>11, <2>12 DEF HashTells
<1> QED BY <1>1, <1>2 DEF Reading

\* The field of a run that a step writes.
LEMMA RunFields ==
    ASSUME NEW x, x = [phase |-> x.phase, timelines |-> x.timelines, results |-> x.results,
                       history |-> x.history], NEW p, NEW y, NEW z
    PROVE  /\ [x EXCEPT !.phase = p] =
                [phase |-> p, timelines |-> x.timelines, results |-> x.results, history |-> x.history]
           /\ [x EXCEPT !.results = y] =
                [phase |-> x.phase, timelines |-> x.timelines, results |-> y, history |-> x.history]
<1>1. PICK a, b, c, d : x = [phase |-> a, timelines |-> b, results |-> c, history |-> d]
    BY Zenon
<1>2. x.phase = a /\ x.timelines = b /\ x.results = c /\ x.history = d
    BY <1>1
<1>3. [x EXCEPT !.phase = p] = [phase |-> p, timelines |-> b, results |-> c, history |-> d]
    BY <1>1
<1>4. [x EXCEPT !.results = y] = [phase |-> a, timelines |-> b, results |-> y, history |-> d]
    BY <1>1
<1> QED BY <1>2, <1>3, <1>4

\* What a run in a later phase has in its hands.
LEMMA PhaseWritten ==
    ASSUME NEW x, RunRecord(x), NEW p, NEW y, y = [x EXCEPT !.phase = p]
    PROVE  RunRecord(y)
<1>1. y = [phase |-> p, timelines |-> x.timelines, results |-> x.results, history |-> x.history]
    BY RunFields DEF RunRecord
<1>2. PICK a, b, c : a = x.timelines /\ b = x.results /\ c = x.history
    OBVIOUS
<1>3. y = [phase |-> p, timelines |-> a, results |-> b, history |-> c]
    BY <1>1, <1>2
<1>4. y.phase = p /\ y.timelines = a /\ y.results = b /\ y.history = c
    BY <1>3
<1>5. y = [phase |-> y.phase, timelines |-> y.timelines, results |-> y.results,
           history |-> y.history]
    BY <1>3, <1>4
<1> QED BY <1>2, <1>4, <1>5, Zenon DEF RunRecord

\* A run that has asked about one action more.
Classified(x, id, presence) ==
    [x EXCEPT !.results = [i \in DOMAIN x.results \cup {id} |->
        IF i = id THEN decideOutcome(classifyIntent(x.timelines[id]), presence)
        ELSE x.results[i]]]

\* A run with one more result.
LEMMA ResultWritten ==
    ASSUME NEW x, RunRecord(x), NEW id \in LedgerActionId, x.timelines[id] # <<>>, NEW presence,
           NEW y, y = Classified(x, id, presence)
    PROVE  RunRecord(y)
<1>o. PICK o : o = decideOutcome(classifyIntent(x.timelines[id]), presence)
    OBVIOUS
<1>z. PICK z : z = [i \in DOMAIN x.results \cup {id} |-> IF i = id THEN o ELSE x.results[i]]
    OBVIOUS
<1>y. y = [x EXCEPT !.results = z]
    BY <1>o, <1>z DEF Classified
<1>1. y = [phase |-> x.phase, timelines |-> x.timelines, results |-> z, history |-> x.history]
    BY <1>y, RunFields DEF RunRecord
<1>2. PICK p, a, b, c : p = x.phase /\ a = x.timelines /\ b = x.results /\ c = x.history
    OBVIOUS
<1>3. y = [phase |-> p, timelines |-> a, results |-> z, history |-> c]
    BY <1>1, <1>2
<1>4. y.phase = p /\ y.timelines = a /\ y.results = z /\ y.history = c
    BY <1>3
<1>5. y = [phase |-> y.phase, timelines |-> y.timelines, results |-> y.results,
           history |-> y.history]
    BY <1>3, <1>4
<1>6. DOMAIN z = DOMAIN b \cup {id} /\ IsFiniteSet(DOMAIN z)
  <2>1. IsFiniteSet(DOMAIN b)
      BY <1>2 DEF RunRecord
  <2>2. DOMAIN z = DOMAIN b \cup {id}
      BY <1>2, <1>z
  <2> QED BY <2>1, <2>2, FS_AddElement
<1>7. ASSUME NEW i \in DOMAIN z
      PROVE  /\ i \in LedgerActionId /\ a[i] # <<>>
             /\ z[i].retrySafe => classifyIntent(a[i]) = "not_committed"
  <2>1. CASE i = id
    <3>1. z[i] = o
        BY <1>6, <1>z, <2>1
    <3>2. o.retrySafe => classifyIntent(a[i]) = "not_committed"
        BY <1>2, <1>o, <2>1, RetryNeedsNoIntent
    <3> QED BY <1>2, <2>1, <3>1, <3>2
  <2>2. CASE i # id
    <3>1. i \in DOMAIN b /\ z[i] = b[i]
        BY <1>2, <1>6, <1>z, <2>2
    <3> QED BY <1>2, <3>1 DEF RunRecord
  <2> QED BY <2>1, <2>2
<1>8. \A i \in LedgerActionId : Reading(a[i], i, c[i])
    BY <1>2 DEF RunRecord
<1> QED BY <1>4, <1>5, <1>6, <1>7, <1>8, Zenon DEF RunRecord

\* One run of several is written.
LEMMA OneRunWritten ==
    ASSUME recon = [r \in ReconRun |-> recon[r]], \A r \in ReconRun : RunRecord(recon[r]),
           NEW r \in ReconRun, NEW y, RunRecord(y), recon' = [recon EXCEPT ![r] = y]
    PROVE  recon' = [u \in ReconRun |-> recon'[u]] /\ \A u \in ReconRun : RunRecord(recon'[u])
<1>1. /\ recon' = [u \in ReconRun |-> recon'[u]] /\ recon'[r] = y
      /\ \A u \in ReconRun : u # r => recon'[u] = recon[u]
    OBVIOUS
<1>2. ASSUME NEW u \in ReconRun PROVE RunRecord(recon'[u])
  <2>1. CASE u = r
      BY <1>1, <2>1
  <2>2. CASE u # r
      BY <1>1, <2>2
  <2> QED BY <2>1, <2>2
<1> QED BY <1>1, <1>2

\* A step of a run leaves the ledger alone.
LEMMA LedgerAlone ==
    ASSUME LedgerInv, UNCHANGED ledgerVars
    PROVE  LedgerInv'
BY LedgerStep

\* exportTenant() is the reading of a run.
LEMMA StartStep ==
    ASSUME ReconInv, NEW r \in ReconRun, StartRun(r)
    PROVE  ReconInv'
<1>1. PICK T : T = [id \in LedgerActionId |-> EntriesForAction(chain[OwnTenant], id)]
    OBVIOUS
<1>2. PICK H : H = recorded[OwnTenant]
    OBVIOUS
<1>3. PICK x : x = [Idling EXCEPT !.phase = "classifying", !.timelines = T, !.history = H]
    OBVIOUS
<1>4. /\ recon' = [recon EXCEPT ![r] = x] /\ UNCHANGED ledgerVars /\ findings' = findings
    BY <1>1, <1>2, <1>3, Zenon DEF StartRun
<1>5. PICK b : b = [id \in {} |-> {}]
    OBVIOUS
<1>6. x = [phase |-> "classifying", timelines |-> T, results |-> b, history |-> H]
  <2>1. PICK a : a = [id \in LedgerActionId |-> <<>>]
      OBVIOUS
  <2>2. Idling = [phase |-> "idle", timelines |-> a, results |-> b, history |-> a]
      BY <1>5, <2>1 DEF Idling
  <2> QED BY <1>3, <2>2
<1>7. x.phase = "classifying" /\ x.timelines = T /\ x.results = b /\ x.history = H
    BY <1>6
<1>8. x = [phase |-> x.phase, timelines |-> x.timelines, results |-> x.results,
           history |-> x.history]
    BY <1>6, <1>7
<1>9. DOMAIN x.results = {} /\ IsFiniteSet(DOMAIN x.results)
  <2>1. DOMAIN b = {}
      BY <1>5
  <2> QED BY <1>7, <2>1, FS_EmptySet
<1>10. ASSUME NEW id \in LedgerActionId PROVE Reading(x.timelines[id], id, x.history[id])
  <2>1. OwnTenant \in LedgerTenant
      BY ReconciliationAssumption
  <2>2. PICK tl : tl = EntriesForAction(chain[OwnTenant], id)
      OBVIOUS
  <2>3. Reading(tl, id, recorded[OwnTenant][id])
      BY <2>1, <2>2, ReadingOfLedger DEF ReconInv
  <2>4. x.timelines[id] = tl
      BY <1>1, <1>7, <2>2
  <2> QED BY <1>2, <1>7, <2>3, <2>4
<1>11. RunRecord(x)
    BY <1>8, <1>9, <1>10 DEF RunRecord
<1>12. recon' = [u \in ReconRun |-> recon'[u]] /\ \A u \in ReconRun : RunRecord(recon'[u])
    BY <1>4, <1>11, OneRunWritten DEF ReconInv
<1>13. IsSequence(findings') /\ OneOpenFindingPerAction'
    BY <1>4 DEF ReconInv, OneOpenFindingPerAction
<1>14. LedgerInv'
    BY <1>4, LedgerAlone DEF ReconInv
<1> QED BY <1>12, <1>13, <1>14 DEF ReconInv

\* The provider is asked about one action.
LEMMA ClassifyStep ==
    ASSUME ReconInv, NEW r \in ReconRun, NEW id \in LedgerActionId, Classify(r, id)
    PROVE  ReconInv'
<1>1. PICK x : x = recon[r]
    OBVIOUS
<1>2. RunRecord(x)
    BY <1>1 DEF ReconInv
<1>3. PICK p : p = provider[id]
    OBVIOUS
<1>6. PICK y : y = Classified(x, id, p)
    OBVIOUS
<1>7. /\ id \in ToClassify(r) /\ recon' = [recon EXCEPT ![r] = y] /\ UNCHANGED ledgerVars
      /\ findings' = findings
    BY <1>1, <1>3, <1>6, Zenon DEF Classify, Classified
<1>8. x.timelines[id] # <<>>
    BY <1>1, <1>7 DEF ToClassify
<1>9. RunRecord(y)
    BY <1>2, <1>6, <1>8, ResultWritten
<1>10. recon' = [u \in ReconRun |-> recon'[u]] /\ \A u \in ReconRun : RunRecord(recon'[u])
    BY <1>7, <1>9, OneRunWritten DEF ReconInv
<1>11. IsSequence(findings') /\ OneOpenFindingPerAction'
    BY <1>7 DEF ReconInv, OneOpenFindingPerAction
<1>12. LedgerInv'
    BY <1>7, LedgerAlone DEF ReconInv
<1> QED BY <1>10, <1>11, <1>12 DEF ReconInv

OneOpen(f) ==
    \A a, b \in DOMAIN f :
        a # b /\ f[a].status = "open" /\ f[b].status = "open" => f[a].actionHash # f[b].actionHash

\* Two places of a sequence made of two parts: both in the first, one in each, or both in the second.
LEMMA TwoParts ==
    ASSUME NEW N \in Nat, NEW a \in Nat, NEW b \in Nat, a < b
    PROVE  b <= N \/ (a <= N /\ b > N) \/ a > N
OBVIOUS

LEMMA PlaceIsNumber ==
    ASSUME NEW N \in Nat, NEW n \in Nat, NEW a \in 1 .. N + n
    PROVE  a \in Nat
OBVIOUS

LEMMA PlacesBefore ==
    ASSUME NEW N \in Nat, NEW n \in Nat, NEW a \in 1 .. N + n, NEW b \in 1 .. N + n,
           a < b, b <= N
    PROVE  a \in 1 .. N /\ b \in 1 .. N /\ a # b
OBVIOUS

LEMMA PlacesAfter ==
    ASSUME NEW N \in Nat, NEW n \in Nat, NEW a \in 1 .. N + n, NEW b \in 1 .. N + n,
           a < b, a > N
    PROVE  \E k, l \in 1 .. n : b = N + k /\ a = N + l /\ k # l
<1>1. b - N \in 1 .. n /\ b = N + (b - N) /\ a - N \in 1 .. n /\ a = N + (a - N)
    OBVIOUS
<1>2. b - N # a - N
    OBVIOUS
<1> QED BY <1>1, <1>2

OpenApart(j, M) ==
    /\ DOMAIN j = 1 .. M
    /\ \A a, b \in 1 .. M :
          a < b /\ j[a].status = "open" /\ j[b].status = "open" => j[a].actionHash # j[b].actionHash

\* It is enough to compare each finding with the later ones.
LEMMA LaterOnes ==
    ASSUME NEW j, NEW M \in Nat, OpenApart(j, M)
    PROVE  OneOpen(j)
<1> SUFFICES ASSUME NEW a \in 1 .. M, NEW b \in 1 .. M, a # b, j[a].status = "open", j[b].status = "open"
             PROVE  j[a].actionHash # j[b].actionHash
    BY DEF OneOpen, OpenApart
<1>1. a < b \/ b < a
    OBVIOUS
<1> QED BY <1>1 DEF OpenApart

\* The findings that a run saves are of actions without an open one, each once.
LEMMA SavedFindings ==
    ASSUME ReconInv, NEW r \in ReconRun, NEW new, new = SetToSeq(Reported(r)),
           NEW g, g = [i \in DOMAIN new |->
                [actionHash |-> ActionHash(r, new[i]), status |-> "open",
                 classification |-> recon[r].results[new[i]].outcome]],
           NEW j, j = findings \o g
    PROVE  IsSequence(j) /\ OneOpen(j)
<1>1. PICK x : x = recon[r]
    OBVIOUS
<1>2. RunRecord(x)
    BY <1>1 DEF ReconInv
<1>3. PICK S : S = Reported(r)
    OBVIOUS
<1>4. \A id \in S : id \in DOMAIN x.results /\ ~Open(ActionHash(r, id))
    BY <1>1, <1>3 DEF Reported, ToReport
<1>5. IsFiniteSet(S)
  <2>1. S \in SUBSET DOMAIN x.results /\ IsFiniteSet(DOMAIN x.results)
      BY <1>2, <1>4 DEF RunRecord
  <2> QED BY <2>1, FS_Subset
<1>6. PICK n \in Nat : new \in [1 .. n -> S] /\ IsInjective(new)
    BY <1>3, <1>5, OrderedSet
<1>7. ASSUME NEW id \in S
      PROVE  ActionHash(r, id) \in Envelope /\ ledgerId[ActionHash(r, id)] = id
  <2>1. id \in LedgerActionId /\ x.timelines[id] # <<>> /\ Reading(x.timelines[id], id, x.history[id])
      BY <1>2, <1>4 DEF RunRecord
  <2> QED BY <1>1, <2>1 DEF Reading, ActionHash
<1>8. g = [i \in 1 .. n |-> g[i]]
    BY <1>6
<1>9. IsSequence(g) /\ Len(g) = n
    BY <1>8, FunctionSequence
<1>10. ASSUME NEW i \in 1 .. n
       PROVE  new[i] \in S /\ g[i].actionHash = ActionHash(r, new[i])
    BY <1>6
<1>11. PICK f : f = findings
    OBVIOUS
<1>12. IsSequence(f)
    BY <1>11 DEF ReconInv
<1>13. PICK N \in Nat : N = Len(f) /\ DOMAIN f = 1 .. N
    BY <1>12, SequenceLength
<1>15. /\ IsSequence(j) /\ Len(j) = N + n /\ \A i \in 1 .. N : j[i] = f[i]
       /\ \A i \in 1 .. n : j[N + i] = g[i]
  <2>1. j = f \o g
      BY <1>11
  <2>2. Together(f, g, j)
      BY <1>9, <1>12, <2>1, JoinedTogether, Zenon
  <2>3. Len(f) = N /\ Len(g) = n
      BY <1>9, <1>13, Zenon
  <2> QED BY <2>2, <2>3, Zenon DEF Together
<1>16. DOMAIN j = 1 .. N + n
    BY <1>15, SequenceLength
<1>17. ASSUME NEW a \in 1 .. N + n, NEW b \in 1 .. N + n, a < b,
              j[a].status = "open", j[b].status = "open"
       PROVE  j[a].actionHash # j[b].actionHash
  <2>1. CASE b <= N
    <3>1. a \in 1 .. N /\ b \in 1 .. N /\ a # b
        BY <1>17, <2>1, PlacesBefore, Zenon
    <3>2. j[a] = f[a] /\ j[b] = f[b]
        BY <1>15, <3>1
    <3> QED BY <1>11, <1>13, <1>17, <3>1, <3>2 DEF ReconInv, OneOpenFindingPerAction
  <2>2. CASE a <= N /\ b > N
    <3>1. PICK k \in 1 .. n : b = N + k
      <4>1. b - N \in 1 .. n /\ b = N + (b - N)
          BY <2>2
      <4> QED BY <4>1
    <3>a. a \in 1 .. N
        BY <2>2
    <3>b. j[b] = g[k]
        BY <1>15, <3>1
    <3>2. j[b] = g[k] /\ j[a] = f[a] /\ a \in DOMAIN f
        BY <1>13, <1>15, <3>a, <3>b
    <3>3. ~Open(g[k].actionHash)
        BY <1>4, <1>10
    <3> QED BY <1>11, <1>17, <3>2, <3>3 DEF Open
  <2>3. CASE a > N
    <3>3. PICK k, l \in 1 .. n : b = N + k /\ a = N + l /\ k # l
        BY <1>17, <2>3, PlacesAfter, Zenon
    <3>4. new[k] # new[l]
        BY <1>6, <3>3 DEF IsInjective
    <3>5. g[k].actionHash # g[l].actionHash
      <4>1. PICK u \in S, v \in S : u = new[k] /\ v = new[l]
          BY <1>10
      <4>2. ActionHash(r, u) # ActionHash(r, v)
          BY <1>7, <3>4, <4>1
      <4> QED BY <1>10, <4>1, <4>2
    <3> QED BY <1>15, <3>3, <3>5
  <2>4. a \in Nat /\ b \in Nat /\ a < b
      BY <1>17, PlaceIsNumber, Zenon
  <2>5. b <= N \/ (a <= N /\ b > N) \/ a > N
      BY <2>4, TwoParts
  <2> QED BY <2>1, <2>2, <2>3, <2>5, Zenon
<1>18. OneOpen(j)
  <2>1. \A a, b \in 1 .. N + n :
            a < b /\ j[a].status = "open" /\ j[b].status = "open" => j[a].actionHash # j[b].actionHash
      BY <1>17, Zenon
  <2>2. PICK M \in Nat : M = N + n
      OBVIOUS
  <2>3. OpenApart(j, M)
      BY <1>16, <2>1, <2>2, Zenon DEF OpenApart
  <2> QED BY <2>3, LaterOnes
<1> QED BY <1>15, <1>18

\* The findings of a run are saved.
LEMMA SaveStep ==
    ASSUME ReconInv, NEW r \in ReconRun, SaveFindings(r)
    PROVE  ReconInv'
<1>1. PICK x : x = recon[r]
    OBVIOUS
<1>2. PICK y : y = [x EXCEPT !.phase = "sampling"]
    OBVIOUS
<1>3. PICK new : new = SetToSeq(Reported(r))
    OBVIOUS
<1>4. PICK g : g = [i \in DOMAIN new |->
                [actionHash |-> ActionHash(r, new[i]), status |-> "open",
                 classification |-> recon[r].results[new[i]].outcome]]
    OBVIOUS
<1>j. PICK j : j = findings \o g
    OBVIOUS
<1>5. /\ findings' = j /\ recon' = [recon EXCEPT ![r] = y] /\ UNCHANGED ledgerVars
    BY <1>1, <1>2, <1>3, <1>4, <1>j, Zenon DEF SaveFindings
<1>6. IsSequence(findings') /\ OneOpenFindingPerAction'
  <2>1. IsSequence(j) /\ OneOpen(j)
      BY <1>3, <1>4, <1>j, SavedFindings
  <2> QED BY <1>5, <2>1 DEF OneOpen, OneOpenFindingPerAction
<1>7. RunRecord(y)
    BY <1>1, <1>2, PhaseWritten DEF ReconInv
<1>8. recon' = [u \in ReconRun |-> recon'[u]] /\ \A u \in ReconRun : RunRecord(recon'[u])
    BY <1>5, <1>7, OneRunWritten DEF ReconInv
<1>9. LedgerInv'
    BY <1>5, LedgerAlone DEF ReconInv
<1> QED BY <1>6, <1>8, <1>9 DEF ReconInv

\* A run that ends, with its samples or without.
LEMMA EndStep ==
    ASSUME ReconInv, NEW r \in ReconRun, RecordSamples(r) \/ RunEnds(r)
    PROVE  ReconInv'
<1>1. /\ recon' = [recon EXCEPT ![r] = Idling] /\ UNCHANGED ledgerVars /\ findings' = findings
    BY Zenon DEF RecordSamples, RunEnds
<1>2. recon' = [u \in ReconRun |-> recon'[u]] /\ \A u \in ReconRun : RunRecord(recon'[u])
    BY <1>1, IdlingRun, OneRunWritten DEF ReconInv
<1>3. IsSequence(findings') /\ OneOpenFindingPerAction'
    BY <1>1 DEF ReconInv, OneOpenFindingPerAction
<1>4. LedgerInv'
    BY <1>1, LedgerAlone DEF ReconInv
<1> QED BY <1>2, <1>3, <1>4 DEF ReconInv

\* A finding that is resolved is no longer open.
LEMMA ResolveStep ==
    ASSUME ReconInv, NEW i \in DOMAIN findings, Resolve(i)
    PROVE  ReconInv'
<1>1. PICK f : f = findings
    OBVIOUS
<1>2. PICK x : x = [f[i] EXCEPT !.status = "resolved"]
    OBVIOUS
<1>3. /\ findings' = [f EXCEPT ![i] = x] /\ recon' = recon /\ UNCHANGED ledgerVars
    BY <1>1, <1>2, Zenon DEF Resolve
<1>4. PICK N \in Nat : N = Len(f) /\ DOMAIN f = 1 .. N
    BY <1>1, SequenceLength DEF ReconInv
<1>5. f[i].status = "open"
    BY <1>1 DEF Resolve
<1>6. x.status # "open"
  <2>1. x.status = "resolved" \/ x.status = f[i].status
      BY <1>2
  <2> QED BY <1>2, <1>5, <2>1
<1>7. PICK j : j = findings'
    OBVIOUS
<1>8. j = [k \in 1 .. N |-> j[k]] /\ j[i] = x /\ \A k \in 1 .. N : k # i => j[k] = f[k]
  <2>1. f = [k \in 1 .. N |-> f[k]]
      BY <1>1, <1>4, SequenceLength DEF ReconInv
  <2> QED BY <1>1, <1>3, <1>4, <1>7, <2>1
<1>9. IsSequence(j) /\ DOMAIN j = 1 .. N
    BY <1>8, FunctionSequence
<1>10. \A a, b \in 1 .. N :
        a # b /\ j[a].status = "open" /\ j[b].status = "open" => j[a].actionHash # j[b].actionHash
    BY <1>1, <1>4, <1>6, <1>8 DEF ReconInv, OneOpenFindingPerAction
<1>11. IsSequence(findings') /\ OneOpenFindingPerAction'
    BY <1>7, <1>9, <1>10 DEF OneOpenFindingPerAction
<1>12. recon' = [u \in ReconRun |-> recon'[u]] /\ \A u \in ReconRun : RunRecord(recon'[u])
    BY <1>3 DEF ReconInv
<1>13. LedgerInv'
    BY <1>3, LedgerAlone DEF ReconInv
<1> QED BY <1>11, <1>12, <1>13 DEF ReconInv

\* What the ledger does meanwhile is a step of the ledger.
LEMMA LedgerMovesStep ==
    ASSUME LedgerInv, LedgerMoves
    PROVE  LedgerInv' /\ HeldStay
<1>1. OwnTenant \in LedgerTenant
    BY ReconciliationAssumption
<1>2. CASE LedgerTick
    BY <1>2, LedgerStep DEF LedgerNext
<1>3. CASE RecordSomething(OwnTenant)
    BY <1>1, <1>3, RecordSomethingStep
<1>4. ASSUME NEW days \in RetentionDays, ConfigureRetention(OwnTenant, days)
      PROVE  LedgerInv' /\ HeldStay
    BY <1>1, <1>4, RetentionStep
<1> QED BY <1>2, <1>3, <1>4 DEF LedgerMoves

\* Every step keeps the invariant, and what is held.
LEMMA ReconStep ==
    ASSUME ReconInv, ReconNext \/ UNCHANGED reconVars
    PROVE  ReconInv' /\ HeldStay
<1>0. ASSUME recon' = recon, findings' = findings, LedgerInv' PROVE ReconInv'
    BY <1>0 DEF ReconInv, OneOpenFindingPerAction
<1>1. CASE UNCHANGED reconVars
  <2>1. recon' = recon /\ findings' = findings /\ UNCHANGED ledgerVars
      BY <1>1 DEF reconVars, reconOnly
  <2> QED BY <1>0, <2>1, LedgerStep DEF ReconInv
<1>2. CASE LedgerMoves
  <2>1. recon' = recon /\ findings' = findings
      BY <1>2 DEF LedgerMoves, reconOnly
  <2> QED BY <1>0, <1>2, <2>1, LedgerMovesStep DEF ReconInv
<1>3. ASSUME UNCHANGED ledgerVars PROVE HeldStay
    BY <1>3, LedgerStep DEF ReconInv
<1>4. ASSUME NEW r \in ReconRun, StartRun(r) PROVE ReconInv' /\ HeldStay
  <2>1. UNCHANGED ledgerVars
      BY <1>4, Zenon DEF StartRun
  <2> QED BY <1>3, <1>4, <2>1, StartStep
<1>5. ASSUME NEW r \in ReconRun, SaveFindings(r) PROVE ReconInv' /\ HeldStay
  <2>1. UNCHANGED ledgerVars
      BY <1>5, Zenon DEF SaveFindings
  <2> QED BY <1>3, <1>5, <2>1, SaveStep
<1>6. ASSUME NEW r \in ReconRun, RecordSamples(r) \/ RunEnds(r) PROVE ReconInv' /\ HeldStay
  <2>1. UNCHANGED ledgerVars
      BY <1>6, Zenon DEF RecordSamples, RunEnds
  <2> QED BY <1>3, <1>6, <2>1, EndStep
<1>7. ASSUME NEW r \in ReconRun, NEW id \in LedgerActionId, Classify(r, id)
      PROVE  ReconInv' /\ HeldStay
  <2>1. UNCHANGED ledgerVars
      BY <1>7, Zenon DEF Classify
  <2> QED BY <1>3, <1>7, <2>1, ClassifyStep
<1>8. ASSUME NEW i \in DOMAIN findings, Resolve(i) PROVE ReconInv' /\ HeldStay
  <2>1. UNCHANGED ledgerVars
      BY <1>8, Zenon DEF Resolve
  <2> QED BY <1>3, <1>8, <2>1, ResolveStep
<1>9. ASSUME NEW id \in LedgerActionId, NEW presence \in Presence, ProviderChanges(id, presence)
      PROVE  ReconInv' /\ HeldStay
  <2>1. UNCHANGED ledgerVars /\ recon' = recon /\ findings' = findings
      BY <1>9, Zenon DEF ProviderChanges
  <2> QED BY <1>0, <1>3, <2>1, LedgerAlone DEF ReconInv
<1> QED BY <1>1, <1>2, <1>4, <1>5, <1>6, <1>7, <1>8, <1>9 DEF ReconNext

\* Before any run.
LEMMA ReconInitially == ReconInit => ReconInv
<1> SUFFICES ASSUME ReconInit PROVE ReconInv
    OBVIOUS
<1>1. LedgerInv
    BY LedgerInitially DEF ReconInit
<1>2. recon = [r \in ReconRun |-> Idling] /\ findings = <<>>
    BY DEF ReconInit
<1>3. recon = [r \in ReconRun |-> recon[r]] /\ \A r \in ReconRun : RunRecord(recon[r])
    BY <1>2, IdlingRun
<1>4. IsSequence(<<>>) /\ DOMAIN <<>> = {}
  <2>1. <<>> \in Seq({})
      OBVIOUS
  <2> QED BY <2>1 DEF IsSequence
<1>5. IsSequence(findings) /\ OneOpenFindingPerAction
    BY <1>2, <1>4 DEF OneOpenFindingPerAction
<1> QED BY <1>1, <1>3, <1>5 DEF ReconInv

\* What the invariant says of a retry.
LEMMA RetriesAreSafe == ReconInv => FindingsAreSound
<1> SUFFICES ASSUME ReconInv PROVE RetrySafeWasNeverAttempted
    BY DEF FindingsAreSound, ReconInv
<1> SUFFICES ASSUME NEW r \in ReconRun, NEW id \in DOMAIN recon[r].results,
                    recon[r].results[id].retrySafe, IncidentSource(recon[r].timelines[id]),
                    NEW i \in DOMAIN recon[r].history[id], recon[r].history[id][i] = "attempted"
             PROVE  FALSE
    BY DEF RetrySafeWasNeverAttempted
<1>1. PICK x : x = recon[r]
    OBVIOUS
<1>2. PICK tl : tl = x.timelines[id]
    OBVIOUS
<1>3. PICK h : h = x.history[id]
    OBVIOUS
<1>4. RunRecord(x)
    BY <1>1 DEF ReconInv
<1>5. id \in LedgerActionId /\ classifyIntent(tl) = "not_committed"
    BY <1>1, <1>2, <1>4 DEF RunRecord
<1>6. Reading(tl, id, h)
    BY <1>2, <1>3, <1>4, <1>5 DEF RunRecord
<1>7. h \in ReceiptHistory /\ Matches(tl, h)
    BY <1>1, <1>2, <1>6 DEF Reading
<1>8. i \in DOMAIN h /\ h[i] = "attempted"
    BY <1>1, <1>3
<1> QED BY <1>5, <1>7, <1>8, AttemptedTimeline

\* However many runs look at an action at once, while the ledger is rotated and the provider
\* changes, it has one open finding at most, and no run calls the retry of an action safe that
\* was attempted, unless its intent was gone when the run read the ledger.
THEOREM ReconciliationIsSound == ReconSpec => []FindingsAreSound
<1>1. ReconInit => ReconInv
    BY ReconInitially
<1>2. ReconInv /\ [ReconNext]_reconVars => ReconInv'
    BY ReconStep
<1>3. ReconInv => FindingsAreSound
    BY RetriesAreSafe
<1> QED BY <1>1, <1>2, <1>3, PTL DEF ReconSpec

\* Sequences joined one after the other, as a function of how many of them there were.
Flattening(xs, N, f) ==
    f = [i \in 1 .. N |-> IF i = 1 THEN xs[i] ELSE f[i - 1] \o xs[i]]

\* There is such a function.
LEMMA FlatteningExists ==
    ASSUME NEW xs, NEW N \in Nat
    PROVE  \E f : Flattening(xs, N, f)
<1> DEFINE Step(f, n) == IF n = 1 THEN xs[n] ELSE f[n - 1] \o xs[n]
           Good(m, f) == f = [n \in 1 .. m |-> f[n]] /\ \A n \in 1 .. m : f[n] = Step(f, n)
           Ns == {m \in 0 .. N : \E f : Good(m, f)}
<1>1. 0 \in Ns
  <2>1. PICK f : f = [n \in 1 .. 0 |-> xs]
      OBVIOUS
  <2>2. f = [n \in 1 .. 0 |-> f[n]] /\ \A n \in 1 .. 0 : FALSE
      BY <2>1
  <2>3. Good(0, f)
      BY <2>2, Zenon
  <2> HIDE DEF Good
  <2> QED BY <2>3
<1>2. ASSUME NEW m \in 0 .. N - 1, m \in Ns PROVE m + 1 \in Ns
  <2>1. PICK f : Good(m, f)
    <3> HIDE DEF Good
    <3> QED BY <1>2
  <2>2. PICK x : x = Step(f, m + 1)
      OBVIOUS
  <2>3. PICK g : g = [n \in 1 .. m + 1 |-> IF n = m + 1 THEN x ELSE f[n]]
      OBVIOUS
  <2>4. g = [n \in 1 .. m + 1 |-> g[n]] /\ g[m + 1] = x /\ \A n \in 1 .. m : g[n] = f[n]
    <3> HIDE DEF Step, Good, Ns
    <3> QED BY <1>2, <2>3
  <2>5. ASSUME NEW n \in 1 .. m + 1 PROVE Step(g, n) = Step(f, n)
    <3>1. n = 1 \/ n - 1 \in 1 .. m
        BY <1>2
    <3>2. n = 1 \/ g[n - 1] = f[n - 1]
        BY <2>4, <3>1
    <3> QED BY <3>2, Zenon
  <2>6. \A n \in 1 .. m + 1 : g[n] = Step(g, n)
    <3>1. \A n \in 1 .. m : f[n] = Step(f, n)
        BY <2>1
    <3> HIDE DEF Step, Good
    <3>2. ASSUME NEW n \in 1 .. m + 1 PROVE g[n] = Step(f, n)
      <4>1. CASE n = m + 1
          BY <2>2, <2>4, <4>1
      <4>2. CASE n # m + 1
        <5>1. n \in 1 .. m
            BY <1>2, <4>2
        <5> QED BY <2>4, <3>1, <5>1
      <4> QED BY <4>1, <4>2
    <3> QED BY <2>5, <3>2
  <2>7. Good(m + 1, g)
    <3> HIDE DEF Step
    <3> QED BY <2>4, <2>6
  <2>8. m + 1 \in 0 .. N
      BY <1>2
  <2> HIDE DEF Good
  <2> QED BY <2>7, <2>8
<1>3. PICK f : Good(N, f)
  <2>1. 0 .. N \subseteq Ns
    <3> HIDE DEF Ns
    <3> QED BY <1>1, <1>2, NumbersUpTo
  <2> HIDE DEF Good
  <2>2. N \in Ns
      BY <2>1
  <2> QED BY <2>2
<1>4. f = [n \in 1 .. N |-> Step(f, n)]
  <2> HIDE DEF Step
  <2> QED BY <1>3
<1> QED BY <1>4, Zenon DEF Flattening

\* Sequences that are joined are a sequence.
LEMMA FlattenedSequence ==
    ASSUME NEW xs, IsSequence(xs), \A i \in 1 .. Len(xs) : IsSequence(xs[i])
    PROVE  IsSequence(FlattenSeq(xs))
<1>1. PICK N \in Nat : N = Len(xs)
    BY SequenceLength
<1>2. CASE N = 0
  <2>1. FlattenSeq(xs) = xs
      BY <1>1, <1>2 DEF FlattenSeq
  <2> QED BY <2>1
<1>3. CASE N # 0
  <2>1. PICK f : f = CHOOSE g : Flattening(xs, N, g)
      OBVIOUS
  <2>2. Flattening(xs, N, f)
    <3>1. \E g : Flattening(xs, N, g)
        BY FlatteningExists
    <3> QED BY <2>1, <3>1, Zenon
  <2>3. FlattenSeq(xs) = f[N]
      BY <1>1, <1>3, <2>1, Zenon DEF FlattenSeq, Flattening
  <2> DEFINE S == {n \in 0 .. N : n = 0 \/ IsSequence(f[n])}
  <2>4. ASSUME NEW n \in 0 .. N - 1, n \in S PROVE n + 1 \in S
    <3>1. n + 1 \in 1 .. N /\ n + 1 \in 0 .. N
        BY <2>4
    <3>2. IsSequence(xs[n + 1])
        BY <1>1, <3>1
    <3>3. CASE n = 0
      <4>1. f[n + 1] = xs[n + 1]
          BY <2>2, <3>1, <3>3 DEF Flattening
      <4> QED BY <3>1, <3>2, <4>1
    <3>4. CASE n # 0
      <4>1. PICK a, b, j : a = f[n] /\ b = xs[n + 1] /\ j = f[n + 1]
          OBVIOUS
      <4>2. n + 1 # 1 /\ (n + 1) - 1 = n
          BY <2>4, <3>4
      <4>3. f[n + 1] = f[(n + 1) - 1] \o xs[n + 1]
          BY <2>2, <3>1, <4>2 DEF Flattening
      <4>4. j = a \o b
          BY <4>1, <4>2, <4>3, Zenon
      <4>5. IsSequence(a) /\ IsSequence(b)
          BY <2>4, <3>2, <3>4, <4>1
      <4>6. IsSequence(j)
          BY <4>4, <4>5, JoinedSequences
      <4> QED BY <3>1, <4>1, <4>6
    <3> QED BY <3>3, <3>4
  <2>5. 0 .. N \subseteq S
    <3>1. 0 \in S
        OBVIOUS
    <3> HIDE DEF S
    <3> QED BY <2>4, <3>1, NumbersUpTo
  <2>6. N \in S
      BY <2>5
  <2> QED BY <1>3, <2>3, <2>6
<1> QED BY <1>2, <1>3

\* The places of a metric, among some of them, and the places from i on of i's metric.
OfMetric(s, P, m) == {i \in P : s[i].metric = m}
SameMetricFrom(s, L, i) == {j \in i .. L : s[j].metric = s[i].metric}

\* The first of the places of a metric has the others after it.
LEMMA FewOfMetric ==
    ASSUME NEW L \in Nat, NEW s, NEW P \in SUBSET (1 .. L), NEW bound \in Nat, NEW m,
           \A i \in P : Cardinality(SameMetricFrom(s, L, i)) <= bound
    PROVE  IsFiniteSet(OfMetric(s, P, m)) /\ Cardinality(OfMetric(s, P, m)) <= bound
<1>1. PICK Q : Q = OfMetric(s, P, m)
    OBVIOUS
<1>2. Q \in SUBSET (1 .. L) /\ Q \subseteq P /\ \A i \in Q : s[i].metric = m
    BY <1>1 DEF OfMetric
<1>3. IsFiniteSet(1 .. L)
    BY FS_Interval
<1>4. IsFiniteSet(Q) /\ Cardinality(Q) \in Nat
    BY <1>2, <1>3, FS_Subset, FS_CardinalityType
<1>5. CASE Q = {}
  <2>1. Cardinality(Q) = 0
      BY <1>5, FS_EmptySet
  <2> QED BY <1>1, <1>4, <2>1
<1>6. CASE Q # {}
  <2>1. PICK i \in Q : \A j \in Q : i <= j
    <3>1. Q \in SUBSET Nat
        BY <1>2
    <3> QED BY <1>6, <3>1, LeastNumber
  <2>2. PICK R : R = SameMetricFrom(s, L, i)
      OBVIOUS
  <2>3. Q \subseteq R
      BY <1>2, <2>1, <2>2 DEF SameMetricFrom
  <2>4. R \subseteq 1 .. L
      BY <1>2, <2>1, <2>2 DEF SameMetricFrom
  <2>5. IsFiniteSet(R) /\ Cardinality(R) \in Nat
      BY <1>3, <2>4, FS_Subset, FS_CardinalityType
  <2>6. Cardinality(Q) <= Cardinality(R)
      BY <2>3, <2>5, FS_Subset
  <2>7. Cardinality(R) <= bound
      BY <1>2, <2>1, <2>2
  <2> QED BY <1>1, <1>4, <2>5, <2>6, <2>7
<1> QED BY <1>5, <1>6

\* What a filter keeps of a metric stood at different places.
LEMMA KeptOfMetric ==
    ASSUME NEW L \in Nat, NEW s, NEW P \in SUBSET (1 .. L), NEW q, q = Kept(s, P), NEW C,
           C = Cardinality(P), NEW m, NEW bound \in Nat,
           IsFiniteSet(OfMetric(s, P, m)), Cardinality(OfMetric(s, P, m)) <= bound
    PROVE  IsFiniteSet(OfMetric(q, 1 .. C, m)) /\ Cardinality(OfMetric(q, 1 .. C, m)) <= bound
<1>1. /\ C \in Nat
      /\ \A n \in 1 .. C : \E i \in P : Before(P, i) = n - 1 /\ q[n] = s[i]
    BY KeptPlaces
<1>2. PICK A, B : A = OfMetric(q, 1 .. C, m) /\ B = OfMetric(s, P, m)
    OBVIOUS
<1> DEFINE g == [n \in A |-> CHOOSE i \in P : Before(P, i) = n - 1 /\ q[n] = s[i]]
<1>3. ASSUME NEW n \in A PROVE n \in 1 .. C /\ g[n] \in B /\ Before(P, g[n]) = n - 1
  <2>1. n \in 1 .. C /\ q[n].metric = m
      BY <1>2, <1>3 DEF OfMetric
  <2>2. \E i \in P : Before(P, i) = n - 1 /\ q[n] = s[i]
      BY <1>1, <2>1
  <2>3. PICK i : i = CHOOSE k \in P : Before(P, k) = n - 1 /\ q[n] = s[k]
      OBVIOUS
  <2>4. i \in P /\ Before(P, i) = n - 1 /\ q[n] = s[i]
      BY <2>2, <2>3, Zenon
  <2>5. g[n] = i
      BY <1>3, <2>3, Zenon
  <2> HIDE DEF g
  <2> QED BY <1>2, <2>1, <2>4, <2>5 DEF OfMetric
<1>4. g \in [A -> B]
    BY <1>3
<1> HIDE DEF g
<1>5. ASSUME NEW a \in A, NEW b \in A, g[a] = g[b] PROVE a = b
  <2>1. a - 1 = b - 1
      BY <1>3, <1>5
  <2>2. a \in Nat /\ b \in Nat
      BY <1>1, <1>3
  <2> QED BY <2>1, <2>2
<1>6. g \in Injection(A, B)
    BY <1>4, <1>5 DEF Injection, IsInjective
<1>7. IsFiniteSet(A) /\ Cardinality(A) <= Cardinality(B)
    BY <1>2, <1>6, FS_Injection
<1>8. Cardinality(A) \in Nat /\ Cardinality(B) \in Nat
    BY <1>2, <1>7, FS_CardinalityType
<1> QED BY <1>2, <1>7, <1>8

\* The samples within their limits.
FewSamples(s) ==
    /\ IsSequence(s) /\ Len(s) <= MaxSamples
    /\ \A m : /\ IsFiniteSet(OfMetric(s, 1 .. Len(s), m))
              /\ Cardinality(OfMetric(s, 1 .. Len(s), m)) <= MaxSamplesPerMetric

\* trimSamples() keeps to the limits, whatever there is.
LEMMA TrimmedSamples ==
    ASSUME NEW all, IsSequence(all)
    PROVE  FewSamples(trimSamples(all))
<1>0. MaxSamples \in Nat /\ MaxSamplesPerMetric \in Nat
    BY ReconciliationAssumption
<1>1. PICK N \in Nat : N = Len(all) /\ DOMAIN all = 1 .. N
    BY SequenceLength
<1>2. PICK P0 : P0 = {i \in DOMAIN all : all[i].recordedAt >= now - SampleWindow}
    OBVIOUS
<1>3. P0 \in SUBSET (1 .. N)
    BY <1>1, <1>2
<1>4. PICK recent : recent = Kept(all, P0)
    OBVIOUS
<1>5. PICK L : L = Cardinality(P0)
    OBVIOUS
<1>6. L \in Nat /\ recent = [n \in 1 .. L |-> recent[n]]
    BY <1>3, <1>4, <1>5, KeptPlaces
<1>7. IsSequence(recent) /\ Len(recent) = L /\ DOMAIN recent = 1 .. L
    BY <1>6, FunctionSequence
<1>8. PICK P : P = {i \in DOMAIN recent :
            Cardinality({j \in i .. Len(recent) : recent[j].metric = recent[i].metric})
                <= MaxSamplesPerMetric}
    OBVIOUS
<1>9. P = {i \in DOMAIN recent : Cardinality(SameMetricFrom(recent, Len(recent), i)) <= MaxSamplesPerMetric}
    BY <1>8, Zenon DEF SameMetricFrom
<1>10. /\ P \in SUBSET (1 .. L)
       /\ \A i \in P : Cardinality(SameMetricFrom(recent, L, i)) <= MaxSamplesPerMetric
    BY <1>7, <1>9
<1>11. PICK sized : sized = Kept(recent, P)
    OBVIOUS
<1>12. PICK C : C = Cardinality(P)
    OBVIOUS
<1>13. C \in Nat /\ sized = [n \in 1 .. C |-> sized[n]]
    BY <1>6, <1>10, <1>11, <1>12, KeptPlaces
<1>14. IsSequence(sized) /\ Len(sized) = C
    BY <1>13, FunctionSequence
<1>15. ASSUME NEW m
       PROVE  /\ IsFiniteSet(OfMetric(sized, 1 .. C, m))
              /\ Cardinality(OfMetric(sized, 1 .. C, m)) <= MaxSamplesPerMetric
  <2>1. /\ IsFiniteSet(OfMetric(recent, P, m))
        /\ Cardinality(OfMetric(recent, P, m)) <= MaxSamplesPerMetric
      BY <1>0, <1>6, <1>10, FewOfMetric
  <2> QED BY <1>0, <1>6, <1>10, <1>11, <1>12, <2>1, KeptOfMetric
<1>16. trimSamples(all) = IF Len(sized) <= MaxSamples THEN sized
                          ELSE SubSeq(sized, Len(sized) - MaxSamples + 1, Len(sized))
    BY <1>2, <1>4, <1>8, <1>11, Zenon DEF trimSamples
<1>17. CASE C <= MaxSamples
  <2>1. trimSamples(all) = sized
      BY <1>14, <1>16, <1>17
  <2> QED BY <1>14, <1>15, <1>17, <2>1 DEF FewSamples
<1>18. CASE ~(C <= MaxSamples)
  <2>1. PICK d \in Nat : d = C - MaxSamples
      BY <1>0, <1>13, <1>18
  <2>2. PICK q : q = SubSeq(sized, d + 1, C)
      OBVIOUS
  <2>3. trimSamples(all) = q
      BY <1>14, <1>16, <1>18, <2>1, <2>2
  <2>4. q = [n \in 1 .. MaxSamples |-> q[n]] /\ \A n \in 1 .. MaxSamples : q[n] = sized[d + n]
    <3>1. PICK T : sized \in Seq(T)
        BY <1>14 DEF IsSequence
    <3>2. d + 1 \in Int /\ C \in Int /\ \A i \in d + 1 .. C : sized[i] \in T
        BY <1>13, <1>14, <3>1
    <3>m. PICK a : a = d + 1
        OBVIOUS
    <3>s. /\ q \in Seq(T) /\ Len(q) = IF a <= C THEN C - a + 1 ELSE 0
          /\ \A i \in 1 .. C - a + 1 : q[i] = sized[a + i - 1]
      <4>1. a \in Int /\ \A i \in a .. C : sized[i] \in T
          BY <3>2, <3>m
      <4> QED BY <2>2, <3>2, <3>m, <4>1, SubSeqProperties
    <3>a. C - a + 1 = MaxSamples /\ (a <= C \/ MaxSamples = 0)
        BY <1>0, <1>13, <1>18, <2>1, <3>m
    <3>3. q \in Seq(T) /\ Len(q) = MaxSamples
        BY <1>0, <1>13, <2>1, <3>a, <3>m, <3>s
    <3>4. ASSUME NEW n \in 1 .. MaxSamples PROVE q[n] = sized[d + n]
      <4>1. a + n - 1 = d + n
          BY <1>0, <3>m
      <4> QED BY <3>a, <3>s, <4>1
    <3> QED BY <3>3, <3>4
  <2>5. IsSequence(q) /\ Len(q) = MaxSamples
      BY <1>0, <2>4, FunctionSequence
  <2>6. ASSUME NEW m
        PROVE  /\ IsFiniteSet(OfMetric(q, 1 .. MaxSamples, m))
               /\ Cardinality(OfMetric(q, 1 .. MaxSamples, m)) <= MaxSamplesPerMetric
    <3>1. PICK A, B : A = OfMetric(q, 1 .. MaxSamples, m) /\ B = OfMetric(sized, 1 .. C, m)
        OBVIOUS
    <3> DEFINE g == [n \in A |-> d + n]
    <3>2. ASSUME NEW n \in A PROVE n \in 1 .. MaxSamples /\ d + n \in B
      <4>1. n \in 1 .. MaxSamples /\ q[n].metric = m
          BY <3>1, <3>2 DEF OfMetric
      <4>2. d + n \in 1 .. C /\ q[n] = sized[d + n]
        <5>1. n \in Nat /\ 1 <= n /\ n <= MaxSamples /\ d + MaxSamples = C
            BY <1>0, <1>13, <2>1, <4>1
        <5>2. d + n \in 1 .. C
            BY <1>0, <1>13, <5>1
        <5> QED BY <2>4, <4>1, <5>2
      <4> QED BY <3>1, <4>1, <4>2 DEF OfMetric
    <3>3. g \in [A -> B] /\ \A a, b \in A : g[a] = g[b] => a = b
        BY <1>0, <3>2
    <3> HIDE DEF g
    <3>4. g \in Injection(A, B)
        BY <3>3 DEF Injection, IsInjective
    <3>5. IsFiniteSet(B) /\ Cardinality(B) <= MaxSamplesPerMetric
        BY <1>15, <3>1
    <3>6. IsFiniteSet(A) /\ Cardinality(A) <= Cardinality(B)
        BY <3>4, <3>5, FS_Injection
    <3>7. Cardinality(A) \in Nat /\ Cardinality(B) \in Nat
        BY <3>5, <3>6, FS_CardinalityType
    <3> QED BY <1>0, <3>1, <3>5, <3>6, <3>7
  <2> QED BY <1>0, <2>3, <2>5, <2>6 DEF FewSamples
<1> QED BY <1>17, <1>18

\* The samples of an action are a sequence.
LEMMA MeasuredSequence ==
    ASSUME NEW tl, NEW o
    PROVE  IsSequence(Measured(tl, o))
<1> DEFINE sample(metric, ok) == << [metric |-> metric, ok |-> ok, recordedAt |-> now] >>
           receipts == Having(tl, "provider_receipt")
           proofs == Having(tl, "verification")
<1>1. IsSequence(<<>>)
  <2>1. <<>> \in Seq({})
      OBVIOUS
  <2> QED BY <2>1 DEF IsSequence
<1>2. ASSUME NEW x PROVE IsSequence(<<x>>)
  <2>1. <<x>> \in Seq({x})
      OBVIOUS
  <2> QED BY <2>1 DEF IsSequence
<1>3. ASSUME NEW a, NEW b, IsSequence(a), IsSequence(b) PROVE IsSequence(a \o b)
  <2>1. PICK j : j = a \o b
      OBVIOUS
  <2>2. IsSequence(j)
      BY <1>3, <2>1, JoinedSequences
  <2> QED BY <2>1, <2>2
<1>4. ASSUME NEW metric, NEW ok PROVE IsSequence(sample(metric, ok))
    BY <1>2
<1>5. PICK a : a = sample("duplicate_prevention", Cardinality(receipts) <= 1 /\ Cardinality(proofs) <= 1)
    OBVIOUS
<1>6. PICK b : b = sample("availability", o \in {"committed", "not_committed", "compensated"})
    OBVIOUS
<1>7. PICK c : c = sample("receipt_verification", LastStatus(tl, "verification") = "verified")
    OBVIOUS
<1>8. PICK d : d = sample("execution_latency", TRUE)
    OBVIOUS
<1>9. PICK d1 : d1 = IF proofs = {} THEN <<>> ELSE d
    OBVIOUS
<1>10. PICK c1 : c1 = IF receipts = {} THEN <<>> ELSE c \o d1
    OBVIOUS
<1>11. IsSequence(a) /\ IsSequence(b) /\ IsSequence(c) /\ IsSequence(d)
    BY <1>4, <1>5, <1>6, <1>7, <1>8
<1>12. IsSequence(d1)
    BY <1>1, <1>9, <1>11
<1>13. IsSequence(c \o d1)
    BY <1>3, <1>11, <1>12
<1>14. IsSequence(c1)
    BY <1>1, <1>10, <1>13, Zenon
<1>15. IsSequence(a \o b)
    BY <1>3, <1>11
<1>16. IsSequence((a \o b) \o c1)
    BY <1>3, <1>14, <1>15
<1>17. Measured(tl, o) = IF receipts = {} /\ Having(tl, "execution_attempt") = {} THEN <<>>
                         ELSE a \o b \o c1
    BY <1>5, <1>6, <1>7, <1>8, <1>9, <1>10, Zenon DEF Measured
<1> HIDE DEF receipts
<1> QED BY <1>1, <1>16, <1>17, Zenon

\* What a run measures is a sequence.
LEMMA NewSamples ==
    ASSUME NEW x, RunRecord(x), NEW ids, ids = SetToSeq(DOMAIN x.results)
    PROVE  IsSequence(FlattenSeq([i \in DOMAIN ids |->
                Measured(x.timelines[ids[i]], x.results[ids[i]].outcome)]))
<1>1. PICK S : S = DOMAIN x.results
    OBVIOUS
<1>2. IsFiniteSet(S)
    BY <1>1 DEF RunRecord
<1>3. PICK n \in Nat : ids \in [1 .. n -> S]
    BY <1>1, <1>2, OrderedSet
<1>4. DOMAIN ids = 1 .. n
    BY <1>3
<1>5. PICK xs : xs = [i \in DOMAIN ids |->
                Measured(x.timelines[ids[i]], x.results[ids[i]].outcome)]
    OBVIOUS
<1>6. /\ xs = [i \in 1 .. n |-> xs[i]]
      /\ \A i \in 1 .. n : xs[i] = Measured(x.timelines[ids[i]], x.results[ids[i]].outcome)
    BY <1>4, <1>5
<1>7. IsSequence(xs) /\ Len(xs) = n
    BY <1>6, FunctionSequence
<1>8. \A i \in 1 .. Len(xs) : IsSequence(xs[i])
    BY <1>6, <1>7, MeasuredSequence
<1>9. IsSequence(FlattenSeq(xs))
    BY <1>7, <1>8, FlattenedSequence
<1> QED BY <1>5, <1>9, Zenon

\* The limits of the stores of a reconciliation.
Phases == \A r \in ReconRun : recon[r].phase \in {"idle", "classifying", "sampling"}
ReconLimits ==
    /\ provider \in [LedgerActionId -> Presence] /\ Phases
    /\ Len(findings) <= MaxFindings /\ FewSamples(samples)

\* A run that is written has a phase.
LEMMA PhaseKept ==
    ASSUME ReconInv, Phases, NEW r \in ReconRun, NEW y, recon' = [recon EXCEPT ![r] = y],
           y.phase \in {"idle", "classifying", "sampling"}
    PROVE  Phases'
<1>1. /\ recon'[r] = y
      /\ \A u \in ReconRun : u # r => recon'[u] = recon[u]
    BY DEF ReconInv
<1> QED BY <1>1 DEF Phases

\* The phase of a run that has read nothing.
LEMMA IdlePhase == Idling.phase = "idle"
<1>1. PICK T, H : T = [id \in LedgerActionId |-> <<>>] /\ H = [id \in {} |-> {}]
    OBVIOUS
<1>2. Idling = [phase |-> "idle", timelines |-> T, results |-> H, history |-> T]
    BY <1>1 DEF Idling
<1> QED BY <1>2

\* Samples that are recorded are trimmed.
LEMMA SamplesRecorded ==
    ASSUME ReconInv, FewSamples(samples), NEW r \in ReconRun, RecordSamples(r)
    PROVE  FewSamples(samples')
<1>1. PICK x : x = recon[r]
    OBVIOUS
<1>2. PICK ids : ids = SetToSeq(DOMAIN x.results)
    OBVIOUS
<1>3. PICK new : new = FlattenSeq([i \in DOMAIN ids |->
                Measured(x.timelines[ids[i]], x.results[ids[i]].outcome)])
    OBVIOUS
<1>4. samples' = IF new = <<>> THEN samples ELSE trimSamples(trimSamples(samples) \o new)
    BY <1>1, <1>2, <1>3, Zenon DEF RecordSamples
<1>5. IsSequence(new)
  <2>1. RunRecord(x)
      BY <1>1 DEF ReconInv
  <2>2. IsSequence(FlattenSeq([i \in DOMAIN ids |->
                Measured(x.timelines[ids[i]], x.results[ids[i]].outcome)]))
      BY <1>2, <2>1, NewSamples
  <2> QED BY <1>3, <2>2, Zenon
<1>6. PICK a : a = trimSamples(samples)
    OBVIOUS
<1>7. IsSequence(a)
    BY <1>6, TrimmedSamples DEF FewSamples
<1>8. PICK j : j = a \o new
    OBVIOUS
<1>9. IsSequence(j)
    BY <1>5, <1>7, <1>8, JoinedSequences
<1>10. FewSamples(trimSamples(j))
    BY <1>9, TrimmedSamples
<1>11. CASE new = <<>>
    BY <1>4, <1>11
<1>12. CASE new # <<>>
    BY <1>4, <1>6, <1>8, <1>10, <1>12, Zenon
<1> QED BY <1>11, <1>12

\* Every step keeps to the limits.
LEMMA LimitsKept ==
    ASSUME ReconInv, ReconLimits, ReconNext \/ UNCHANGED reconOnly
    PROVE  ReconLimits'
<1>0. /\ provider \in [LedgerActionId -> Presence] /\ Phases
      /\ Len(findings) <= MaxFindings /\ FewSamples(samples)
    BY DEF ReconLimits
<1>1. CASE UNCHANGED reconOnly \/ LedgerMoves
  <2>1. provider' = provider /\ recon' = recon /\ findings' = findings /\ samples' = samples
      BY <1>1 DEF LedgerMoves, reconOnly
  <2> QED BY <1>0, <2>1 DEF ReconLimits, Phases
<1>2. ASSUME NEW r \in ReconRun, NEW y, recon' = [recon EXCEPT ![r] = y],
             y.phase \in {"idle", "classifying", "sampling"}
      PROVE  Phases'
    BY <1>0, <1>2, PhaseKept
<1>3. ASSUME NEW r \in ReconRun, StartRun(r) PROVE ReconLimits'
  <2>1. PICK T, H : /\ T = [id \in LedgerActionId |-> EntriesForAction(chain[OwnTenant], id)]
                    /\ H = recorded[OwnTenant]
      OBVIOUS
  <2>2. PICK y : y = [Idling EXCEPT !.phase = "classifying", !.timelines = T, !.history = H]
      OBVIOUS
  <2>3. /\ recon' = [recon EXCEPT ![r] = y]
        /\ provider' = provider /\ findings' = findings /\ samples' = samples
      BY <1>3, <2>1, <2>2, Zenon DEF StartRun
  <2>4. y.phase = "classifying"
    <3>1. PICK a, b : a = [id \in LedgerActionId |-> <<>>] /\ b = [id \in {} |-> {}]
        OBVIOUS
    <3>2. Idling = [phase |-> "idle", timelines |-> a, results |-> b, history |-> a]
        BY <3>1 DEF Idling
    <3> QED BY <2>2, <3>2
  <2> QED BY <1>0, <1>2, <2>3, <2>4 DEF ReconLimits
<1>4. ASSUME NEW r \in ReconRun, NEW id \in LedgerActionId, Classify(r, id) PROVE ReconLimits'
  <2>1. PICK x, p : x = recon[r] /\ p = provider[id]
      OBVIOUS
  <2>2. PICK z : z = [i \in DOMAIN x.results \cup {id} |->
            IF i = id THEN decideOutcome(classifyIntent(x.timelines[id]), p) ELSE x.results[i]]
      OBVIOUS
  <2>3. PICK y : y = [x EXCEPT !.results = z]
      OBVIOUS
  <2>4. /\ recon' = [recon EXCEPT ![r] = y]
        /\ provider' = provider /\ findings' = findings /\ samples' = samples
      BY <1>4, <2>1, <2>2, <2>3, Zenon DEF Classify
  <2>5. y = [phase |-> x.phase, timelines |-> x.timelines, results |-> z, history |-> x.history]
      BY <2>1, <2>3, RunFields DEF ReconInv, RunRecord
  <2>6. y.phase = x.phase
      BY <2>5
  <2> QED BY <1>0, <1>2, <2>1, <2>4, <2>6 DEF ReconLimits, Phases
<1>5. ASSUME NEW r \in ReconRun, SaveFindings(r) PROVE ReconLimits'
  <2>1. PICK x : x = recon[r]
      OBVIOUS
  <2>2. PICK y : y = [x EXCEPT !.phase = "sampling"]
      OBVIOUS
  <2>3. PICK new : new = SetToSeq(Reported(r))
      OBVIOUS
  <2>4. PICK g : g = [i \in DOMAIN new |->
                [actionHash |-> ActionHash(r, new[i]), status |-> "open",
                 classification |-> recon[r].results[new[i]].outcome]]
      OBVIOUS
  <2>5. /\ recon' = [recon EXCEPT ![r] = y] /\ findings' = findings \o g
        /\ Len(findings) + Len(new) <= MaxFindings
        /\ provider' = provider /\ samples' = samples
      BY <1>5, <2>1, <2>2, <2>3, <2>4, Zenon DEF SaveFindings
  <2>6. y.phase = "sampling"
    <3>1. y = [phase |-> "sampling", timelines |-> x.timelines, results |-> x.results,
               history |-> x.history]
        BY <2>1, <2>2, RunFields DEF ReconInv, RunRecord
    <3> QED BY <3>1
  <2>7. Phases'
      BY <1>2, <2>5, <2>6
  <2>8. Len(findings') <= MaxFindings
    <3>1. PICK S : S = Reported(r)
        OBVIOUS
    <3>2. IsFiniteSet(S)
      <4>1. S \subseteq DOMAIN x.results /\ IsFiniteSet(DOMAIN x.results)
          BY <2>1, <3>1 DEF Reported, ToReport, ReconInv, RunRecord
      <4> QED BY <4>1, FS_Subset
    <3>3. PICK n \in Nat : new \in [1 .. n -> S]
        BY <2>3, <3>1, <3>2, OrderedSet
    <3>4. new = [i \in 1 .. n |-> new[i]] /\ g = [i \in 1 .. n |-> g[i]]
        BY <2>4, <3>3
    <3>5. Len(new) = n /\ IsSequence(g) /\ Len(g) = n
        BY <3>4, FunctionSequence
    <3>6. PICK f, j : f = findings /\ j = f \o g
        OBVIOUS
    <3>7. Len(j) = Len(f) + Len(g)
        BY <3>5, <3>6, JoinedSequences DEF ReconInv
    <3> QED BY <2>5, <3>5, <3>6, <3>7
  <2> QED BY <1>0, <2>5, <2>7, <2>8 DEF ReconLimits
<1>6. ASSUME NEW r \in ReconRun, RecordSamples(r) PROVE ReconLimits'
  <2>1. /\ recon' = [recon EXCEPT ![r] = Idling]
        /\ provider' = provider /\ findings' = findings
      BY <1>6, Zenon DEF RecordSamples
  <2>2. FewSamples(samples')
      BY <1>0, <1>6, SamplesRecorded
  <2> QED BY <1>0, <1>2, <2>1, <2>2, IdlePhase DEF ReconLimits
<1>7. ASSUME NEW r \in ReconRun, RunEnds(r) PROVE ReconLimits'
  <2>1. /\ recon' = [recon EXCEPT ![r] = Idling]
        /\ provider' = provider /\ findings' = findings /\ samples' = samples
      BY <1>7, Zenon DEF RunEnds
  <2> QED BY <1>0, <1>2, <2>1, IdlePhase DEF ReconLimits
<1>8. ASSUME NEW i \in DOMAIN findings, Resolve(i) PROVE ReconLimits'
  <2>1. PICK f, v : f = findings /\ v = [f[i] EXCEPT !.status = "resolved"]
      OBVIOUS
  <2>2. /\ findings' = [f EXCEPT ![i] = v] /\ recon' = recon
        /\ provider' = provider /\ samples' = samples
      BY <1>8, <2>1, Zenon DEF Resolve
  <2>3. PICK N \in Nat : N = Len(f) /\ f = [k \in 1 .. N |-> f[k]]
      BY <2>1, SequenceLength DEF ReconInv
  <2>4. PICK j : j = findings'
      OBVIOUS
  <2>5. j = [k \in 1 .. N |-> j[k]]
      BY <2>2, <2>3, <2>4
  <2>6. Len(j) = N
      BY <2>5, FunctionSequence
  <2> QED BY <1>0, <2>1, <2>2, <2>3, <2>4, <2>6 DEF ReconLimits, Phases
<1>9. ASSUME NEW id \in LedgerActionId, NEW presence \in Presence, ProviderChanges(id, presence)
      PROVE  ReconLimits'
  <2>1. /\ provider' = [provider EXCEPT ![id] = presence]
        /\ recon' = recon /\ findings' = findings /\ samples' = samples
      BY <1>9, Zenon DEF ProviderChanges
  <2>2. provider' \in [LedgerActionId -> Presence]
      BY <1>0, <2>1
  <2> QED BY <1>0, <2>1, <2>2 DEF ReconLimits, Phases
<1> QED BY <1>1, <1>3, <1>4, <1>5, <1>6, <1>7, <1>8, <1>9 DEF ReconNext

\* Before any run.
LEMMA LimitsInitially == ReconInit => ReconLimits
<1> SUFFICES ASSUME ReconInit PROVE ReconLimits
    OBVIOUS
<1>1. /\ provider = [id \in LedgerActionId |-> "absent"] /\ recon = [r \in ReconRun |-> Idling]
      /\ findings = <<>> /\ samples = <<>>
    BY DEF ReconInit
<1>2. provider \in [LedgerActionId -> Presence]
    BY <1>1 DEF Presence
<1>3. Phases
    BY <1>1, IdlePhase DEF Phases
<1>4. MaxFindings \in Nat /\ MaxSamples \in Nat /\ MaxSamplesPerMetric \in Nat
    BY ReconciliationAssumption
<1>5. IsSequence(<<>>) /\ Len(<<>>) = 0
  <2>1. <<>> \in Seq({})
      OBVIOUS
  <2> QED BY <2>1 DEF IsSequence
<1>6. ASSUME NEW m
      PROVE  /\ IsFiniteSet(OfMetric(<<>>, 1 .. 0, m))
             /\ Cardinality(OfMetric(<<>>, 1 .. 0, m)) <= MaxSamplesPerMetric
  <2>1. OfMetric(<<>>, 1 .. 0, m) = {}
      BY DEF OfMetric
  <2> QED BY <1>4, <2>1, FS_EmptySet
<1>7. FewSamples(<<>>)
    BY <1>4, <1>5, <1>6 DEF FewSamples
<1> QED BY <1>1, <1>2, <1>3, <1>4, <1>5, <1>7 DEF ReconLimits

\* What the limits are for.
LEMMA ReconTyped == ReconLimits => ReconTypeOK
<1> SUFFICES ASSUME ReconLimits PROVE ReconTypeOK
    OBVIOUS
<1>1. /\ provider \in [LedgerActionId -> Presence] /\ Phases
      /\ Len(findings) <= MaxFindings /\ FewSamples(samples)
    BY DEF ReconLimits
<1>2. ASSUME NEW m
      PROVE  Cardinality({i \in DOMAIN samples : samples[i].metric = m}) <= MaxSamplesPerMetric
  <2>1. IsSequence(samples) /\ Cardinality(OfMetric(samples, 1 .. Len(samples), m)) <= MaxSamplesPerMetric
      BY <1>1 DEF FewSamples
  <2>2. DOMAIN samples = 1 .. Len(samples)
      BY <2>1, SequenceLength
  <2>3. OfMetric(samples, DOMAIN samples, m) = {i \in DOMAIN samples : samples[i].metric = m}
      BY Zenon DEF OfMetric
  <2> QED BY <2>1, <2>2, <2>3, Zenon
<1>3. Len(samples) <= MaxSamples
    BY <1>1 DEF FewSamples
<1> QED BY <1>1, <1>2, <1>3, Zenon DEF ReconTypeOK, Phases

\* The findings and the samples keep to their bounds, in all and for each metric, whatever a
\* run finds and however many of them there are.
THEOREM ReconTypes == ReconSpec => []ReconTypeOK
<1>1. ReconInit => ReconInv /\ ReconLimits
    BY ReconInitially, LimitsInitially
<1>2. ReconInv /\ ReconLimits /\ [ReconNext]_reconVars => (ReconInv /\ ReconLimits)'
    BY ReconStep, LimitsKept DEF reconVars
<1>3. ReconLimits => ReconTypeOK
    BY ReconTyped
<1> QED BY <1>1, <1>2, <1>3, PTL DEF ReconSpec

-----------------------------------------------------------------------------
(***************************************************************************)
(* Cost alerts.  A budget raises an alert only when it has none open, and  *)
(* only what has been acknowledged makes room for it.                      *)
(***************************************************************************)

AlertRecord(a) ==
    a = [id |-> a.id, budgetId |-> a.budgetId, status |-> a.status, total |-> a.total,
         windowEnd |-> a.windowEnd]

\* No budget has two open alerts in the list.
OneOpenAlert(list) ==
    \A i, j \in DOMAIN list :
        i # j /\ list[i].status = "open" /\ list[j].status = "open" =>
            list[i].budgetId # list[j].budgetId

AlertList(list) ==
    /\ IsSequence(list) /\ OneOpenAlert(list) /\ \A i \in DOMAIN list : AlertRecord(list[i])

\* What is open in one list is open in the other.
OpenKept(list, later) ==
    \A i \in DOMAIN list : list[i].status = "open" =>
        \E j \in DOMAIN later : later[j].status = "open" /\ later[j].id = list[i].id

\* A refreshed alert is the same alert.
LEMMA SameAlert ==
    ASSUME NEW a, AlertRecord(a), NEW budget, NEW p, p = RefreshedAlert(a, budget)
    PROVE  AlertRecord(p) /\ p.id = a.id /\ p.budgetId = a.budgetId /\ p.status = a.status
<1>1. PICK i, b, s, t, e :
        a = [id |-> i, budgetId |-> b, status |-> s, total |-> t, windowEnd |-> e]
    BY DEF AlertRecord
<1>2. p = [id |-> i, budgetId |-> b, status |-> s, total |-> Spent(budget),
         windowEnd |-> now]
    BY <1>1 DEF RefreshedAlert
<1>3. a.id = i /\ a.budgetId = b /\ a.status = s
    BY <1>1
<1> QED BY <1>2, <1>3 DEF AlertRecord

\* Refreshing one alert of a list.
LEMMA RefreshedList ==
    ASSUME NEW list, AlertList(list), NEW k, NEW budget, NEW later,
           later = [i \in DOMAIN list |->
               IF i = k THEN RefreshedAlert(list[i], budget) ELSE list[i]]
    PROVE  AlertList(later) /\ OpenKept(list, later)
<1>1. IsSequence(list)
    BY DEF AlertList
<1>2. PICK N \in Nat : N = Len(list) /\ DOMAIN list = 1 .. N
    BY <1>1, SequenceLength
<1>3. DOMAIN later = 1 .. N /\ later = [i \in 1 .. N |-> later[i]]
    BY <1>2
<1>4. IsSequence(later)
    BY <1>3, FunctionSequence
<1>5. ASSUME NEW i \in 1 .. N
      PROVE  /\ AlertRecord(later[i]) /\ later[i].id = list[i].id
             /\ later[i].budgetId = list[i].budgetId /\ later[i].status = list[i].status
  <2>1. PICK a : a = list[i]
      OBVIOUS
  <2>2. AlertRecord(a)
      BY <1>2, <2>1 DEF AlertList
  <2>3. PICK p : p = RefreshedAlert(a, budget)
      OBVIOUS
  <2>4. later[i] = p \/ later[i] = a
      BY <1>2, <2>1, <2>3
  <2>5. AlertRecord(p) /\ p.id = a.id /\ p.budgetId = a.budgetId /\ p.status = a.status
      BY <2>2, <2>3, SameAlert
  <2> QED BY <2>1, <2>2, <2>4, <2>5
<1>6. OneOpenAlert(later)
  <2> SUFFICES ASSUME NEW i \in 1 .. N, NEW j \in 1 .. N, i # j,
                      later[i].status = "open", later[j].status = "open"
               PROVE  later[i].budgetId # later[j].budgetId
      BY <1>3 DEF OneOpenAlert
  <2>1. /\ later[i].budgetId = list[i].budgetId /\ later[i].status = list[i].status
        /\ later[j].budgetId = list[j].budgetId /\ later[j].status = list[j].status
      BY <1>5
  <2>2. OneOpenAlert(list)
      BY DEF AlertList
  <2> QED BY <1>2, <2>1, <2>2 DEF OneOpenAlert
<1>7. OpenKept(list, later)
    BY <1>2, <1>3, <1>5 DEF OpenKept
<1> QED BY <1>3, <1>4, <1>5, <1>6, <1>7 DEF AlertList

\* Of two places the later one has more places before it.
LEMMA LaterPlace ==
    ASSUME NEW N \in Nat, NEW places \in SUBSET (1 .. N), NEW i \in places, NEW k \in 1 .. N + 1, i < k
    PROVE  Before(places, i) \in Nat /\ Before(places, k) \in Nat /\ Before(places, i) < Before(places, k)
<1>0. i \in 1 .. N /\ i \in 1 .. N + 1
    OBVIOUS
<1>1. PICK S : S = {j \in places : j < i}
    OBVIOUS
<1>2. PICK U : U = {j \in places : j < k}
    OBVIOUS
<1>3. IsFiniteSet(places)
    BY CountingPlaces
<1>4. IsFiniteSet(S) /\ IsFiniteSet(U)
    BY <1>1, <1>2, <1>3, FS_Subset
<1>5. S \cup {i} \in SUBSET U /\ i \notin S
  <2>1. \A j \in places : j \in Nat /\ (j < i => j < k)
      BY <1>0
  <2>2. i \in Nat /\ ~(i < i)
      BY <1>0
  <2> QED BY <1>1, <1>2, <2>1, <2>2, Zenon
<1>6. Cardinality(S \cup {i}) = Cardinality(S) + 1
    BY <1>4, <1>5, FS_AddElement
<1>7. Cardinality(S \cup {i}) <= Cardinality(U)
    BY <1>4, <1>5, FS_Subset
<1>8. Cardinality(S) \in Nat /\ Cardinality(U) \in Nat
    BY <1>4, FS_CardinalityType
<1>9. Cardinality(S) < Cardinality(U)
    BY <1>6, <1>7, <1>8
<1> QED BY <1>1, <1>2, <1>8, <1>9 DEF Before

\* A filter has every entry that stood at one of its places.
LEMMA PlaceKept ==
    ASSUME NEW N \in Nat, NEW places \in SUBSET (1 .. N), NEW s, NEW i \in places
    PROVE  \E n \in 1 .. Cardinality(places) : Kept(s, places)[n] = s[i]
<1>1. PICK c \in Nat : c = Cardinality(places)
    BY CountingPlaces
<1>2. i \in 1 .. N /\ i < N + 1 /\ N + 1 \in 1 .. N + 1
    OBVIOUS
<1>3. Before(places, i) \in Nat /\ Before(places, i) < c
  <2>1. Before(places, N + 1) = c
      BY <1>1, CountingPlaces
  <2> QED BY <1>2, <2>1, LaterPlace
<1>4. PICK n \in 1 .. c : n - 1 = Before(places, i)
  <2>1. Before(places, i) + 1 \in 1 .. c /\ (Before(places, i) + 1) - 1 = Before(places, i)
      BY <1>3
  <2> QED BY <2>1
<1>5. PICK k \in places : Before(places, k) = n - 1 /\ Kept(s, places)[n] = s[k]
    BY <1>1, KeptEntries
<1>6. k = i
  <2>1. k \in 1 .. N + 1 /\ i \in 1 .. N + 1
      OBVIOUS
  <2>2. ~(k < i)
    <3> SUFFICES ASSUME k < i PROVE FALSE
        OBVIOUS
    <3>1. Before(places, k) \in Nat /\ Before(places, i) \in Nat /\ Before(places, k) < Before(places, i)
        BY <2>1, LaterPlace
    <3> QED BY <1>4, <1>5, <3>1
  <2>3. ~(i < k)
    <3> SUFFICES ASSUME i < k PROVE FALSE
        OBVIOUS
    <3>1. Before(places, k) \in Nat /\ Before(places, i) \in Nat /\ Before(places, i) < Before(places, k)
        BY <2>1, LaterPlace
    <3> QED BY <1>4, <1>5, <3>1
  <2> QED BY <2>1, <2>2, <2>3
<1> QED BY <1>1, <1>5, <1>6

\* A filter that keeps all that is open.
LEMMA AlertsKept ==
    ASSUME NEW list, AlertList(list), NEW places \in SUBSET DOMAIN list,
           \A i \in DOMAIN list : list[i].status = "open" => i \in places,
           NEW room, room = Kept(list, places)
    PROVE  /\ AlertList(room) /\ OpenKept(list, room)
           /\ \A n \in DOMAIN room : \E i \in DOMAIN list : room[n] = list[i]
<1>1. PICK N \in Nat : N = Len(list) /\ DOMAIN list = 1 .. N
    BY SequenceLength DEF AlertList
<1>2. places \in SUBSET (1 .. N)
    BY <1>1
<1>3. PICK c \in Nat : c = Cardinality(places)
    BY <1>2, CountingPlaces
<1>4. /\ room = [n \in 1 .. c |-> room[n]]
      /\ \A n \in 1 .. c : \E i \in places : Before(places, i) = n - 1 /\ room[n] = list[i]
    BY <1>2, <1>3, KeptEntries
<1>5. DOMAIN room = 1 .. c /\ IsSequence(room)
  <2>1. DOMAIN room = 1 .. c
      BY <1>4
  <2> QED BY <1>4, <2>1, FunctionSequence
<1>6. ASSUME NEW n \in 1 .. c PROVE AlertRecord(room[n])
    BY <1>1, <1>2, <1>4 DEF AlertList
<1>7. OneOpenAlert(room)
  <2> SUFFICES ASSUME NEW m \in 1 .. c, NEW n \in 1 .. c, m # n,
                      room[m].status = "open", room[n].status = "open"
               PROVE  room[m].budgetId # room[n].budgetId
      BY <1>5 DEF OneOpenAlert
  <2>1. PICK i \in places : Before(places, i) = m - 1 /\ room[m] = list[i]
      BY <1>4
  <2>2. PICK k \in places : Before(places, k) = n - 1 /\ room[n] = list[k]
      BY <1>4
  <2>3. i # k
      BY <2>1, <2>2
  <2>4. i \in DOMAIN list /\ k \in DOMAIN list
      OBVIOUS
  <2> QED BY <2>1, <2>2, <2>3, <2>4 DEF AlertList, OneOpenAlert
<1>8. ASSUME NEW i \in places PROVE \E n \in 1 .. c : room[n] = list[i]
    BY <1>2, <1>3, <1>4, PlaceKept
<1>9. OpenKept(list, room)
  <2> SUFFICES ASSUME NEW i \in DOMAIN list, list[i].status = "open"
               PROVE  \E j \in DOMAIN room : room[j].status = "open" /\ room[j].id = list[i].id
      BY DEF OpenKept
  <2>1. PICK n \in 1 .. c : room[n] = list[i]
      BY <1>8
  <2> QED BY <1>5, <2>1
<1>10. \A n \in DOMAIN room : \E i \in DOMAIN list : room[n] = list[i]
    BY <1>4, <1>5
<1> QED BY <1>5, <1>6, <1>7, <1>9, <1>10 DEF AlertList

\* A new alert, of a budget without an open one.
LEMMA AlertAppended ==
    ASSUME NEW list, AlertList(list), NEW x, AlertRecord(x),
           \A i \in DOMAIN list : list[i].status = "open" => list[i].budgetId # x.budgetId,
           NEW later, later = Append(list, x)
    PROVE  AlertList(later) /\ OpenKept(list, later)
<1>1. PICK N \in Nat : N = Len(list) /\ DOMAIN list = 1 .. N
    BY SequenceLength DEF AlertList
<1>2. /\ IsSequence(later) /\ Len(later) = N + 1
      /\ \A i \in 1 .. N : later[i] = list[i]
      /\ later[N + 1] = x
    BY <1>1, OneEntryMore DEF AlertList
<1>3. DOMAIN later = 1 .. N + 1
    BY <1>2, SequenceLength
<1>4. ASSUME NEW i \in 1 .. N + 1 PROVE (i \in 1 .. N /\ later[i] = list[i]) \/ (i = N + 1 /\ later[i] = x)
    BY <1>2
<1>5. \A i \in 1 .. N + 1 : AlertRecord(later[i])
    BY <1>1, <1>4 DEF AlertList
<1>6. OneOpenAlert(later)
  <2> SUFFICES ASSUME NEW i \in 1 .. N + 1, NEW j \in 1 .. N + 1, i # j,
                      later[i].status = "open", later[j].status = "open"
               PROVE  later[i].budgetId # later[j].budgetId
      BY <1>3 DEF OneOpenAlert
  <2>1. CASE i \in 1 .. N /\ later[i] = list[i] /\ j \in 1 .. N /\ later[j] = list[j]
      BY <1>1, <2>1 DEF AlertList, OneOpenAlert
  <2>2. CASE i = N + 1 /\ later[i] = x /\ j \in 1 .. N /\ later[j] = list[j]
      BY <1>1, <2>2
  <2>3. CASE j = N + 1 /\ later[j] = x /\ i \in 1 .. N /\ later[i] = list[i]
      BY <1>1, <2>3
  <2>4. CASE i = N + 1 /\ j = N + 1
      BY <2>4
  <2> QED BY <1>4, <2>1, <2>2, <2>3, <2>4, Zenon
<1>7. OpenKept(list, later)
  <2> SUFFICES ASSUME NEW i \in 1 .. N, list[i].status = "open"
               PROVE  \E j \in DOMAIN later : later[j].status = "open" /\ later[j].id = list[i].id
      BY <1>1 DEF OpenKept
  <2>1. i \in 1 .. N + 1 /\ later[i] = list[i]
      BY <1>2
  <2> QED BY <1>3, <2>1
<1> QED BY <1>2, <1>3, <1>5, <1>6, <1>7 DEF AlertList

\* Keeping is transitive.
LEMMA KeptTwice ==
    ASSUME NEW a, NEW b, NEW c, OpenKept(a, b), OpenKept(b, c)
    PROVE  OpenKept(a, c)
BY DEF OpenKept

\* deriveAlerts(), for one budget: nothing that is open is lost, and the budget has one open
\* alert at most.
LEMMA RaiseStep ==
    ASSUME NEW st, AlertList(st.alerts), NEW budget, NEW r, r = Raise(st, budget)
    PROVE  AlertList(r.alerts) /\ OpenKept(st.alerts, r.alerts)
<1>1. PICK list : list = st.alerts
    OBVIOUS
<1>2. PICK b : b = budget.id
    OBVIOUS
<1>3. PICK k : k = Min(OpenAlerts(list, b))
    OBVIOUS
<1>4. PICK places : places = DOMAIN list \ Removable(list)
    OBVIOUS
<1>5. PICK refreshed : refreshed =
        [i \in DOMAIN list |-> IF i = k THEN RefreshedAlert(list[i], budget) ELSE list[i]]
    OBVIOUS
<1>6. PICK room : room = WithRoom(list)
    OBVIOUS
<1>7. PICK n : n = st.raised
    OBVIOUS
<1>8. PICK fresh : fresh = FreshAlert(n + 1, budget)
    OBVIOUS
<1>9. PICK more : more = Append(room, fresh)
    OBVIOUS
<1>10. \/ r = st
       \/ r = Raised(refreshed, n, TRUE)
       \/ r = Raised(list, n, FALSE)
       \/ OpenAlerts(list, b) = {} /\ r = Raised(more, n + 1, TRUE)
    BY <1>1, <1>2, <1>3, <1>5, <1>6, <1>7, <1>8, <1>9, Zenon DEF Raise
<1>11. OpenKept(list, list)
    BY DEF OpenKept
<1>12. AlertList(list)
    BY <1>1
<1>13. CASE r = st
    BY <1>1, <1>11, <1>13
<1>14. CASE r = Raised(refreshed, n, TRUE)
  <2>1. r.alerts = refreshed
      BY <1>14 DEF Raised
  <2>2. AlertList(refreshed) /\ OpenKept(list, refreshed)
      BY <1>5, <1>12, RefreshedList
  <2> QED BY <1>1, <2>1, <2>2
<1>15. CASE r = Raised(list, n, FALSE)
  <2>1. r.alerts = list
      BY <1>1, <1>15 DEF Raised
  <2> QED BY <1>1, <1>11, <1>12, <2>1
<1>16. CASE OpenAlerts(list, b) = {} /\ r = Raised(more, n + 1, TRUE)
  <2>1. r.alerts = more
      BY <1>16 DEF Raised
  <2>2. /\ AlertList(room) /\ OpenKept(list, room)
        /\ \A i \in DOMAIN room : \E j \in DOMAIN list : room[i] = list[j]
    <3>1. CASE room = list
        BY <1>11, <1>12, <3>1
    <3>2. CASE room = Kept(list, places)
      <4>1. places \in SUBSET DOMAIN list
          BY <1>4
      <4>2. \A i \in DOMAIN list : list[i].status = "open" => i \in places
          BY <1>4 DEF Removable
      <4> QED BY <1>12, <3>2, <4>1, <4>2, AlertsKept
    <3> QED BY <1>4, <1>6, <3>1, <3>2 DEF WithRoom
  <2>3. AlertRecord(fresh) /\ fresh.budgetId = b
      BY <1>2, <1>8 DEF AlertRecord, FreshAlert
  <2>4. \A i \in DOMAIN room : room[i].status = "open" => room[i].budgetId # fresh.budgetId
      BY <1>16, <2>2, <2>3 DEF OpenAlerts
  <2>5. AlertList(more) /\ OpenKept(room, more)
      BY <1>9, <2>2, <2>3, <2>4, AlertAppended
  <2>6. OpenKept(list, more)
      BY <2>2, <2>5, KeptTwice
  <2> QED BY <1>1, <2>1, <2>5, <2>6
<1> QED BY <1>10, <1>13, <1>14, <1>15, <1>16

\* The states of deriveAlerts(), budget after budget.
AfterBudgets(st, list, N, f) ==
    f = [n \in 0 .. N |-> IF n = 0 THEN st ELSE Raise(f[n - 1], list[n])]

\* There are such states.
LEMMA AfterBudgetsExist ==
    ASSUME NEW st, NEW list, NEW N \in Nat
    PROVE  \E f : AfterBudgets(st, list, N, f)
<1> DEFINE Step(f, n) == IF n = 0 THEN st ELSE Raise(f[n - 1], list[n])
           Good(m, f) == f = [n \in 0 .. m |-> f[n]] /\ \A n \in 0 .. m : f[n] = Step(f, n)
           Ns == {m \in 0 .. N : \E f : Good(m, f)}
<1>1. 0 \in Ns
  <2>1. PICK f : f = [n \in 0 .. 0 |-> st]
      OBVIOUS
  <2>2. f = [n \in 0 .. 0 |-> f[n]] /\ \A n \in 0 .. 0 : n = 0 /\ f[n] = st
      BY <2>1
  <2>3. Good(0, f)
      BY <2>2, Zenon
  <2> HIDE DEF Good
  <2> QED BY <2>3
<1>2. ASSUME NEW m \in 0 .. N - 1, m \in Ns PROVE m + 1 \in Ns
  <2>1. PICK f : Good(m, f)
    <3> HIDE DEF Good
    <3> QED BY <1>2
  <2>2. PICK x : x = Step(f, m + 1)
      OBVIOUS
  <2>3. PICK g : g = [n \in 0 .. m + 1 |-> IF n = m + 1 THEN x ELSE f[n]]
      OBVIOUS
  <2>4. g = [n \in 0 .. m + 1 |-> g[n]] /\ g[m + 1] = x /\ \A n \in 0 .. m : g[n] = f[n]
    <3> HIDE DEF Step, Good, Ns
    <3> QED BY <1>2, <2>3
  <2>5. ASSUME NEW n \in 0 .. m + 1 PROVE Step(g, n) = Step(f, n)
    <3>1. n = 0 \/ n - 1 \in 0 .. m
        BY <1>2
    <3>2. n = 0 \/ g[n - 1] = f[n - 1]
        BY <2>4, <3>1
    <3> QED BY <3>2
  <2>6. \A n \in 0 .. m + 1 : g[n] = Step(g, n)
    <3>1. \A n \in 0 .. m : f[n] = Step(f, n)
        BY <2>1
    <3> HIDE DEF Step, Good
    <3>2. ASSUME NEW n \in 0 .. m + 1 PROVE g[n] = Step(f, n)
      <4>1. CASE n = m + 1
          BY <2>2, <2>4, <4>1
      <4>2. CASE n # m + 1
        <5>1. n \in 0 .. m
            BY <1>2, <4>2
        <5> QED BY <2>4, <3>1, <5>1
      <4> QED BY <4>1, <4>2
    <3> QED BY <2>5, <3>2
  <2>7. Good(m + 1, g)
    <3> HIDE DEF Step
    <3> QED BY <2>4, <2>6
  <2>8. m + 1 \in 0 .. N
      BY <1>2
  <2> HIDE DEF Good
  <2> QED BY <2>7, <2>8
<1>3. PICK f : Good(N, f)
  <2>1. 0 .. N \subseteq Ns
    <3> HIDE DEF Ns
    <3> QED BY <1>1, <1>2, NumbersUpTo
  <2> HIDE DEF Good
  <2>2. N \in Ns
      BY <2>1
  <2> QED BY <2>2
<1>4. f = [n \in 0 .. N |-> Step(f, n)]
  <2> HIDE DEF Step
  <2> QED BY <1>3
<1> QED BY <1>4 DEF AfterBudgets

\* deriveAlerts(), for every budget.
LEMMA DerivedStep ==
    ASSUME IsSequence(budgets), AlertList(alerts), NEW r, r = Derived
    PROVE  AlertList(r.alerts) /\ OpenKept(alerts, r.alerts)
<1>1. PICK N \in Nat : N = Len(budgets)
    BY SequenceLength
<1>2. PICK st, list : st = Raising /\ list = budgets
    OBVIOUS
<1>3. PICK f : f = CHOOSE g : AfterBudgets(st, list, N, g)
    OBVIOUS
<1>4. AfterBudgets(st, list, N, f)
  <2>1. \E g : AfterBudgets(st, list, N, g)
      BY AfterBudgetsExist
  <2> QED BY <1>3, <2>1, Zenon
<1>5. r = f[N]
    BY <1>1, <1>2, <1>3, Zenon DEF Derived, AfterBudgets
<1>6. f[0] = st /\ \A n \in 1 .. N : f[n] = Raise(f[n - 1], list[n])
    BY <1>4 DEF AfterBudgets
<1>7. st.alerts = alerts
    BY <1>2 DEF Raising, Raised
<1> DEFINE Ns == {n \in 0 .. N : AlertList(f[n].alerts) /\ OpenKept(alerts, f[n].alerts)}
<1>8. 0 \in Ns
  <2>1. OpenKept(alerts, alerts)
      BY DEF OpenKept
  <2> QED BY <1>6, <1>7, <2>1
<1>9. ASSUME NEW n \in 0 .. N - 1, n \in Ns PROVE n + 1 \in Ns
  <2>1. n + 1 \in 1 .. N /\ n + 1 \in 0 .. N /\ (n + 1) - 1 = n
      OBVIOUS
  <2>2. PICK x : x = f[n]
      OBVIOUS
  <2>3. PICK y : y = Raise(x, list[n + 1])
      OBVIOUS
  <2>4. f[n + 1] = y
      BY <1>6, <2>1, <2>2, <2>3
  <2>5. AlertList(x.alerts) /\ OpenKept(alerts, x.alerts)
      BY <1>9, <2>2
  <2>6. AlertList(y.alerts) /\ OpenKept(x.alerts, y.alerts)
      BY <2>3, <2>5, RaiseStep
  <2>7. OpenKept(alerts, y.alerts)
      BY <2>5, <2>6, KeptTwice
  <2> QED BY <2>1, <2>4, <2>6, <2>7
<1>10. N \in Ns
  <2>1. 0 .. N \subseteq Ns
    <3> HIDE DEF Ns
    <3> QED BY <1>8, <1>9, NumbersUpTo
  <2> HIDE DEF Ns
  <2> QED BY <2>1
<1> QED BY <1>5, <1>10

\* The inductive invariant of the alerts.
CostInv == IsSequence(budgets) /\ AlertList(alerts)

\* What OpenAlertsAreKept says of one step.
AlertsStay ==
    /\ \A i \in DOMAIN alerts : alerts[i].status = "open" =>
        \E j \in DOMAIN alerts' : alerts'[j].id = alerts[i].id
    /\ \A i, j \in DOMAIN alerts' :
        i # j /\ alerts'[i].status = "open" /\ alerts'[j].status = "open" =>
            alerts'[i].budgetId # alerts'[j].budgetId

\* A list with all that was open.
LEMMA ListStays ==
    ASSUME AlertList(alerts'), OpenKept(alerts, alerts')
    PROVE  AlertsStay
<1>1. OneOpenAlert(alerts')
    BY DEF AlertList
<1>2. \A i \in DOMAIN alerts : alerts[i].status = "open" =>
        \E j \in DOMAIN alerts' : alerts'[j].id = alerts[i].id
    BY DEF OpenKept
<1> QED BY <1>1, <1>2, Zenon DEF OneOpenAlert, AlertsStay

\* The same list.
LEMMA SameList ==
    ASSUME CostInv, IsSequence(budgets'), alerts' = alerts
    PROVE  CostInv' /\ AlertsStay
<1>1. OpenKept(alerts, alerts')
    BY DEF OpenKept
<1>2. AlertList(alerts')
    BY DEF CostInv
<1> QED BY <1>1, <1>2, ListStays DEF CostInv

\* configureBudget() and removeBudget() leave a list of budgets.
LEMMA BudgetsWritten ==
    ASSUME IsSequence(budgets),
           (\E budget \in CostBudget : ConfigureBudget(budget)) \/ (\E b \in BudgetName : RemoveBudget(b))
    PROVE  IsSequence(budgets')
<1>1. PICK N \in Nat : N = Len(budgets) /\ DOMAIN budgets = 1 .. N
    BY SequenceLength
<1>2. ASSUME NEW budget \in CostBudget, ConfigureBudget(budget) PROVE IsSequence(budgets')
  <2>1. CASE budgets' = Append(budgets, budget)
      BY <2>1, OneEntryMore
  <2>2. CASE budgets' = [i \in DOMAIN budgets |-> IF i \in Named(budget.id) THEN budget ELSE budgets[i]]
    <3>1. PICK q : q = budgets'
        OBVIOUS
    <3>2. q = [i \in 1 .. N |-> q[i]]
        BY <1>1, <2>2, <3>1
    <3> QED BY <3>1, <3>2, FunctionSequence
  <2> QED BY <1>2, <2>1, <2>2 DEF ConfigureBudget
<1>3. ASSUME NEW b \in BudgetName, RemoveBudget(b) PROVE IsSequence(budgets')
  <2>1. PICK places : places = DOMAIN budgets \ Named(b)
      OBVIOUS
  <2>2. PICK q : q = Kept(budgets, places)
      OBVIOUS
  <2>3. budgets' = q
      BY <1>3, <2>1, <2>2, Zenon DEF RemoveBudget
  <2>4. places \in SUBSET (1 .. N)
      BY <1>1, <2>1
  <2>5. PICK c \in Nat : c = Cardinality(places)
      BY <2>4, CountingPlaces
  <2>6. q = [n \in 1 .. c |-> q[n]]
      BY <2>2, <2>4, <2>5, KeptEntries
  <2> QED BY <2>3, <2>6, FunctionSequence
<1> QED BY <1>2, <1>3

\* acknowledgeAlert(): the alert stays, acknowledged.
LEMMA AcknowledgeStep ==
    ASSUME CostInv, NEW k \in DOMAIN alerts, AcknowledgeAlert(k)
    PROVE  CostInv' /\ AlertsStay
<1>1. PICK N \in Nat : N = Len(alerts) /\ DOMAIN alerts = 1 .. N
    BY SequenceLength DEF CostInv, AlertList
<1>2. PICK q : q = alerts'
    OBVIOUS
<1>3. PICK x : x = [alerts[k] EXCEPT !.status = "acknowledged"]
    OBVIOUS
<1>4. q = [alerts EXCEPT ![k] = x] /\ budgets' = budgets
    BY <1>2, <1>3, Zenon DEF AcknowledgeAlert
<1>5. alerts = [i \in 1 .. N |-> alerts[i]]
    BY <1>1, SequenceLength DEF CostInv, AlertList
<1>6. q = [i \in 1 .. N |-> q[i]] /\ q[k] = x /\ \A i \in 1 .. N : i # k => q[i] = alerts[i]
    BY <1>1, <1>4, <1>5
<1>7. AlertRecord(x) /\ x.id = alerts[k].id /\ x.status = "acknowledged"
  <2>1. PICK a : a = alerts[k]
      OBVIOUS
  <2>2. a = [id |-> a.id, budgetId |-> a.budgetId, status |-> a.status, total |-> a.total,
             windowEnd |-> a.windowEnd]
      BY <2>1 DEF CostInv, AlertList, AlertRecord
  <2>3. x = [id |-> a.id, budgetId |-> a.budgetId, status |-> "acknowledged", total |-> a.total,
             windowEnd |-> a.windowEnd]
      BY <1>3, <2>1, <2>2
  <2> QED BY <2>1, <2>3 DEF AlertRecord
<1>8. IsSequence(q) /\ DOMAIN q = 1 .. N
    BY <1>6, FunctionSequence
<1>9. \A i \in 1 .. N : AlertRecord(q[i]) /\ q[i].id = alerts[i].id
    BY <1>1, <1>6, <1>7 DEF CostInv, AlertList
<1>10. OneOpenAlert(q)
  <2> SUFFICES ASSUME NEW i \in 1 .. N, NEW j \in 1 .. N, i # j, q[i].status = "open", q[j].status = "open"
               PROVE  q[i].budgetId # q[j].budgetId
      BY <1>8 DEF OneOpenAlert
  <2>1. q[i] = alerts[i] /\ q[j] = alerts[j]
      BY <1>6, <1>7
  <2> QED BY <1>1, <2>1 DEF CostInv, AlertList, OneOpenAlert
<1>11. AlertList(q)
    BY <1>8, <1>9, <1>10 DEF AlertList
<1>12. CostInv'
    BY <1>2, <1>4, <1>11 DEF CostInv
<1>13. \A i \in DOMAIN alerts : \E j \in DOMAIN alerts' : alerts'[j].id = alerts[i].id
    BY <1>1, <1>2, <1>8, <1>9
<1> QED BY <1>2, <1>10, <1>12, <1>13, Zenon DEF AlertsStay, OneOpenAlert

\* Every step keeps the invariant, and what is open.
LEMMA CostStep ==
    ASSUME CostInv, CostNext \/ UNCHANGED costVars
    PROVE  CostInv' /\ AlertsStay
<1>0. IsSequence(budgets)
    BY DEF CostInv
<1>1. CASE CostTick \/ UNCHANGED costVars
  <2>1. alerts' = alerts /\ budgets' = budgets
      BY <1>1 DEF CostTick, costOnly, costVars
  <2> QED BY <1>0, <2>1, SameList
<1>2. CASE ListAlerts
  <2>1. PICK r : r = Derived
      OBVIOUS
  <2>2. alerts' = r.alerts /\ budgets' = budgets
      BY <1>2, <2>1, Zenon DEF ListAlerts
  <2>3. AlertList(r.alerts) /\ OpenKept(alerts, r.alerts)
      BY <2>1, DerivedStep DEF CostInv
  <2>4. AlertList(alerts') /\ OpenKept(alerts, alerts')
      BY <2>2, <2>3
  <2> QED BY <1>0, <2>2, <2>4, ListStays DEF CostInv
<1>3. ASSUME NEW t \in CostTenant, NEW a \in CostAction, NEW value \in Attribution, NEW amount \in Amount,
             RecordCost(t, a, value, amount)
      PROVE  CostInv' /\ AlertsStay
  <2>1. alerts' = alerts /\ budgets' = budgets
      BY <1>3, Zenon DEF RecordCost
  <2> QED BY <1>0, <2>1, SameList
<1>4. CASE (\E budget \in CostBudget : ConfigureBudget(budget)) \/ (\E b \in BudgetName : RemoveBudget(b))
  <2>1. alerts' = alerts
      BY <1>4, Zenon DEF ConfigureBudget, RemoveBudget
  <2>2. IsSequence(budgets')
      BY <1>0, <1>4, BudgetsWritten
  <2> QED BY <2>1, <2>2, SameList
<1>5. ASSUME NEW i \in DOMAIN alerts, AcknowledgeAlert(i) PROVE CostInv' /\ AlertsStay
    BY <1>5, AcknowledgeStep
<1> QED BY <1>1, <1>2, <1>3, <1>4, <1>5 DEF CostNext

\* Before any budget.
LEMMA CostInitially == CostInit => CostInv
<1>1. IsSequence(<<>>) /\ DOMAIN <<>> = {}
  <2>1. <<>> \in Seq({})
      OBVIOUS
  <2> QED BY <2>1 DEF IsSequence
<1>2. AlertList(<<>>)
    BY <1>1 DEF AlertList, OneOpenAlert
<1> QED BY <1>1, <1>2 DEF CostInit, CostInv

\* However the budgets are configured, removed and evaluated, an alert that nobody has
\* acknowledged stays, and no budget has two of them.
THEOREM AlertsAreKept == CostSpec => OpenAlertsAreKept
<1>1. CostInit => CostInv
    BY CostInitially
<1>2. CostInv /\ [CostNext]_costVars => CostInv' /\ AlertsStay
    BY CostStep
<1> QED BY <1>1, <1>2, PTL DEF CostSpec, OpenAlertsAreKept, AlertsStay

-----------------------------------------------------------------------------
(***************************************************************************)
(* The bounds of cost governance.                                          *)
(***************************************************************************)
AlertBounds(list) ==
    /\ Len(list) <= MaxAlerts
    /\ \A i \in DOMAIN list : list[i].status \in {"open", "acknowledged"}

\* A filter that drops something makes room.
LEMMA FewerKept ==
    ASSUME NEW N \in Nat, NEW places \in SUBSET (1 .. N), NEW i \in 1 .. N, i \notin places,
           NEW s, NEW q, q = Kept(s, places)
    PROVE  IsSequence(q) /\ Len(q) \in Nat /\ Len(q) < N
<1>1. PICK c \in Nat : c = Cardinality(places)
    BY CountingPlaces
<1>2. q = [n \in 1 .. c |-> q[n]]
    BY <1>1, KeptEntries
<1>3. IsSequence(q) /\ Len(q) = c
    BY <1>2, FunctionSequence
<1>4. IsFiniteSet(1 .. N) /\ Cardinality(1 .. N) = N
    BY FS_Interval
<1>5. IsFiniteSet(places)
    BY CountingPlaces
<1>6. Cardinality(places \cup {i}) = c + 1
    BY <1>1, <1>5, FS_AddElement
<1>7. Cardinality(places \cup {i}) <= N
    BY <1>4, FS_Subset
<1>8. c < N
    BY <1>6, <1>7
<1> QED BY <1>3, <1>8

\* deriveAlerts(), for one budget: the alerts keep to their bound.
LEMMA RaiseBounds ==
    ASSUME NEW st, AlertList(st.alerts), AlertBounds(st.alerts), st.raised \in Nat,
           NEW budget, NEW r, r = Raise(st, budget)
    PROVE  AlertBounds(r.alerts) /\ r.raised \in Nat
<1>0. MaxAlerts \in Nat
    BY CostAssumption
<1>1. PICK list : list = st.alerts
    OBVIOUS
<1>2. PICK b : b = budget.id
    OBVIOUS
<1>3. PICK k : k = Min(OpenAlerts(list, b))
    OBVIOUS
<1>4. PICK places : places = DOMAIN list \ Removable(list)
    OBVIOUS
<1>5. PICK refreshed : refreshed =
        [i \in DOMAIN list |-> IF i = k THEN RefreshedAlert(list[i], budget) ELSE list[i]]
    OBVIOUS
<1>6. PICK room : room = WithRoom(list)
    OBVIOUS
<1>7. PICK n \in Nat : n = st.raised
    OBVIOUS
<1>8. PICK fresh : fresh = FreshAlert(n + 1, budget)
    OBVIOUS
<1>9. PICK more : more = Append(room, fresh)
    OBVIOUS
<1>10. \/ r = st
       \/ r = Raised(refreshed, n, TRUE)
       \/ r = Raised(list, n, FALSE)
       \/ (~(Len(list) >= MaxAlerts) \/ Removable(list) # {}) /\ r = Raised(more, n + 1, TRUE)
    BY <1>1, <1>2, <1>3, <1>5, <1>6, <1>7, <1>8, <1>9, Zenon DEF Raise
<1>11. AlertList(list) /\ AlertBounds(list)
    BY <1>1
<1>12. PICK N \in Nat : N = Len(list) /\ DOMAIN list = 1 .. N
    BY <1>11, SequenceLength DEF AlertList
<1>13. CASE r = st
    BY <1>1, <1>11, <1>13
<1>14. CASE r = Raised(refreshed, n, TRUE)
  <2>1. r.alerts = refreshed /\ r.raised = n
      BY <1>14 DEF Raised
  <2>2. refreshed = [i \in 1 .. N |-> refreshed[i]] /\ DOMAIN refreshed = 1 .. N
      BY <1>5, <1>12
  <2>3. Len(refreshed) = N
      BY <2>2, FunctionSequence
  <2>4. ASSUME NEW i \in 1 .. N PROVE refreshed[i].status \in {"open", "acknowledged"}
    <3>1. PICK a : a = list[i]
        OBVIOUS
    <3>2. PICK p : p = RefreshedAlert(a, budget)
        OBVIOUS
    <3>3. AlertRecord(a) /\ a.status \in {"open", "acknowledged"}
        BY <1>11, <1>12, <3>1 DEF AlertList, AlertBounds
    <3>4. p.status = a.status
        BY <3>2, <3>3, SameAlert
    <3>5. refreshed[i] = p \/ refreshed[i] = a
        BY <1>5, <1>12, <3>1, <3>2
    <3> QED BY <3>3, <3>4, <3>5
  <2> QED BY <1>11, <1>12, <2>1, <2>2, <2>3, <2>4 DEF AlertBounds
<1>15. CASE r = Raised(list, n, FALSE)
  <2>1. r.alerts = list /\ r.raised = n
      BY <1>15 DEF Raised
  <2> QED BY <1>11, <2>1
<1>16. CASE /\ ~(Len(list) >= MaxAlerts) \/ Removable(list) # {}
            /\ r = Raised(more, n + 1, TRUE)
  <2>1. r.alerts = more /\ r.raised = n + 1
      BY <1>16 DEF Raised
  <2>2. /\ IsSequence(room) /\ Len(room) \in Nat /\ Len(room) < MaxAlerts
        /\ \A i \in DOMAIN room : \E j \in DOMAIN list : room[i] = list[j]
    <3>1. CASE Len(list) < MaxAlerts
      <4>1. room = list
          BY <1>6, <3>1 DEF WithRoom
      <4> QED BY <1>11, <1>12, <3>1, <4>1 DEF AlertList
    <3>2. CASE ~(Len(list) < MaxAlerts)
      <4>1. room = Kept(list, places)
          BY <1>4, <1>6, <3>2, Zenon DEF WithRoom
      <4>2. PICK i \in 1 .. N : i \notin places
          BY <1>0, <1>4, <1>12, <1>16, <3>2 DEF Removable
      <4>3. places \in SUBSET (1 .. N) /\ places \in SUBSET DOMAIN list
          BY <1>4, <1>12
      <4>4. IsSequence(room) /\ Len(room) \in Nat /\ Len(room) < N
          BY <4>1, <4>2, <4>3, FewerKept
      <4>5. \A j \in DOMAIN list : list[j].status = "open" => j \in places
          BY <1>4 DEF Removable
      <4>6. /\ AlertList(room) /\ OpenKept(list, room)
            /\ \A j \in DOMAIN room : \E l \in DOMAIN list : room[j] = list[l]
        <5>1. AlertList(list) /\ places \in SUBSET DOMAIN list
            BY <1>11, <4>3
        <5> QED BY <4>1, <4>5, <5>1, AlertsKept
      <4>7. N <= MaxAlerts
          BY <1>11, <1>12 DEF AlertBounds
      <4> QED BY <1>0, <4>4, <4>6, <4>7
    <3> QED BY <3>1, <3>2
  <2>3. PICK M \in Nat : M = Len(room) /\ DOMAIN room = 1 .. M
      BY <2>2, SequenceLength
  <2>4. /\ IsSequence(more) /\ Len(more) = M + 1 /\ \A i \in 1 .. M : more[i] = room[i]
        /\ more[M + 1] = fresh
      BY <1>9, <2>2, <2>3, OneEntryMore
  <2>5. DOMAIN more = 1 .. M + 1
      BY <2>4, SequenceLength
  <2>6. fresh.status = "open"
      BY <1>8 DEF FreshAlert
  <2>7. ASSUME NEW i \in 1 .. M + 1 PROVE more[i].status \in {"open", "acknowledged"}
    <3>1. CASE i = M + 1
        BY <2>4, <2>6, <3>1
    <3>2. CASE i # M + 1
      <4>1. i \in DOMAIN room /\ more[i] = room[i]
          BY <2>3, <2>4, <3>2
      <4> QED BY <1>11, <2>2, <4>1 DEF AlertBounds
    <3> QED BY <3>1, <3>2
  <2>8. Len(more) <= MaxAlerts
      BY <1>0, <2>2, <2>3, <2>4
  <2> QED BY <2>1, <2>5, <2>7, <2>8 DEF AlertBounds
<1> QED BY <1>10, <1>13, <1>14, <1>15, <1>16

\* deriveAlerts(), for every budget: the alerts keep to their bound.
LEMMA DerivedBounds ==
    ASSUME CostInv, AlertBounds(alerts), raised \in Nat, NEW r, r = Derived
    PROVE  AlertBounds(r.alerts) /\ r.raised \in Nat
<1>1. PICK N \in Nat : N = Len(budgets)
    BY SequenceLength DEF CostInv
<1>2. PICK st, list : st = Raising /\ list = budgets
    OBVIOUS
<1>3. PICK f : f = CHOOSE g : AfterBudgets(st, list, N, g)
    OBVIOUS
<1>4. AfterBudgets(st, list, N, f)
  <2>1. \E g : AfterBudgets(st, list, N, g)
      BY AfterBudgetsExist
  <2> QED BY <1>3, <2>1, Zenon
<1>5. r = f[N]
    BY <1>1, <1>2, <1>3, Zenon DEF Derived, AfterBudgets
<1>6. f[0] = st /\ \A n \in 1 .. N : f[n] = Raise(f[n - 1], list[n])
    BY <1>4 DEF AfterBudgets
<1>7. st.alerts = alerts /\ st.raised = raised
    BY <1>2 DEF Raising, Raised
<1> DEFINE Ns == {n \in 0 .. N :
                    AlertList(f[n].alerts) /\ AlertBounds(f[n].alerts) /\ f[n].raised \in Nat}
<1>8. 0 \in Ns
    BY <1>6, <1>7 DEF CostInv
<1>9. ASSUME NEW n \in 0 .. N - 1, n \in Ns PROVE n + 1 \in Ns
  <2>1. n + 1 \in 1 .. N /\ n + 1 \in 0 .. N /\ (n + 1) - 1 = n
      OBVIOUS
  <2>2. PICK x : x = f[n]
      OBVIOUS
  <2>3. PICK y : y = Raise(x, list[n + 1])
      OBVIOUS
  <2>4. f[n + 1] = y
      BY <1>6, <2>1, <2>2, <2>3
  <2>5. AlertList(x.alerts) /\ AlertBounds(x.alerts) /\ x.raised \in Nat
      BY <1>9, <2>2
  <2>6. AlertList(y.alerts)
      BY <2>3, <2>5, RaiseStep
  <2>7. AlertBounds(y.alerts) /\ y.raised \in Nat
      BY <2>3, <2>5, RaiseBounds
  <2> QED BY <2>1, <2>4, <2>6, <2>7
<1>10. N \in Ns
  <2>1. 0 .. N \subseteq Ns
    <3> HIDE DEF Ns
    <3> QED BY <1>8, <1>9, NumbersUpTo
  <2> HIDE DEF Ns
  <2> QED BY <2>1
<1> QED BY <1>5, <1>10

CostTypeInv ==
    /\ CostInv /\ CostTypeOK /\ IsFiniteSet(Records)
    /\ costRecord = [t \in CostTenant |-> costRecord[t]]
    /\ \A t \in CostTenant : costRecord[t] = [a \in CostAction |-> costRecord[t][a]]

\* What is written beside the records of costs.
LEMMA SameRecords ==
    ASSUME CostTypeInv, CostInv', costRecord' = costRecord,
           budgets' \in Seq(CostBudget), Len(budgets') <= MaxBudgets,
           AlertBounds(alerts'), raised' \in 0 .. MaxAlertsRaised
    PROVE  CostTypeInv'
<1>1. Records' = Records
    BY DEF Records
<1>2. Cardinality(Records') <= MaxCostRecords /\ IsFiniteSet(Records')
    BY <1>1 DEF CostTypeInv, CostTypeOK
<1>3. CostTypeOK'
    BY <1>2 DEF CostTypeOK, AlertBounds
<1> QED BY <1>2, <1>3 DEF CostTypeInv

\* The cost of an action is recorded.
LEMMA RecordCostTypes ==
    ASSUME CostTypeInv, NEW t \in CostTenant, NEW a \in CostAction, NEW value \in Attribution,
           NEW amount \in Amount, RecordCost(t, a, value, amount), CostInv'
    PROVE  CostTypeInv'
<1>1. PICK rec : rec = [recordedAt |-> now, attribution |-> value, amount |-> amount]
    OBVIOUS
<1>2. PICK row : row = [costRecord[t] EXCEPT ![a] = rec]
    OBVIOUS
<1>3. /\ Cardinality(Records) < MaxCostRecords /\ costRecord' = [costRecord EXCEPT ![t] = row]
      /\ budgets' = budgets /\ alerts' = alerts /\ raised' = raised
    BY <1>1, <1>2, Zenon DEF RecordCost
<1>4. /\ costRecord = [u \in CostTenant |-> costRecord[u]]
      /\ costRecord[t] = [b \in CostAction |-> costRecord[t][b]]
    BY DEF CostTypeInv
<1>5. row = [b \in CostAction |-> row[b]] /\ \A b \in CostAction : b # a => row[b] = costRecord[t][b]
    BY <1>2, <1>4
<1>6. costRecord' = [u \in CostTenant |-> costRecord'[u]] /\ costRecord'[t] = row
      /\ \A u \in CostTenant : u # t => costRecord'[u] = costRecord[u]
    BY <1>3, <1>4
<1>7. \A u \in CostTenant : costRecord'[u] = [b \in CostAction |-> costRecord'[u][b]]
  <2> SUFFICES ASSUME NEW u \in CostTenant PROVE costRecord'[u] = [b \in CostAction |-> costRecord'[u][b]]
      OBVIOUS
  <2>1. CASE u = t
      BY <1>5, <1>6, <2>1
  <2>2. CASE u # t
      BY <1>6, <2>2 DEF CostTypeInv
  <2> QED BY <2>1, <2>2
<1>8. Records' \subseteq Records \cup {<<t, a>>}
  <2> SUFFICES ASSUME NEW u \in CostTenant, NEW b \in CostAction, costRecord'[u][b] # NoCost,
                      ~(u = t /\ b = a)
               PROVE  costRecord[u][b] # NoCost
      BY DEF Records
  <2>1. costRecord'[u][b] = costRecord[u][b]
      BY <1>5, <1>6
  <2> QED BY <2>1
<1>9. IsFiniteSet(Records') /\ Cardinality(Records') <= MaxCostRecords
  <2>1. PICK S, T, x : S = Records /\ T = Records' /\ x = <<t, a>>
      OBVIOUS
  <2>2. IsFiniteSet(S) /\ MaxCostRecords \in Nat /\ Cardinality(S) < MaxCostRecords
      BY <1>3, <2>1, CostAssumption DEF CostTypeInv
  <2>3. T \subseteq S \cup {x}
      BY <1>8, <2>1
  <2>4. IsFiniteSet(T) /\ Cardinality(T) <= MaxCostRecords
      BY <2>2, <2>3, OneMoreElement
  <2> QED BY <2>1, <2>4
<1>10. CostTypeOK'
    BY <1>3, <1>9 DEF CostTypeInv, CostTypeOK
<1> QED BY <1>6, <1>7, <1>9, <1>10 DEF CostTypeInv

\* The budgets that configureBudget() and removeBudget() leave.
LEMMA BudgetTypes ==
    ASSUME CostTypeInv,
           (\E budget \in CostBudget : ConfigureBudget(budget)) \/ (\E b \in BudgetName : RemoveBudget(b))
    PROVE  budgets' \in Seq(CostBudget) /\ Len(budgets') <= MaxBudgets
<1>1. budgets \in Seq(CostBudget) /\ Len(budgets) <= MaxBudgets /\ MaxBudgets \in Nat
    BY CostAssumption DEF CostTypeInv, CostTypeOK
<1>2. PICK T : T = CostBudget
    OBVIOUS
<1>3. budgets \in Seq(T)
    BY <1>1, <1>2
<1>4. PICK N \in Nat : N = Len(budgets) /\ DOMAIN budgets = 1 .. N /\ \A i \in 1 .. N : budgets[i] \in T
    BY <1>3
<1>5. ASSUME NEW budget \in CostBudget, ConfigureBudget(budget)
      PROVE  budgets' \in Seq(T) /\ Len(budgets') <= MaxBudgets
  <2>1. CASE Named(budget.id) = {}
    <3>1. budgets' = Append(budgets, budget) /\ Len(budgets) < MaxBudgets
        BY <1>5, <2>1 DEF ConfigureBudget
    <3>2. budget \in T
        BY <1>2
    <3> QED BY <1>1, <1>3, <3>1, <3>2
  <2>2. CASE Named(budget.id) # {}
    <3>1. PICK q : q = budgets'
        OBVIOUS
    <3>2. q = [i \in DOMAIN budgets |-> IF i \in Named(budget.id) THEN budget ELSE budgets[i]]
        BY <1>5, <2>2, <3>1, Zenon DEF ConfigureBudget
    <3>3. q \in [1 .. N -> T]
        BY <1>2, <1>4, <3>2
    <3>4. q \in Seq(T) /\ Len(q) = N
        BY <3>3
    <3> QED BY <1>1, <1>4, <3>1, <3>4
  <2> QED BY <2>1, <2>2
<1>6. ASSUME NEW b \in BudgetName, RemoveBudget(b)
      PROVE  budgets' \in Seq(T) /\ Len(budgets') <= MaxBudgets
  <2>1. PICK places : places = DOMAIN budgets \ Named(b)
      OBVIOUS
  <2>2. PICK q : q = Kept(budgets, places)
      OBVIOUS
  <2>3. budgets' = q
      BY <1>6, <2>1, <2>2, Zenon DEF RemoveBudget
  <2>4. places \in SUBSET DOMAIN budgets /\ places \in SUBSET (1 .. N)
      BY <1>4, <2>1
  <2>5. q \in Seq(T)
      BY <1>3, <2>2, <2>4, KeptSequence
  <2>6. PICK i \in 1 .. N : i \notin places
      BY <1>4, <1>6, <2>1 DEF RemoveBudget, Named
  <2>7. Len(q) \in Nat /\ Len(q) < N
      BY <2>2, <2>4, <2>6, FewerKept
  <2> QED BY <1>1, <1>4, <2>3, <2>5, <2>7
<1> QED BY <1>2, <1>5, <1>6

\* Every step keeps the types and the bounds of cost governance.
LEMMA CostTypeStep ==
    ASSUME CostTypeInv, CostNext \/ UNCHANGED costVars
    PROVE  CostTypeInv'
<1>0. /\ budgets \in Seq(CostBudget) /\ Len(budgets) <= MaxBudgets
      /\ AlertBounds(alerts) /\ raised \in 0 .. MaxAlertsRaised
    BY DEF CostTypeInv, CostTypeOK, AlertBounds
<1>i. CostInv'
    BY CostStep DEF CostTypeInv
<1>1. CASE CostTick \/ UNCHANGED costVars
  <2>1. alerts' = alerts /\ budgets' = budgets /\ raised' = raised /\ costRecord' = costRecord
      BY <1>1 DEF CostTick, costOnly, costVars
  <2> QED BY <1>0, <1>i, <2>1, SameRecords
<1>2. CASE ListAlerts
  <2>1. PICK r : r = Derived
      OBVIOUS
  <2>2. /\ alerts' = r.alerts /\ raised' = r.raised /\ r.raised <= MaxAlertsRaised
        /\ budgets' = budgets /\ costRecord' = costRecord
      BY <1>2, <2>1, Zenon DEF ListAlerts
  <2>3. AlertBounds(r.alerts) /\ r.raised \in Nat
      BY <1>0, <2>1, DerivedBounds DEF CostTypeInv
  <2>4. raised' \in 0 .. MaxAlertsRaised
      BY <2>2, <2>3
  <2> QED BY <1>0, <1>i, <2>2, <2>3, <2>4, SameRecords
<1>3. ASSUME NEW t \in CostTenant, NEW a \in CostAction, NEW value \in Attribution, NEW amount \in Amount,
             RecordCost(t, a, value, amount)
      PROVE  CostTypeInv'
    BY <1>3, <1>i, RecordCostTypes
<1>4. CASE (\E budget \in CostBudget : ConfigureBudget(budget)) \/ (\E b \in BudgetName : RemoveBudget(b))
  <2>1. alerts' = alerts /\ raised' = raised /\ costRecord' = costRecord
      BY <1>4, Zenon DEF ConfigureBudget, RemoveBudget
  <2>2. budgets' \in Seq(CostBudget) /\ Len(budgets') <= MaxBudgets
      BY <1>4, BudgetTypes
  <2> QED BY <1>0, <1>i, <2>1, <2>2, SameRecords
<1>5. ASSUME NEW k \in DOMAIN alerts, AcknowledgeAlert(k) PROVE CostTypeInv'
  <2>1. PICK x : x = [alerts[k] EXCEPT !.status = "acknowledged"]
      OBVIOUS
  <2>2. /\ alerts' = [alerts EXCEPT ![k] = x] /\ budgets' = budgets /\ raised' = raised
        /\ costRecord' = costRecord
      BY <1>5, <2>1, Zenon DEF AcknowledgeAlert
  <2>3. PICK N \in Nat : N = Len(alerts) /\ DOMAIN alerts = 1 .. N /\ alerts = [i \in 1 .. N |-> alerts[i]]
      BY SequenceLength DEF CostTypeInv, CostInv, AlertList
  <2>4. PICK q : q = alerts'
      OBVIOUS
  <2>5. q = [i \in 1 .. N |-> q[i]] /\ q[k] = x /\ \A i \in 1 .. N : i # k => q[i] = alerts[i]
      BY <2>2, <2>3, <2>4
  <2>6. Len(q) = N /\ DOMAIN q = 1 .. N
      BY <2>5, FunctionSequence
  <2>7. x.status = "acknowledged"
    <3>1. AlertRecord(alerts[k])
        BY DEF CostTypeInv, CostInv, AlertList
    <3> QED BY <2>1, <3>1 DEF AlertRecord
  <2>8. AlertBounds(q)
      BY <1>0, <2>3, <2>5, <2>6, <2>7 DEF AlertBounds
  <2> QED BY <1>0, <1>i, <2>2, <2>4, <2>8, SameRecords
<1> QED BY <1>1, <1>2, <1>3, <1>4, <1>5 DEF CostNext

\* Cost governance keeps to its bounds: records, budgets and alerts, whatever makes room.
THEOREM CostTypes == CostSpec => []CostTypeOK
<1>1. CostInit => CostTypeInv
  <2> SUFFICES ASSUME CostInit PROVE CostTypeInv
      OBVIOUS
  <2>1. Records = {}
      BY DEF CostInit, Records
  <2>2. IsFiniteSet(Records) /\ Cardinality(Records) = 0
      BY <2>1, FS_EmptySet
  <2>3. <<>> \in Seq(CostBudget) /\ Len(<<>>) = 0 /\ DOMAIN <<>> = {}
    <3>1. PICK T : T = CostBudget
        OBVIOUS
    <3>2. <<>> \in Seq(T)
        OBVIOUS
    <3> QED BY <3>1, <3>2
  <2>4. CostTypeOK
      BY <2>2, <2>3, CostAssumption DEF CostInit, CostTypeOK
  <2> QED BY <2>2, <2>4, CostInitially DEF CostInit, CostTypeInv
<1>2. CostTypeInv /\ [CostNext]_costVars => CostTypeInv'
    BY CostTypeStep
<1> QED BY <1>1, <1>2, PTL DEF CostSpec, CostTypeInv
=============================================================================
