------------------------ MODULE ActionGatewayProofs ------------------------
(***************************************************************************)
(* Proofs about ActionGateway, composed with the safety controller and the *)
(* worlds, for any actions, workers, worlds, stops and limits: an action   *)
(* is performed at most once, and the gateway implements ActionExecution.  *)
(*                                                                         *)
(* The argument: whoever is inside execute() holds the lock of the record, *)
(* so the record moves only under it; the attempt is on disk before the    *)
(* side effect, and an attempt on disk keeps every later execute() out of  *)
(* the first-attempt path.  That a receipt in a world stands for a side    *)
(* effect of the action with that id is what reconciliation relies on.     *)
(***************************************************************************)
EXTENDS ActionGateway, SequenceTheorems, TLAPS

\* The statuses of the receipts in a record.
ReceiptStatus == {"requested", "attempted", "committed", "verified", "failed"}

\* The last receipt of an action, and the actions that were performed: what
\* ActionExecution sees.
Status(a) == IF record[a] = <<>> THEN "none" ELSE Last(record[a])
PerformedActions == {e.action : e \in effects}
PerformedIds == {actionId[a] : a \in PerformedActions}

\* What a world holds.
Suffix == World \X ActionId
Entity == [id : Suffix, owner : World, subscription : Suffix]
WorldState ==
    [clockAt : Nat,
     customers : Seq([id : Suffix, owner : World]),
     subscriptions : Seq([id : Suffix, owner : World, customer : Suffix]),
     issues : Seq([id : Nat, owner : World, subscription : Suffix]),
     messages : Seq(Entity), failures : Seq(Entity),
     receipts : Seq([actionId : ActionId, suffix : Suffix, issueNumber : Nat,
                     completedAt : Nat])]
WorldRecord == [identity : World, baseline : WorldState, state : WorldState]

\* What the invariant needs of the types.
Types ==
    /\ clock \in Nat
    /\ pc \in [Caller -> {"idle", "leased", "committing", "performed", "committed", "thrown"}]
    /\ lease \in [Caller -> [action : Action \cup {None}, admittedAt : Nat]]
    /\ effects \subseteq [action : Action, admittedAt : Nat]
    /\ record \in [Action -> Seq(ReceiptStatus)]
    /\ recordLock \in [ActionId -> Caller \cup {None}]
    /\ gpc \in [Caller -> {"idle", "reconcile", "proved", "fresh", "admitted", "attempted",
                           "inWorld", "executed", "committed", "verifying", "verified",
                           "failing", "failed"}]
    /\ job \in [Caller -> Action \cup {None}]

WorldTypes ==
    /\ world \in [World -> WorldRecord \cup {None}]
    /\ next \in [Caller -> WorldState \cup {None}]
    /\ fork \in [target : World, identity : World, state : WorldState] \cup {None}

\* A record file has one envelope, a record begins with its request, everything
\* else in it follows an attempt, and so does every side effect.
Records ==
    /\ \A a, b \in Action :
        actionId[a] = actionId[b] /\ record[a] # <<>> /\ record[b] # <<>> => a = b
    /\ \A a \in Action : Status(a) = "requested" =>
        \A s \in ReceiptStatus \ {"requested"} : ~Has(a, s)
    /\ \A a \in Action : Status(a) \notin {"none", "requested"} => Has(a, "attempted")
    /\ \A e \in effects : Has(e.action, "attempted")

\* The receipts of a world are those of performed actions.
OfPerformed(v) ==
    /\ world[v] \in WorldRecord
    /\ Worlds!ActionIds(world[v].state) \subseteq PerformedIds
    /\ Worlds!ActionIds(world[v].baseline) \subseteq PerformedIds

\* What a worker inside execute() may rely on.
Inside(w) ==
    /\ job[w] \in Action
    /\ recordLock[actionId[job[w]]] = w
    /\ gpc[w] \in {"reconcile", "proved", "fresh", "failed"} => pc[w] = "idle"
    /\ gpc[w] \in {"admitted", "attempted"} => pc[w] = "leased"
    /\ gpc[w] = "inWorld" => pc[w] \in {"leased", "committing", "performed"}
    /\ gpc[w] \in {"executed", "committed", "verifying", "verified"} => pc[w] = "committed"
    /\ gpc[w] = "failing" => pc[w] \in {"leased", "thrown", "committed"}
    /\ pc[w] # "idle" => lease[w].action = job[w]
    /\ gpc[w] \in {"fresh", "admitted"} => Status(job[w]) = "requested"
    /\ gpc[w] \in {"attempted", "inWorld", "executed"} => Status(job[w]) = "attempted"
    /\ gpc[w] \in {"committed", "verifying"} => Status(job[w]) = "committed"
    /\ gpc[w] \in {"failing", "failed"} => Status(job[w]) \in {"attempted", "committed"}
    /\ gpc[w] \in {"reconcile", "proved"} => Status(job[w]) \in {"attempted", "committed", "failed"}
    /\ gpc[w] \in {"proved", "executed", "committed", "verifying"} \/ pc[w] = "performed" =>
        job[w] \in PerformedActions
    /\ gpc[w] \in {"attempted", "inWorld"} /\ pc[w] # "performed" =>
        job[w] \notin PerformedActions
    /\ gpc[w] = "inWorld" =>
        /\ OfPerformed(worldId[job[w]])
        /\ next[w] \in WorldState
        /\ Worlds!ActionIds(next[w]) \subseteq PerformedIds \cup {actionId[job[w]]}

\* Whoever is inside execute() can rely on this; the others hold no lease.
Workers == \A w \in Caller : IF gpc[w] = "idle" THEN pc[w] = "idle" ELSE Inside(w)

\* Worlds, and forks on their way, have receipts of performed actions only.
ReceiptsOfPerformed ==
    /\ \A v \in World : world[v] # None => OfPerformed(v)
    /\ fork # None => Worlds!ActionIds(fork.state) \subseteq PerformedIds

\* The inductive invariant.
GatewayInv == Types /\ WorldTypes /\ Records /\ Workers /\ ReceiptsOfPerformed
-----------------------------------------------------------------------------
(***************************************************************************)
(* Records and worlds                                                      *)
(***************************************************************************)
\* AppendReceipts() with one receipt.
LEMMA OneReceipt ==
    ASSUME Types, NEW a \in Action, NEW s \in ReceiptStatus, AppendReceipts(a, <<s>>)
    PROVE  /\ record' \in [Action -> Seq(ReceiptStatus)]
           /\ \A b \in Action \ {a} : record'[b] = record[b]
           /\ record'[a] # <<>> /\ Last(record'[a]) = s
           /\ \A t : (\E i \in 1..Len(record'[a]) : record'[a][i] = t) <=> Has(a, t) \/ t = s
<1>1. record' = [record EXCEPT ![a] = record[a] \o <<s>>] /\ record[a] \in Seq(ReceiptStatus)
    BY DEF AppendReceipts, Types
<1>2. record'[a] = record[a] \o <<s>> /\ record'[a] \in Seq(ReceiptStatus)
    BY <1>1 DEF Types
<1>3. Len(record'[a]) = Len(record[a]) + 1 /\ Len(record[a]) \in Nat
    BY <1>1, <1>2
<1>4. record'[a][Len(record[a]) + 1] = s
      /\ \A i \in 1..Len(record[a]) : record'[a][i] = record[a][i]
    BY <1>1, <1>2
<1>5. record' \in [Action -> Seq(ReceiptStatus)] /\ \A b \in Action \ {a} : record'[b] = record[b]
    BY <1>1, <1>2 DEF Types
<1>6. record'[a] # <<>> /\ Last(record'[a]) = s
    BY <1>3, <1>4 DEF Last
<1>7. \A t : (\E i \in 1..Len(record'[a]) : record'[a][i] = t) <=> Has(a, t) \/ t = s
    BY <1>3, <1>4 DEF Has
<1> QED BY <1>5, <1>6, <1>7

\* A record that is there ends in one of its receipts.
LEMMA LastReceipt ==
    ASSUME Types, NEW a \in Action, record[a] # <<>>
    PROVE  Status(a) \in ReceiptStatus /\ Has(a, Status(a))
<1>1. record[a] \in Seq(ReceiptStatus) /\ Len(record[a]) \in 1..Len(record[a])
    BY DEF Types
<1> QED BY <1>1 DEF Status, Has, Last

\* The workflow adds the receipt of its action and nothing else to the receipts.
LEMMA WorkflowReceipts ==
    ASSUME NEW u \in WorldRecord, NEW id \in ActionId
    PROVE  /\ Worlds!Workflow(u, id) \in WorldState
           /\ Worlds!ActionIds(Worlds!Workflow(u, id)) \subseteq
                    Worlds!ActionIds(u.state) \cup {id}
<1> DEFINE s == u.state
           suffix == <<u.identity, id>>
           number == Worlds!IssueNumber(u)
           made == [actionId |-> id, suffix |-> suffix, issueNumber |-> number,
                    completedAt |-> s.clockAt + 1]
           wf == Worlds!Workflow(u, id)
<1>1. /\ s \in WorldState /\ u.identity \in World /\ suffix \in Suffix
    BY DEF Suffix, WorldRecord
<1>2. number \in Nat /\ s.clockAt + 1 \in Nat
    BY <1>1 DEF WorldState, Worlds!IssueNumber
<1>3. made \in [actionId : ActionId, suffix : Suffix, issueNumber : Nat, completedAt : Nat]
    BY <1>1, <1>2
<1>4. wf = [clockAt |-> s.clockAt + 1,
            customers |-> Append(s.customers, [id |-> suffix, owner |-> u.identity]),
            subscriptions |-> Append(s.subscriptions,
                [id |-> suffix, owner |-> u.identity, customer |-> suffix]),
            issues |-> Append(s.issues,
                [id |-> number, owner |-> u.identity, subscription |-> suffix]),
            messages |-> Append(s.messages,
                [id |-> suffix, owner |-> u.identity, subscription |-> suffix]),
            failures |-> Append(s.failures,
                [id |-> suffix, owner |-> u.identity, subscription |-> suffix]),
            receipts |-> Append(s.receipts, made)]
    <2>1. [[id |-> suffix, owner |-> u.identity, subscription |-> suffix] EXCEPT !.id = number]
                = [id |-> number, owner |-> u.identity, subscription |-> suffix]
        OBVIOUS
    <2> QED BY <2>1, Zenon DEF Worlds!Workflow
<1>5. wf \in WorldState
    BY <1>1, <1>2, <1>3, <1>4 DEF WorldState, Entity
<1>6. /\ wf.receipts = Append(s.receipts, made)
      /\ s.receipts \in Seq([actionId : ActionId, suffix : Suffix, issueNumber : Nat,
                             completedAt : Nat])
    <2>1. wf.receipts = Append(s.receipts, made)
        <3> HIDE DEF s, suffix, number, made, wf
        <3> QED BY <1>4
    <2>2. s.receipts \in Seq([actionId : ActionId, suffix : Suffix, issueNumber : Nat,
                              completedAt : Nat])
        BY <1>1 DEF WorldState
    <2> QED BY <2>1, <2>2
<1>7. \A i \in DOMAIN wf.receipts :
        \/ i \in DOMAIN s.receipts /\ wf.receipts[i] = s.receipts[i]
        \/ wf.receipts[i].actionId = id
    BY <1>3, <1>6
<1>8. Worlds!ActionIds(wf) \subseteq Worlds!ActionIds(s) \cup {id}
    BY <1>7 DEF Worlds!ActionIds
<1> QED BY <1>5, <1>8

\* A new world is empty.
LEMMA NewWorld ==
    Worlds!initialState \in WorldState /\ Worlds!ActionIds(Worlds!initialState) = {}
BY DEF Worlds!initialState, WorldState, Worlds!ActionIds
-----------------------------------------------------------------------------
(***************************************************************************)
(* What the steps of one worker leave alone                                *)
(***************************************************************************)
\* What the others rely on, when a step is about the record of one action whose
\* lock none of them holds.
LEMMA OtherWorkers ==
    ASSUME Types, Workers, NEW w, NEW a \in Action,
           \A u \in World : OfPerformed(u) => OfPerformed(u)',
           recordLock[actionId[a]] \in {w, None},
           \A v \in Caller \ {w} : /\ gpc'[v] = gpc[v] /\ pc'[v] = pc[v] /\ lease'[v] = lease[v]
                                   /\ job'[v] = job[v] /\ next'[v] = next[v],
           \A i \in ActionId \ {actionId[a]} : recordLock'[i] = recordLock[i],
           \A b \in Action \ {a} : record'[b] = record[b],
           effects \subseteq effects', \A e \in effects' \ effects : e.action = a
    PROVE  \A v \in Caller \ {w} : IF gpc'[v] = "idle" THEN pc'[v] = "idle" ELSE Inside(v)'
<1> SUFFICES ASSUME NEW v \in Caller \ {w}, gpc[v] # "idle"
             PROVE  Inside(v)'
    BY DEF Workers
<1>1. /\ Inside(v) /\ v # None /\ job'[v] = job[v] /\ job[v] \in Action
      /\ worldId[job[v]] \in World
    BY RecordAssumption DEF Workers, Inside
<1>2. actionId[job[v]] # actionId[a] /\ job[v] # a /\ actionId[job[v]] \in ActionId
    BY <1>1, RecordAssumption DEF Inside
<1>3. Status(job[v])' = Status(job[v])
    BY <1>1, <1>2 DEF Status
<1>4. /\ job[v] \in PerformedActions' <=> job[v] \in PerformedActions
      /\ PerformedIds \subseteq PerformedIds'
    BY <1>2 DEF PerformedActions, PerformedIds
<1>5. recordLock'[actionId[job'[v]]] = v
    BY <1>1, <1>2 DEF Inside
<1>6. gpc[v] = "inWorld" => OfPerformed(worldId[job[v]])'
    <2>1. PICK u \in World : u = worldId[job[v]]
        BY <1>1
    <2>2. gpc[v] = "inWorld" => OfPerformed(u)'
        BY <1>1, <2>1 DEF Inside
    <2> QED BY <1>1, <2>1, <2>2 DEF OfPerformed
<1> QED BY <1>1, <1>3, <1>4, <1>5, <1>6 DEF Inside

\* Steps that append no receipt and have no side effect leave the records sound.
LEMMA SameRecords ==
    ASSUME Records, UNCHANGED <<record, effects>>
    PROVE  Records'
BY DEF Records, Status, Has

\* Steps that write no world leave its receipts those of performed actions.
LEMMA SameWorlds ==
    ASSUME WorldTypes, ReceiptsOfPerformed, UNCHANGED <<world, fork>>, effects \subseteq effects'
    PROVE  ReceiptsOfPerformed' /\ \A u \in World : OfPerformed(u) => OfPerformed(u)'
BY DEF ReceiptsOfPerformed, OfPerformed, PerformedIds, PerformedActions

\* Steps that leave workers, records, locks, worlds and history as they are.
LEMMA SameWorkers ==
    ASSUME Workers, UNCHANGED <<pc, lease, effects, world, next, record, recordLock, gpc, job>>
    PROVE  Workers'
<1>1. \A a : Status(a)' = Status(a)
    BY DEF Status
<1>2. PerformedActions' = PerformedActions /\ PerformedIds' = PerformedIds
    BY DEF PerformedActions, PerformedIds
<1>3. \A v : OfPerformed(v)' <=> OfPerformed(v)
    BY <1>2 DEF OfPerformed
<1>4. ASSUME NEW w \in Caller
      PROVE  Inside(w)' <=> Inside(w)
    BY <1>1, <1>2, <1>3 DEF Inside
<1> QED BY <1>4 DEF Workers

\* Steps of the worker w on its own job that leave records, worlds and history as
\* they are.
LEMMA ControlStep ==
    ASSUME GatewayInv, NEW w \in Caller, gpc[w] # "idle",
           Types', UNCHANGED <<record, effects, world, fork>>, WorldTypes',
           \A v \in Caller \ {w} : /\ gpc'[v] = gpc[v] /\ pc'[v] = pc[v] /\ lease'[v] = lease[v]
                                   /\ job'[v] = job[v] /\ next'[v] = next[v],
           \A i \in ActionId \ {actionId[job[w]]} : recordLock'[i] = recordLock[i],
           IF gpc'[w] = "idle" THEN pc'[w] = "idle" ELSE Inside(w)'
    PROVE  GatewayInv'
<1>1. job[w] \in Action /\ recordLock[actionId[job[w]]] \in {w, None}
    BY DEF GatewayInv, Workers, Inside
<1>2. Workers'
    <2>1. \A v \in Caller \ {w} : IF gpc'[v] = "idle" THEN pc'[v] = "idle" ELSE Inside(v)'
        BY <1>1, OtherWorkers, SameWorlds DEF GatewayInv
    <2> QED BY <2>1 DEF Workers
<1>3. Records' /\ ReceiptsOfPerformed'
    BY SameRecords, SameWorlds DEF GatewayInv
<1> QED BY <1>2, <1>3 DEF GatewayInv

\* Inside execute(), for an action with a record.
LEMMA AtWork ==
    ASSUME GatewayInv, NEW w \in Caller, gpc[w] # "idle"
    PROVE  /\ Inside(w) /\ job[w] \in Action /\ actionId[job[w]] \in ActionId
           /\ worldId[job[w]] \in World
BY RecordAssumption DEF GatewayInv, Workers, Inside

\* execute() ends and leaves records, worlds and history as they are.
LEMMA LeaveStep ==
    ASSUME GatewayInv, NEW w \in Caller, gpc[w] # "idle", Leave(w),
           UNCHANGED <<clock, record, effects, world, fork>>, WorldTypes',
           \A v \in Caller \ {w} : next'[v] = next[v],
           \/ pc[w] = "idle" /\ UNCHANGED <<pc, lease>>
           \/ /\ pc' = [pc EXCEPT ![w] = "idle"]
              /\ lease' = [lease EXCEPT ![w] = Safety!NoLease]
    PROVE  GatewayInv'
<1>1. job[w] \in Action /\ actionId[job[w]] \in ActionId
    BY AtWork
<1>2. Types'
    BY <1>1 DEF GatewayInv, Types, Leave, Goto, Safety!NoLease
<1>3. /\ \A v \in Caller \ {w} : /\ gpc'[v] = gpc[v] /\ pc'[v] = pc[v] /\ lease'[v] = lease[v]
                                 /\ job'[v] = job[v]
      /\ \A i \in ActionId \ {actionId[job[w]]} : recordLock'[i] = recordLock[i]
      /\ gpc'[w] = "idle" /\ pc'[w] = "idle"
    BY DEF GatewayInv, Types, Leave, Goto
<1> QED BY <1>2, <1>3, ControlStep

\* Steps of execute() that move only the worker.
LEMMA GotoStep ==
    ASSUME GatewayInv, NEW w \in Caller, gpc[w] # "idle",
           NEW label \in {"reconcile", "proved", "fresh", "admitted", "attempted", "inWorld",
                          "executed", "committed", "verifying", "verified", "failing", "failed"},
           gpc' = [gpc EXCEPT ![w] = label],
           UNCHANGED <<clock, record, effects, world, fork, recordLock, job>>,
           NEW p \in {"idle", "leased", "committing", "performed", "committed", "thrown"},
           pc' = [pc EXCEPT ![w] = p],
           lease' \in [Caller -> [action : Action \cup {None}, admittedAt : Nat]],
           \A v \in Caller \ {w} : lease'[v] = lease[v] /\ next'[v] = next[v],
           WorldTypes', Inside(w)'
    PROVE  GatewayInv'
<1>1. Types'
    BY DEF GatewayInv, Types
<1>2. \A v \in Caller \ {w} : gpc'[v] = gpc[v] /\ pc'[v] = pc[v] /\ job'[v] = job[v]
    BY DEF GatewayInv, Types
<1> QED BY <1>1, <1>2, ControlStep

\* ReadProof: a receipt with the id of an action is the action's own.
LEMMA ProofIsPerformed ==
    ASSUME GatewayInv, NEW w \in Caller, gpc[w] # "idle", record[job[w]] # <<>>, Proved(w)
    PROVE  job[w] \in PerformedActions
<1>1. actionId[job[w]] \in PerformedIds
    BY AtWork DEF Proved, Worlds!Performed, Worlds!Exists, GatewayInv, OfPerformed,
                  ReceiptsOfPerformed
<1>2. PICK e \in effects : actionId[e.action] = actionId[job[w]]
    BY <1>1 DEF PerformedIds, PerformedActions
<1>3. e.action \in Action /\ record[e.action] # <<>>
    <2>1. e.action \in Action /\ Has(e.action, "attempted")
        BY DEF GatewayInv, Types, Records
    <2> QED BY <2>1 DEF Has
<1>4. e.action = job[w]
    BY <1>2, <1>3, AtWork DEF GatewayInv, Records
<1> QED BY <1>4 DEF PerformedActions

\* Reconciliation finds a proof: the receipt is that of the action itself.
LEMMA ReadProofStep ==
    ASSUME GatewayInv, NEW w \in Caller, ReadProof(w)
    PROVE  GatewayInv'
<1>1. gpc[w] = "reconcile" /\ Inside(w)
    BY AtWork DEF ReadProof
<1>2. record[job[w]] # <<>>
    BY <1>1 DEF Inside, Status
<1>3. job[w] \in PerformedActions
    BY <1>1, <1>2, ProofIsPerformed DEF ReadProof
<1>4. /\ gpc' = [gpc EXCEPT ![w] = "proved"] /\ gpc'[w] = "proved"
      /\ pc' = [pc EXCEPT ![w] = "idle"]
      /\ UNCHANGED <<clock, pc, lease, effects, record, recordLock, job, world, worldLock,
                     next, fork>>
    BY <1>1 DEF ReadProof, Goto, safetyVars, worldVars, GatewayInv, Types, Inside
<1>5. Inside(w)'
    BY <1>1, <1>3, <1>4 DEF Inside, Status, PerformedActions, PerformedIds
<1>6. WorldTypes' /\ lease' \in [Caller -> [action : Action \cup {None}, admittedAt : Nat]]
    BY <1>4 DEF GatewayInv, WorldTypes, Types
<1> QED BY <1>1, <1>4, <1>5, <1>6, GotoStep

\* UnlockWorlds() forgets the state that the worker was about to write.
LEMMA Unlocked ==
    ASSUME WorldTypes, NEW w \in Caller, Worlds!UnlockWorlds(w)
    PROVE  WorldTypes' /\ UNCHANGED <<world, fork>> /\ \A v \in Caller \ {w} : next'[v] = next[v]
BY DEF WorldTypes, Worlds!UnlockWorlds

\* The steps with which a worker leaves execute(), and its death at any moment.
LEMMA LeavingSteps ==
    ASSUME GatewayInv, NEW w \in Caller,
           \/ NoProof(w) \/ AdmitReplayed(w) \/ AdmitRefused(w) \/ CompleteSuccess(w)
           \/ CompleteThrows(w) \/ WorkerDies(w)
    PROVE  GatewayInv'
<1>1. CASE NoProof(w) \/ AdmitReplayed(w) \/ AdmitRefused(w)
    <2>1. /\ gpc[w] \in {"reconcile", "fresh"} /\ Leave(w)
          /\ UNCHANGED <<clock, record, effects, pc, lease, world, next, fork>>
        BY <1>1 DEF NoProof, AdmitReplayed, AdmitRefused, safetyVars, worldVars,
                    Safety!AdmitReplay, Safety!callers
    <2>2. pc[w] = "idle"
        BY <2>1, AtWork DEF Inside
    <2>3. WorldTypes'
        BY <2>1 DEF GatewayInv, WorldTypes
    <2> QED BY <2>1, <2>2, <2>3, LeaveStep
<1>2. CASE CompleteSuccess(w) \/ CompleteThrows(w)
    <2>1. /\ gpc[w] \in {"verified", "failing"} /\ Leave(w)
          /\ UNCHANGED <<clock, record, effects, world, next, fork>>
          /\ pc' = [pc EXCEPT ![w] = "idle"]
          /\ lease' = [lease EXCEPT ![w] = Safety!NoLease]
        BY <1>2 DEF CompleteSuccess, CompleteThrows, worldVars, Safety!Complete, Safety!Abandon
    <2>2. WorldTypes'
        BY <2>1 DEF GatewayInv, WorldTypes
    <2> QED BY <2>1, <2>2, LeaveStep
<1>3. CASE WorkerDies(w)
    <2>1. /\ gpc[w] # "idle" /\ Leave(w) /\ UNCHANGED <<clock, record, effects>>
          /\ \/ pc[w] = "idle" /\ UNCHANGED <<pc, lease>>
             \/ /\ pc' = [pc EXCEPT ![w] = "idle"]
                /\ lease' = [lease EXCEPT ![w] = Safety!NoLease]
        BY <1>3 DEF WorkerDies, safetyVars, Safety!Abandon
    <2>2. WorldTypes' /\ UNCHANGED <<world, fork>> /\ \A v \in Caller \ {w} : next'[v] = next[v]
        BY <1>3, Unlocked DEF WorkerDies, GatewayInv
    <2> QED BY <2>1, <2>2, LeaveStep
<1> QED BY <1>1, <1>2, <1>3

\* A first attempt up to the side effect.
LEMMA AttemptSteps ==
    ASSUME GatewayInv, NEW w \in Caller,
           AdmitAction(w) \/ CommitFirstPhase(w) \/ EnterWorld(w)
    PROVE  GatewayInv'
<1>1. CASE AdmitAction(w)
    <2>1. /\ gpc[w] = "fresh" /\ gpc' = [gpc EXCEPT ![w] = "admitted"]
          /\ pc' = [pc EXCEPT ![w] = "leased"]
          /\ lease' = [lease EXCEPT ![w] = [action |-> job[w], admittedAt |-> clock]]
          /\ UNCHANGED <<clock, record, effects, world, next, fork, recordLock, job>>
        BY <1>1 DEF AdmitAction, Goto, worldVars, Safety!Admit
    <2>2. Inside(w) /\ job[w] \in Action
        BY <2>1, AtWork
    <2>3. gpc'[w] = "admitted" /\ pc'[w] = "leased" /\ lease'[w].action = job[w]
        BY <2>1 DEF GatewayInv, Types
    <2>4. Inside(w)'
        BY <2>1, <2>2, <2>3 DEF Inside, Status, PerformedActions, PerformedIds
    <2>5. /\ WorldTypes' /\ lease' \in [Caller -> [action : Action \cup {None}, admittedAt : Nat]]
          /\ \A v \in Caller \ {w} : lease'[v] = lease[v] /\ next'[v] = next[v]
        BY <2>1, <2>2 DEF GatewayInv, WorldTypes, Types
    <2> QED BY <2>1, <2>4, <2>5, GotoStep
<1>2. CASE CommitFirstPhase(w)
    <2>1. /\ gpc[w] = "inWorld" /\ pc[w] = "leased" /\ pc' = [pc EXCEPT ![w] = "committing"]
          /\ UNCHANGED <<clock, record, effects, world, next, fork, recordLock, job, lease, gpc>>
        BY <1>2 DEF CommitFirstPhase, worldVars, gatewayVars, Safety!CommitCheck
    <2>2. Inside(w) /\ job[w] \in Action
        BY <2>1, AtWork
    <2>3. gpc' = [gpc EXCEPT ![w] = "inWorld"] /\ gpc'[w] = "inWorld" /\ pc'[w] = "committing"
        BY <2>1 DEF GatewayInv, Types
    <2>4. Inside(w)'
        BY <2>1, <2>2, <2>3 DEF Inside, OfPerformed, Status, PerformedActions, PerformedIds
    <2>5. WorldTypes' /\ lease' \in [Caller -> [action : Action \cup {None}, admittedAt : Nat]]
        BY <2>1 DEF GatewayInv, WorldTypes, Types
    <2> QED BY <2>1, <2>3, <2>4, <2>5, GotoStep
<1>3. CASE EnterWorld(w)
    <2> DEFINE v == worldId[job[w]]
               id == actionId[job[w]]
    <2>1. /\ gpc[w] = "attempted" /\ gpc' = [gpc EXCEPT ![w] = "inWorld"]
          /\ Worlds!BeginWorkflow(w, v, id)
          /\ UNCHANGED <<clock, pc, lease, effects, record, recordLock, job, world, fork>>
        BY <1>3 DEF EnterWorld, Goto, safetyVars, Worlds!BeginWorkflow
    <2>2. Inside(w) /\ job[w] \in Action /\ v \in World /\ id \in ActionId
        BY <2>1, AtWork
    <2>3. /\ OfPerformed(v)
          /\ world[v] \in WorldRecord /\ world[v].state \in WorldState
          /\ Worlds!ActionIds(world[v].state) \subseteq PerformedIds
        BY <2>1, <2>2 DEF WorldRecord, GatewayInv, OfPerformed, ReceiptsOfPerformed, Worlds!BeginWorkflow,
                          Worlds!Readable, Worlds!Exists
    <2>4. \E s \in WorldState : /\ next' = [next EXCEPT ![w] = s]
                                /\ Worlds!ActionIds(s) \subseteq PerformedIds \cup {id}
        <3>1. CASE next' = [next EXCEPT ![w] = world[v].state]
            BY <3>1, <2>3
        <3>2. CASE next' = [next EXCEPT ![w] = Worlds!Workflow(world[v], id)]
            <4>1. /\ Worlds!Workflow(world[v], id) \in WorldState
                  /\ Worlds!ActionIds(Worlds!Workflow(world[v], id)) \subseteq
                        Worlds!ActionIds(world[v].state) \cup {id}
                BY <2>2, <2>3, WorkflowReceipts
            <4> QED BY <3>2, <4>1, <2>3
        <3> QED BY <2>1, <3>1, <3>2 DEF Worlds!BeginWorkflow
    <2>5. PICK s \in WorldState : /\ next' = [next EXCEPT ![w] = s]
                                  /\ Worlds!ActionIds(s) \subseteq PerformedIds \cup {id}
        BY <2>4
    <2>6. WorldTypes' /\ next'[w] = s /\ \A u \in Caller \ {w} : next'[u] = next[u]
        BY <2>1, <2>5 DEF GatewayInv, WorldTypes
    <2>7. gpc'[w] = "inWorld" /\ pc'[w] = "leased" /\ pc[w] = "leased"
        BY <2>1, <2>2 DEF GatewayInv, Types, Inside
    <2>8. Inside(w)'
        <3>1. Status(job[w])' = Status(job[w]) /\ PerformedActions' = PerformedActions
              /\ PerformedIds' = PerformedIds
            BY <2>1 DEF Status, PerformedActions, PerformedIds
        <3> QED BY <2>1, <2>2, <2>3, <2>5, <2>6, <2>7, <3>1 DEF Inside, OfPerformed
    <2>9. /\ lease' \in [Caller -> [action : Action \cup {None}, admittedAt : Nat]]
          /\ pc' = [pc EXCEPT ![w] = "leased"]
        BY <2>1, <2>7 DEF GatewayInv, Types
    <2> QED BY <2>1, <2>6, <2>8, <2>9, GotoStep
<1> QED BY <1>1, <1>2, <1>3

\* After the side effect, or when there was none to be had.
LEMMA OutcomeSteps ==
    ASSUME GatewayInv, NEW w \in Caller,
           \/ CommitSecondPhase(w) \/ ExecuteFails(w) \/ OutcomeUnknown(w) \/ Verify(w)
           \/ CompleteFailure(w)
    PROVE  GatewayInv'
<1>1. CASE CommitSecondPhase(w)
    <2>1. /\ gpc[w] = "inWorld" /\ gpc' = [gpc EXCEPT ![w] = "executed"]
          /\ pc[w] = "performed" /\ pc' = [pc EXCEPT ![w] = "committed"]
          /\ UNCHANGED <<clock, lease, effects, record, recordLock, job>>
          /\ Worlds!UnlockWorlds(w)
        BY <1>1 DEF CommitSecondPhase, Goto, Safety!CommitSeal
    <2>2. Inside(w) /\ job[w] \in Action
        BY <2>1, AtWork
    <2>3. /\ WorldTypes' /\ UNCHANGED <<world, fork>>
          /\ \A v \in Caller \ {w} : next'[v] = next[v]
        BY <2>1, Unlocked DEF GatewayInv
    <2>4. gpc'[w] = "executed" /\ pc'[w] = "committed"
        BY <2>1 DEF GatewayInv, Types
    <2>5. Inside(w)'
        BY <2>1, <2>2, <2>4 DEF Inside, Status, PerformedActions
    <2>6. lease' \in [Caller -> [action : Action \cup {None}, admittedAt : Nat]]
        BY <2>1 DEF GatewayInv, Types
    <2> QED BY <2>1, <2>3, <2>5, <2>6, GotoStep
<1>2. CASE ExecuteFails(w)
    <2>1. /\ gpc[w] \in {"inWorld", "attempted"} /\ gpc' = [gpc EXCEPT ![w] = "failing"]
          /\ \/ pc' = [pc EXCEPT ![w] = "thrown"]
             \/ gpc[w] = "attempted" /\ pc' = pc
          /\ UNCHANGED <<clock, lease, effects, record, recordLock, job>>
          /\ Worlds!UnlockWorlds(w)
        BY <1>2 DEF ExecuteFails, Goto, Safety!CommitThrows, safetyVars
    <2>2. Inside(w) /\ job[w] \in Action
        BY <2>1, AtWork
    <2>3. /\ WorldTypes' /\ UNCHANGED <<world, fork>>
          /\ \A v \in Caller \ {w} : next'[v] = next[v]
        BY <2>1, Unlocked DEF GatewayInv
    <2>4. /\ gpc'[w] = "failing"
          /\ \E p \in {"thrown", "leased"} : pc' = [pc EXCEPT ![w] = p] /\ pc'[w] = p
        BY <2>1, <2>2 DEF GatewayInv, Types, Inside
    <2>5. Inside(w)'
        BY <2>1, <2>2, <2>4 DEF Inside, Status, PerformedActions
    <2>6. lease' \in [Caller -> [action : Action \cup {None}, admittedAt : Nat]]
        BY <2>1 DEF GatewayInv, Types
    <2> QED BY <2>1, <2>3, <2>4, <2>5, <2>6, GotoStep
<1>3. CASE OutcomeUnknown(w) \/ Verify(w)
    <2>1. /\ gpc[w] \in {"executed", "committed"}
          /\ \/ gpc' = [gpc EXCEPT ![w] = "failing"]
             \/ gpc[w] = "committed" /\ gpc' = [gpc EXCEPT ![w] = "verifying"]
          /\ UNCHANGED <<clock, pc, lease, effects, record, recordLock, job, world, next, fork>>
        BY <1>3 DEF OutcomeUnknown, Verify, Goto, safetyVars, worldVars
    <2>2. Inside(w) /\ job[w] \in Action
        BY <2>1, AtWork
    <2>3. PICK label \in {"failing", "verifying"} :
            /\ gpc' = [gpc EXCEPT ![w] = label] /\ gpc'[w] = label
            /\ label = "verifying" => gpc[w] = "committed"
        BY <2>1 DEF GatewayInv, Types
    <2>4. pc' = [pc EXCEPT ![w] = "committed"] /\ pc'[w] = "committed"
        BY <2>1, <2>2 DEF GatewayInv, Types, Inside
    <2>5. Inside(w)'
        BY <2>1, <2>2, <2>3, <2>4 DEF Inside, Status, PerformedActions
    <2>6. WorldTypes' /\ lease' \in [Caller -> [action : Action \cup {None}, admittedAt : Nat]]
        BY <2>1 DEF GatewayInv, WorldTypes, Types
    <2> QED BY <2>1, <2>3, <2>4, <2>5, <2>6, GotoStep
<1>4. CASE CompleteFailure(w)
    <2>1. /\ gpc[w] = "failing" /\ gpc' = [gpc EXCEPT ![w] = "failed"]
          /\ pc' = [pc EXCEPT ![w] = "idle"]
          /\ lease' = [lease EXCEPT ![w] = Safety!NoLease]
          /\ UNCHANGED <<clock, effects, record, recordLock, job, world, next, fork>>
        BY <1>4 DEF CompleteFailure, Goto, worldVars, Safety!Complete
    <2>2. Inside(w) /\ job[w] \in Action
        BY <2>1, AtWork
    <2>3. gpc'[w] = "failed" /\ pc'[w] = "idle"
        BY <2>1 DEF GatewayInv, Types
    <2>4. Inside(w)'
        BY <2>1, <2>2, <2>3 DEF Inside, Status, PerformedActions
    <2>5. /\ WorldTypes' /\ lease' \in [Caller -> [action : Action \cup {None}, admittedAt : Nat]]
          /\ \A v \in Caller \ {w} : lease'[v] = lease[v]
        BY <2>1 DEF GatewayInv, WorldTypes, Types, Safety!NoLease
    <2> QED BY <2>1, <2>4, <2>5, GotoStep
<1> QED BY <1>1, <1>2, <1>3, <1>4

\* The side effect: it is the first of its action, and the world gets its receipt.
LEMMA OperationStep ==
    ASSUME GatewayInv, NEW w \in Caller, CommitOperation(w)
    PROVE  /\ GatewayInv'
           /\ job[w] \notin PerformedActions /\ Status(job[w]) = "attempted"
           /\ effects' = effects \cup {lease[w]} /\ lease[w].action = job[w]
<1> DEFINE v == worldId[job[w]]
           a == job[w]
<1>1. /\ gpc[w] = "inWorld" /\ pc[w] = "committing" /\ pc' = [pc EXCEPT ![w] = "performed"]
      /\ effects' = effects \cup {lease[w]}
      /\ world' = [world EXCEPT ![v].state = next[w]]
      /\ UNCHANGED <<clock, lease, record, recordLock, gpc, job, next, fork>>
    BY DEF CommitOperation, gatewayVars, Safety!Operation, Worlds!WriteWorld
<1>2. /\ Inside(w) /\ a \in Action /\ actionId[a] \in ActionId /\ v \in World
      /\ lease[w].action = a /\ recordLock[actionId[a]] = w
      /\ a \notin PerformedActions /\ Status(a) = "attempted"
    BY <1>1, AtWork DEF Inside
<1>3. lease[w] \in [action : Action, admittedAt : Nat]
    BY <1>2 DEF GatewayInv, Types
<1>4. Types'
    BY <1>1, <1>3 DEF GatewayInv, Types
<1>5. next[w] \in WorldState /\ Worlds!ActionIds(next[w]) \subseteq PerformedIds \cup {actionId[a]}
    BY <1>1, <1>2 DEF Inside
<1>6. PerformedIds' = PerformedIds \cup {actionId[a]} /\ PerformedActions' = PerformedActions \cup {a}
    BY <1>1, <1>2 DEF PerformedIds, PerformedActions
<1>7. \A u \in World : world'[u] = world[u] \/ (u = v /\ world'[v] = [world[v] EXCEPT !.state = next[w]])
    BY <1>1, <1>2 DEF GatewayInv, WorldTypes
<1>8. world[v] \in WorldRecord /\ [world[v] EXCEPT !.state = next[w]] \in WorldRecord
      /\ [world[v] EXCEPT !.state = next[w]].state = next[w]
      /\ [world[v] EXCEPT !.state = next[w]].baseline = world[v].baseline
    BY <1>1, <1>2, <1>5 DEF Inside, OfPerformed, WorldRecord
<1>9. WorldTypes'
    BY <1>1, <1>2, <1>8 DEF GatewayInv, WorldTypes
<1>10. Records'
    <2>1. Has(a, "attempted")
        BY <1>2 DEF GatewayInv, Records
    <2> QED BY <1>1, <1>2, <2>1 DEF GatewayInv, Records, Status, Has
<1>11. \A u \in World : OfPerformed(u) => OfPerformed(u)'
    <2> SUFFICES ASSUME NEW u \in World, OfPerformed(u) PROVE OfPerformed(u)'
        OBVIOUS
    <2>1. CASE world'[u] = world[u]
        BY <2>1, <1>6 DEF OfPerformed
    <2>2. CASE u = v /\ world'[v] = [world[v] EXCEPT !.state = next[w]]
        BY <2>2, <1>5, <1>6, <1>8 DEF OfPerformed
    <2> QED BY <1>7, <2>1, <2>2
<1>12. OfPerformed(v) /\ ReceiptsOfPerformed'
    <2>1. OfPerformed(v)
        BY <1>1, <1>2 DEF Inside
    <2>2. \A u \in World : world'[u] # None => OfPerformed(u)'
        BY <1>7, <1>11, <2>1 DEF GatewayInv, ReceiptsOfPerformed
    <2> QED BY <1>1, <1>6, <2>1, <2>2 DEF GatewayInv, ReceiptsOfPerformed
<1>13. Workers'
    <2>1. Inside(w)'
        <3>1. PICK u \in World : u = v
            BY <1>2
        <3>2. OfPerformed(u)'
            BY <1>11, <1>12, <3>1
        <3>3. Status(a)' = Status(a) /\ gpc'[w] = "inWorld" /\ pc'[w] = "performed"
            BY <1>1, <1>2 DEF Status, GatewayInv, Types
        <3>4. OfPerformed(v)'
            BY <1>1, <3>1, <3>2 DEF OfPerformed
        <3> QED BY <1>1, <1>2, <1>5, <1>6, <3>3, <3>4 DEF Inside
    <2>2. \A u \in Caller \ {w} : IF gpc'[u] = "idle" THEN pc'[u] = "idle" ELSE Inside(u)'
        <3>1. \A u \in Caller \ {w} : pc'[u] = pc[u]
            BY <1>1 DEF GatewayInv, Types
        <3> QED BY <1>1, <1>2, <1>11, <3>1, OtherWorkers DEF GatewayInv
    <2> QED BY <1>1, <2>1, <2>2 DEF Workers
<1> QED BY <1>1, <1>2, <1>4, <1>9, <1>10, <1>12, <1>13 DEF GatewayInv

\* A receipt that the holder of the lock appends to a record that has begun.
LEMMA ReceiptStep ==
    ASSUME GatewayInv, NEW w \in Caller, gpc[w] # "idle", NEW a \in Action, a = job[w],
           Status(a) # "none",
           NEW s \in ReceiptStatus \ {"requested"}, Status(a)' = s,
           record' \in [Action -> Seq(ReceiptStatus)],
           \A b \in Action \ {a} : record'[b] = record[b],
           \A t \in ReceiptStatus : Has(a, t) => Has(a, t)',
           Has(a, "attempted") \/ s = "attempted", s = "attempted" => Has(a, s)',
           UNCHANGED <<clock, pc, lease, effects, world, next, fork>>,
           \/ Leave(w) /\ pc[w] = "idle"
           \/ /\ \E label \in {"attempted", "committed", "verified"} : Goto(w, label)
              /\ UNCHANGED <<recordLock, job>>
              /\ Inside(w)'
    PROVE  GatewayInv'
<1>1. Inside(w) /\ actionId[a] \in ActionId /\ recordLock[actionId[a]] = w
    BY AtWork DEF Inside
<1>2. Types'
    BY <1>1 DEF GatewayInv, Types, Leave, Goto
<1>3. WorldTypes'
    BY DEF GatewayInv, WorldTypes
<1>4. ReceiptsOfPerformed'
    BY SameWorlds DEF GatewayInv
<1>5. Records'
    <2>1. record[a] # <<>> /\ Has(a, "attempted")'
        BY DEF Status, ReceiptStatus
    <2>2. \A b \in Action \ {a} : /\ Status(b)' = Status(b)
                                  /\ \A t : Has(b, t)' <=> Has(b, t)
        BY DEF Status, Has
    <2>3. \A b, c \in Action :
            actionId[b] = actionId[c] /\ record'[b] # <<>> /\ record'[c] # <<>> => b = c
        BY <1>1, <2>1 DEF GatewayInv, Records
    <2>4. \A b \in Action : Status(b)' = "requested" =>
            \A t \in ReceiptStatus \ {"requested"} : ~Has(b, t)'
        BY <1>1, <2>2 DEF GatewayInv, Records
    <2>5. \A b \in Action : Status(b)' \notin {"none", "requested"} => Has(b, "attempted")'
        BY <1>1, <2>1, <2>2 DEF GatewayInv, Records
    <2>6. \A e \in effects' : Has(e.action, "attempted")'
        BY <1>1, <2>1, <2>2 DEF GatewayInv, Records, Types
    <2> QED BY <2>3, <2>4, <2>5, <2>6 DEF Records
<1>6. Workers'
    <2>1. \A v \in Caller \ {w} : /\ gpc'[v] = gpc[v] /\ pc'[v] = pc[v] /\ lease'[v] = lease[v]
                                  /\ job'[v] = job[v] /\ next'[v] = next[v]
        BY DEF GatewayInv, Types, Leave, Goto
    <2>2. \A i \in ActionId \ {actionId[a]} : recordLock'[i] = recordLock[i]
        BY DEF GatewayInv, Types, Leave
    <2>3. \A v \in Caller \ {w} : IF gpc'[v] = "idle" THEN pc'[v] = "idle" ELSE Inside(v)'
        BY <1>1, <2>1, <2>2, OtherWorkers, SameWorlds DEF GatewayInv
    <2>4. IF gpc'[w] = "idle" THEN pc'[w] = "idle" ELSE Inside(w)'
        BY DEF GatewayInv, Types, Leave, Goto
    <2> QED BY <2>3, <2>4 DEF Workers
<1> QED BY <1>2, <1>3, <1>4, <1>5, <1>6 DEF GatewayInv

\* The same for the two receipts that reconciliation writes at once.
LEMMA TwoReceipts ==
    ASSUME Types, NEW a \in Action, AppendReceipts(a, <<"committed", "verified">>)
    PROVE  /\ record' \in [Action -> Seq(ReceiptStatus)]
           /\ \A b \in Action \ {a} : record'[b] = record[b]
           /\ record'[a] # <<>> /\ Last(record'[a]) = "verified"
           /\ \A t : Has(a, t) => \E i \in 1..Len(record'[a]) : record'[a][i] = t
<1> DEFINE two == <<"committed", "verified">>
<1>1. record[a] \in Seq(ReceiptStatus) /\ two \in Seq(ReceiptStatus) /\ Len(two) = 2
    BY DEF Types, ReceiptStatus
<1>2. record' = [record EXCEPT ![a] = record[a] \o two]
    BY DEF AppendReceipts
<1>3. record'[a] = record[a] \o two /\ record'[a] \in Seq(ReceiptStatus)
    BY <1>1, <1>2 DEF Types
<1>4. /\ Len(record'[a]) = Len(record[a]) + 2 /\ Len(record[a]) \in Nat
      /\ record'[a][Len(record[a]) + 2] = "verified"
      /\ \A i \in 1..Len(record[a]) : record'[a][i] = record[a][i]
    BY <1>1, <1>3
<1>5. record' \in [Action -> Seq(ReceiptStatus)] /\ \A b \in Action \ {a} : record'[b] = record[b]
    BY <1>2, <1>3 DEF Types
<1>6. record'[a] # <<>> /\ Last(record'[a]) = "verified"
    BY <1>4 DEF Last
<1>7. \A t : Has(a, t) => \E i \in 1..Len(record'[a]) : record'[a][i] = t
    BY <1>4 DEF Has
<1> QED BY <1>5, <1>6, <1>7

\* What a report does to the record: it is the status, and nothing is lost.
LEMMA ReportedReceipt ==
    ASSUME Types, NEW a \in Action, NEW s \in ReceiptStatus, AppendReceipts(a, <<s>>)
    PROVE  /\ record' \in [Action -> Seq(ReceiptStatus)]
           /\ \A b \in Action \ {a} : record'[b] = record[b]
           /\ Status(a)' = s /\ Has(a, s)'
           /\ \A t \in ReceiptStatus : Has(a, t) => Has(a, t)'
<1>1. /\ record' \in [Action -> Seq(ReceiptStatus)]
      /\ \A b \in Action \ {a} : record'[b] = record[b]
      /\ record'[a] # <<>> /\ Last(record'[a]) = s
      /\ \A t : (\E i \in 1..Len(record'[a]) : record'[a][i] = t) <=> Has(a, t) \/ t = s
    BY OneReceipt
<1>2. \A t : Has(a, t)' <=> Has(a, t) \/ t = s
    BY <1>1 DEF Has
<1> QED BY <1>1, <1>2 DEF Status

\* What a receipt does to the status, for a step that reports.
LEMMA WriteSteps ==
    ASSUME GatewayInv, NEW w \in Caller, NEW a \in Action, a = job[w],
           \/ WriteAttempted(w) \/ WriteCommitted(w) \/ WriteVerified(w) \/ WriteFailed(w)
           \/ WriteReconciled(w)
    PROVE  /\ GatewayInv'
           /\ \A b \in Action \ {a} : record'[b] = record[b]
           /\ \/ Status(a) = "requested" /\ Status(a)' = "attempted"
              \/ Status(a) \in {"attempted", "committed"} /\ Status(a)' = "failed"
              \/ /\ a \in PerformedActions
                 /\ \/ Status(a) = "attempted" /\ Status(a)' = "committed"
                    \/ /\ Status(a) \in {"attempted", "failed", "committed"}
                       /\ Status(a)' = "verified"
<1>1. gpc[w] # "idle" /\ Inside(w)
    BY AtWork DEF WriteAttempted, WriteCommitted, WriteVerified, WriteFailed, WriteReconciled
<1>2. UNCHANGED <<clock, pc, lease, effects, world, next, fork>>
    BY DEF WriteAttempted, WriteCommitted, WriteVerified, WriteFailed, WriteReconciled,
           safetyVars, worldVars
<1>3. Status(a) # "none" /\ (Status(a) # "requested" => Has(a, "attempted"))
    BY <1>1 DEF GatewayInv, Records, Inside, WriteAttempted, WriteCommitted, WriteVerified,
                WriteFailed, WriteReconciled
<1>4. ASSUME NEW s \in ReceiptStatus \ {"requested"}, AppendReceipts(a, <<s>>)
      PROVE  /\ record' \in [Action -> Seq(ReceiptStatus)]
             /\ \A b \in Action \ {a} : record'[b] = record[b]
             /\ Status(a)' = s /\ Has(a, s)'
             /\ \A t \in ReceiptStatus : Has(a, t) => Has(a, t)'
    BY <1>4, ReportedReceipt DEF GatewayInv
<1>5. CASE WriteAttempted(w)
    <2>1. /\ AppendReceipts(a, <<"attempted">>) /\ Goto(w, "attempted") /\ UNCHANGED <<recordLock, job>>
          /\ gpc[w] = "admitted"
        BY <1>5 DEF WriteAttempted
    <2>2. a \notin PerformedActions /\ Status(a) = "requested"
        BY <1>1, <2>1 DEF GatewayInv, Records, PerformedActions, Inside, ReceiptStatus
    <2>3. Inside(w)'
        <3>1. gpc'[w] = "attempted" /\ Status(a)' = "attempted" /\ PerformedActions' = PerformedActions
            BY <2>1, <1>2, <1>4 DEF GatewayInv, Types, Goto, PerformedActions, ReceiptStatus
        <3> QED BY <1>1, <1>2, <2>1, <2>2, <3>1 DEF Inside
    <2>4. GatewayInv'
        BY <1>1, <1>2, <1>3, <1>4, <2>1, <2>3, ReceiptStep DEF ReceiptStatus
    <2> QED BY <2>1, <2>2, <2>4, <1>4 DEF ReceiptStatus
<1>6. CASE WriteCommitted(w)
    <2>1. /\ AppendReceipts(a, <<"committed">>) /\ Goto(w, "committed") /\ UNCHANGED <<recordLock, job>>
          /\ gpc[w] = "executed"
        BY <1>6 DEF WriteCommitted
    <2>2. a \in PerformedActions /\ Status(a) = "attempted"
        BY <1>1, <2>1 DEF Inside
    <2>3. Inside(w)'
        <3>1. gpc'[w] = "committed" /\ Status(a)' = "committed" /\ PerformedActions' = PerformedActions
            BY <2>1, <1>2, <1>4 DEF GatewayInv, Types, Goto, PerformedActions, ReceiptStatus
        <3> QED BY <1>1, <1>2, <2>1, <2>2, <3>1 DEF Inside
    <2>4. GatewayInv'
        BY <1>1, <1>2, <1>3, <1>4, <2>1, <2>2, <2>3, ReceiptStep DEF ReceiptStatus
    <2> QED BY <2>1, <2>2, <2>4, <1>4 DEF ReceiptStatus
<1>7. CASE WriteVerified(w)
    <2>1. /\ AppendReceipts(a, <<"verified">>) /\ Goto(w, "verified") /\ UNCHANGED <<recordLock, job>>
          /\ gpc[w] = "verifying"
        BY <1>7 DEF WriteVerified
    <2>2. a \in PerformedActions /\ Status(a) = "committed"
        BY <1>1, <2>1 DEF Inside
    <2>3. Inside(w)'
        <3>1. gpc'[w] = "verified" /\ Status(a)' = "verified" /\ PerformedActions' = PerformedActions
            BY <2>1, <1>2, <1>4 DEF GatewayInv, Types, Goto, PerformedActions, ReceiptStatus
        <3> QED BY <1>1, <1>2, <2>1, <2>2, <3>1 DEF Inside
    <2>4. GatewayInv'
        BY <1>1, <1>2, <1>3, <1>4, <2>1, <2>2, <2>3, ReceiptStep DEF ReceiptStatus
    <2> QED BY <2>1, <2>2, <2>4, <1>4 DEF ReceiptStatus
<1>8. CASE WriteFailed(w)
    <2>1. AppendReceipts(a, <<"failed">>) /\ Leave(w) /\ gpc[w] = "failed"
        BY <1>8 DEF WriteFailed
    <2>2. Status(a) \in {"attempted", "committed"} /\ pc[w] = "idle"
        BY <1>1, <2>1 DEF Inside
    <2>3. GatewayInv'
        BY <1>1, <1>2, <1>3, <1>4, <2>1, <2>2, ReceiptStep DEF ReceiptStatus
    <2> QED BY <2>1, <2>2, <2>3, <1>4 DEF ReceiptStatus
<1>9. CASE WriteReconciled(w)
    <2>1. /\ AppendReceipts(a, <<"verified">>) \/ AppendReceipts(a, <<"committed", "verified">>)
          /\ Leave(w) /\ gpc[w] = "proved"
        BY <1>9 DEF WriteReconciled
    <2>2. /\ a \in PerformedActions /\ Status(a) \in {"attempted", "committed", "failed"}
          /\ pc[w] = "idle"
        BY <1>1, <2>1 DEF Inside
    <2>3. /\ record' \in [Action -> Seq(ReceiptStatus)]
          /\ \A b \in Action \ {a} : record'[b] = record[b]
          /\ Status(a)' = "verified"
          /\ \A t \in ReceiptStatus : Has(a, t) => Has(a, t)'
        <3>1. CASE AppendReceipts(a, <<"verified">>)
            BY <3>1, <1>4 DEF ReceiptStatus
        <3>2. CASE AppendReceipts(a, <<"committed", "verified">>)
            BY <3>2, TwoReceipts DEF GatewayInv, Status, Has
        <3> QED BY <2>1, <3>1, <3>2
    <2>4. GatewayInv'
        BY <1>1, <1>2, <1>3, <2>1, <2>2, <2>3, ReceiptStep DEF ReceiptStatus
    <2> QED BY <2>2, <2>3, <2>4
<1> QED BY <1>5, <1>6, <1>7, <1>8, <1>9

\* submit() begins the record of an id that has none.
LEMMA SubmitStep ==
    ASSUME GatewayInv, NEW a \in Action, Submit(a)
    PROVE  /\ GatewayInv' /\ UNCHANGED effects
           /\ \A b \in Action \ {a} : record'[b] = record[b]
           /\ Status(a) = "none" /\ Status(a)' = "requested"
<1>1. /\ recordLock[actionId[a]] = None /\ record[a] = <<>>
      /\ \A b \in Action : actionId[b] = actionId[a] => record[b] = <<>>
      /\ AppendReceipts(a, <<"requested">>)
      /\ UNCHANGED <<clock, pc, lease, effects, world, next, fork, recordLock, gpc, job>>
    BY DEF Submit, safetyVars, worldVars
<1>2. /\ record' \in [Action -> Seq(ReceiptStatus)]
      /\ \A b \in Action \ {a} : record'[b] = record[b]
      /\ record'[a] # <<>> /\ Last(record'[a]) = "requested"
      /\ \A t : (\E i \in 1..Len(record'[a]) : record'[a][i] = t) <=> Has(a, t) \/ t = "requested"
    BY <1>1, OneReceipt DEF GatewayInv, ReceiptStatus
<1>3. \A t : Has(a, t)' <=> t = "requested"
    <2>1. \A t : ~Has(a, t)
        BY <1>1 DEF Has
    <2>2. \A t : Has(a, t)' <=> Has(a, t) \/ t = "requested"
        BY <1>2 DEF Has
    <2> QED BY <2>1, <2>2
<1>4. Status(a) = "none" /\ Status(a)' = "requested"
    BY <1>1, <1>2 DEF Status
<1>5. \A b \in Action \ {a} : Status(b)' = Status(b) /\ \A t : Has(b, t)' <=> Has(b, t)
    BY <1>2 DEF Status, Has
<1>6. Records'
    <2>1. \A b, c \in Action :
            actionId[b] = actionId[c] /\ record'[b] # <<>> /\ record'[c] # <<>> => b = c
        <3>1. \A b, c \in Action :
                actionId[b] = actionId[c] /\ record[b] # <<>> /\ record[c] # <<>> => b = c
            BY DEF GatewayInv, Records
        <3>2. /\ \A b \in Action : actionId[b] = actionId[a] => record[b] = <<>>
              /\ \A b \in Action \ {a} : record'[b] = record[b]
            BY <1>1, <1>2
        <3> QED BY <3>1, <3>2
    <2>2. \A e \in effects' : Has(e.action, "attempted")'
        <3> SUFFICES ASSUME NEW e \in effects PROVE Has(e.action, "attempted")'
            BY <1>1
        <3>1. e.action \in Action /\ Has(e.action, "attempted") /\ ~Has(a, "attempted")
            BY <1>1 DEF GatewayInv, Records, Types, Has
        <3> QED BY <3>1, <1>5
    <2>3. \A b \in Action : Status(b)' = "requested" =>
            \A t \in ReceiptStatus \ {"requested"} : ~Has(b, t)'
        BY <1>3, <1>5 DEF GatewayInv, Records
    <2>4. \A b \in Action : Status(b)' \notin {"none", "requested"} => Has(b, "attempted")'
        BY <1>4, <1>5 DEF GatewayInv, Records
    <2> QED BY <2>1, <2>2, <2>3, <2>4 DEF Records
<1>7. Workers'
    <2>1. \A v \in Caller \ {None} : IF gpc'[v] = "idle" THEN pc'[v] = "idle" ELSE Inside(v)'
        BY <1>1, <1>2, OtherWorkers, SameWorlds DEF GatewayInv
    <2> QED BY <2>1, RecordAssumption DEF Workers
<1>8. Types' /\ WorldTypes' /\ ReceiptsOfPerformed'
    BY <1>1, <1>2, SameWorlds DEF GatewayInv, Types, WorldTypes
<1> QED BY <1>1, <1>2, <1>4, <1>6, <1>7, <1>8 DEF GatewayInv

\* execute() takes the lock: an attempt on disk sends it to reconciliation.
LEMMA BeginStep ==
    ASSUME GatewayInv, NEW w \in Caller, NEW a \in Action, BeginExecute(w, a)
    PROVE  GatewayInv' /\ UNCHANGED <<record, effects>>
<1>1. /\ gpc[w] = "idle" /\ recordLock[actionId[a]] = None /\ record[a] # <<>>
      /\ ~Has(a, "verified")
      /\ recordLock' = [recordLock EXCEPT ![actionId[a]] = w]
      /\ job' = [job EXCEPT ![w] = a]
      /\ UNCHANGED <<clock, pc, lease, effects, world, next, fork, record>>
      /\ \/ /\ Has(a, "attempted") \/ Has(a, "committed")
            /\ gpc' = [gpc EXCEPT ![w] = "reconcile"]
         \/ /\ ~Has(a, "attempted")
            /\ gpc' = [gpc EXCEPT ![w] = "fresh"]
    BY DEF BeginExecute, Goto, safetyVars, worldVars
<1>2. actionId[a] \in ActionId /\ pc[w] = "idle"
    BY <1>1, RecordAssumption DEF GatewayInv, Workers
<1>3. Types' /\ WorldTypes'
    BY <1>1, <1>2 DEF GatewayInv, Types, WorldTypes
<1>4. Records' /\ ReceiptsOfPerformed'
    BY <1>1, SameRecords, SameWorlds DEF GatewayInv
<1>5. /\ Status(a) \in ReceiptStatus /\ Status(a) # "verified"
      /\ Has(a, Status(a))
    BY <1>1, LastReceipt DEF GatewayInv
<1>6. Inside(w)'
    <2>1. /\ job'[w] = a /\ recordLock'[actionId[a]] = w /\ pc'[w] = "idle"
          /\ Status(a)' = Status(a) /\ gpc'[w] \in {"reconcile", "fresh"}
        BY <1>1, <1>2 DEF GatewayInv, Types, Status
    <2>2. Status(a) = "requested" <=> ~Has(a, "attempted") /\ ~Has(a, "committed")
        BY <1>5 DEF GatewayInv, Records, ReceiptStatus
    <2>3. gpc'[w] = "reconcile" <=> Status(a) # "requested"
        BY <1>1, <1>5, <2>2 DEF GatewayInv, Types, Records, ReceiptStatus
    <2>4. Inside(w)' = (/\ a \in Action /\ recordLock'[actionId[a]] = w
                        /\ gpc'[w] = "fresh" => Status(a)' = "requested"
                        /\ gpc'[w] = "reconcile" =>
                            Status(a)' \in {"attempted", "committed", "failed"})
        BY <2>1 DEF Inside, Status
    <2> QED BY <1>5, <2>1, <2>3, <2>4 DEF ReceiptStatus
<1>7. Workers'
    <2>1. /\ \A v \in Caller \ {w} : gpc'[v] = gpc[v] /\ job'[v] = job[v]
          /\ \A i \in ActionId \ {actionId[a]} : recordLock'[i] = recordLock[i]
        BY <1>1 DEF GatewayInv, Types
    <2>2. \A v \in Caller \ {w} : IF gpc'[v] = "idle" THEN pc'[v] = "idle" ELSE Inside(v)'
        BY <1>1, <2>1, OtherWorkers, SameWorlds DEF GatewayInv
    <2> QED BY <1>1, <1>2, <1>6, <2>2 DEF Workers
<1> QED BY <1>1, <1>3, <1>4, <1>7 DEF GatewayInv

\* The operator and the clock.
LEMMA SafetyStep ==
    ASSUME GatewayInv, Safety!OperatorStep \/ Safety!Tick, UNCHANGED <<worldVars, gatewayVars>>
    PROVE  GatewayInv' /\ UNCHANGED <<record, effects>>
<1>1. /\ UNCHANGED <<pc, lease, effects, world, next, fork, record, recordLock, gpc, job>>
      /\ clock' \in Nat
    BY DEF GatewayInv, Types, worldVars, gatewayVars, Safety!OperatorStep, Safety!Tick,
           Safety!ConfigureBudget, Safety!ConfigureCircuit, Safety!CallStop, Safety!Stop,
           Safety!StopThrows, Safety!StopUnread, Safety!Reenable, Safety!ClearSwitch, Safety!callers
<1>2. Types' /\ WorldTypes' /\ Records' /\ ReceiptsOfPerformed'
    BY <1>1, SameRecords, SameWorlds DEF GatewayInv, Types, WorldTypes
<1>3. Workers'
    BY <1>1, SameWorkers DEF GatewayInv
<1> QED BY <1>1, <1>2, <1>3 DEF GatewayInv

\* Worlds are created, reset and forked: with receipts that a world had.
LEMMA WorldStep ==
    ASSUME GatewayInv, Worlds!WorldOperatorStep, UNCHANGED <<safetyVars, gatewayVars>>
    PROVE  GatewayInv' /\ UNCHANGED <<record, effects>>
<1>1. UNCHANGED <<clock, pc, lease, effects, next, record, recordLock, gpc, job>>
    BY DEF safetyVars, gatewayVars, Worlds!WorldOperatorStep, Worlds!CreateWorld,
           Worlds!ResetWorld, Worlds!ReadForFork, Worlds!WriteFork
<1>2. Types' /\ Records'
    BY <1>1, SameRecords DEF GatewayInv, Types
<1>3. PerformedIds' = PerformedIds /\ PerformedActions' = PerformedActions
    BY <1>1 DEF PerformedIds, PerformedActions
<1>4. /\ WorldTypes' /\ ReceiptsOfPerformed'
      /\ \A u \in World : OfPerformed(u) => OfPerformed(u)'
    <2>1. ASSUME NEW v \in World, Worlds!CreateWorld(v)
          PROVE  /\ WorldTypes' /\ ReceiptsOfPerformed'
                 /\ \A u \in World : OfPerformed(u) => OfPerformed(u)'
        <3> DEFINE new == [identity |-> v, baseline |-> Worlds!initialState,
                           state |-> Worlds!initialState]
        <3>1. new \in WorldRecord /\ Worlds!ActionIds(new.state) = {}
              /\ Worlds!ActionIds(new.baseline) = {}
            BY NewWorld DEF WorldRecord
        <3>2. world' = [world EXCEPT ![v] = new] /\ UNCHANGED <<next, fork>>
            BY <2>1 DEF Worlds!CreateWorld
        <3> HIDE DEF new
        <3> QED BY <1>3, <3>1, <3>2 DEF GatewayInv, WorldTypes, ReceiptsOfPerformed, OfPerformed
    <2>2. ASSUME NEW v \in World, Worlds!ResetWorld(v)
          PROVE  /\ WorldTypes' /\ ReceiptsOfPerformed'
                 /\ \A u \in World : OfPerformed(u) => OfPerformed(u)'
        <3> DEFINE new == [world[v] EXCEPT !.state = world[v].baseline]
        <3>1. OfPerformed(v) /\ world[v] \in WorldRecord
            BY <2>2 DEF Worlds!ResetWorld, Worlds!Readable, Worlds!Exists, GatewayInv,
                        ReceiptsOfPerformed, OfPerformed
        <3>2. new \in WorldRecord /\ new.state = world[v].baseline /\ new.baseline = world[v].baseline
            BY <3>1 DEF WorldRecord
        <3>3. world' = [world EXCEPT ![v] = new] /\ UNCHANGED <<next, fork>>
            BY <2>2 DEF Worlds!ResetWorld
        <3> HIDE DEF new
        <3> QED BY <1>3, <3>1, <3>2, <3>3 DEF GatewayInv, WorldTypes, ReceiptsOfPerformed, OfPerformed
    <2>3. ASSUME NEW v \in World, NEW u \in World, Worlds!ReadForFork(v, u)
          PROVE  /\ WorldTypes' /\ ReceiptsOfPerformed'
                 /\ \A q \in World : OfPerformed(q) => OfPerformed(q)'
        <3> DEFINE new == [target |-> u, identity |-> world[v].identity, state |-> world[v].state]
        <3>1. OfPerformed(v) /\ world[v] \in WorldRecord
            BY <2>3 DEF Worlds!ReadForFork, Worlds!Readable, Worlds!Exists, GatewayInv,
                        ReceiptsOfPerformed, OfPerformed
        <3>2. /\ new \in [target : World, identity : World, state : WorldState]
              /\ new.state = world[v].state
            BY <3>1 DEF WorldRecord
        <3>3. fork' = new /\ UNCHANGED <<world, next>>
            BY <2>3 DEF Worlds!ReadForFork
        <3> HIDE DEF new
        <3> QED BY <1>3, <3>1, <3>2, <3>3 DEF GatewayInv, WorldTypes, ReceiptsOfPerformed, OfPerformed
    <2>4. ASSUME Worlds!WriteFork
          PROVE  /\ WorldTypes' /\ ReceiptsOfPerformed'
                 /\ \A u \in World : OfPerformed(u) => OfPerformed(u)'
        <3> DEFINE new == [identity |-> fork.identity, baseline |-> fork.state,
                           state |-> fork.state]
        <3>1. fork \in [target : World, identity : World, state : WorldState]
              /\ Worlds!ActionIds(fork.state) \subseteq PerformedIds
            BY <2>4 DEF Worlds!WriteFork, GatewayInv, WorldTypes, ReceiptsOfPerformed
        <3>2. new \in WorldRecord /\ new.state = fork.state /\ new.baseline = fork.state
            BY <3>1 DEF WorldRecord
        <3>3. /\ world' = world \/ world' = [world EXCEPT ![fork.target] = new]
              /\ fork' = None /\ UNCHANGED next
            BY <2>4 DEF Worlds!WriteFork
        <3> HIDE DEF new
        <3> QED BY <1>3, <3>1, <3>2, <3>3 DEF GatewayInv, WorldTypes, ReceiptsOfPerformed, OfPerformed
    <2> QED BY <2>1, <2>2, <2>3, <2>4 DEF Worlds!WorldOperatorStep
<1>5. Workers'
    <2> SUFFICES ASSUME NEW w \in Caller, gpc[w] # "idle" PROVE Inside(w)'
        BY <1>1 DEF GatewayInv, Workers
    <2>1. Inside(w) /\ worldId[job[w]] \in World
        BY AtWork
    <2>2. Status(job[w])' = Status(job[w])
        BY <1>1 DEF Status
    <2>3. gpc[w] = "inWorld" => OfPerformed(worldId[job[w]])'
        <3>1. PICK u \in World : u = worldId[job[w]]
            BY <2>1
        <3>2. gpc[w] = "inWorld" => OfPerformed(u)'
            BY <1>4, <2>1, <3>1 DEF Inside
        <3> QED BY <1>1, <3>1, <3>2 DEF OfPerformed
    <2> QED BY <1>1, <1>3, <2>1, <2>2, <2>3 DEF Inside
<1> QED BY <1>1, <1>2, <1>4, <1>5 DEF GatewayInv
-----------------------------------------------------------------------------
(***************************************************************************)
(* Every step, and what it shows of records and side effects               *)
(***************************************************************************)
Receipted(a) ==
    \/ Status(a) = "none" /\ Status(a)' = "requested"
    \/ Status(a) = "requested" /\ Status(a)' = "attempted"
    \/ Status(a) \in {"attempted", "committed"} /\ Status(a)' = "failed"
    \/ /\ a \in PerformedActions
       /\ \/ Status(a) = "attempted" /\ Status(a)' = "committed"
          \/ Status(a) \in {"attempted", "failed", "committed"} /\ Status(a)' = "verified"

\* A step of ActionExecution on one record.
OneRecordMoves(a) ==
    /\ UNCHANGED effects
    /\ \A b \in Action \ {a} : record'[b] = record[b]
    /\ Receipted(a)

\* The side effect of an action that was attempted and not performed.
OneEffectHappens(a) ==
    /\ UNCHANGED record
    /\ a \notin PerformedActions /\ Status(a) = "attempted"
    /\ \E e : e.action = a /\ effects' = effects \cup {e}

\* What ActionExecution sees of a step.
Shows ==
    \/ UNCHANGED <<record, effects>>
    \/ \E a \in Action : OneRecordMoves(a) \/ OneEffectHappens(a)

\* Every step of a worker keeps the invariant and is a step of ActionExecution.
LEMMA WorkerStepShows ==
    ASSUME GatewayInv, NEW w \in Caller, WorkerStep(w) \/ WorkerDies(w)
    PROVE  GatewayInv' /\ Shows
<1>1. CASE \/ NoProof(w) \/ AdmitReplayed(w) \/ AdmitRefused(w) \/ CompleteSuccess(w)
           \/ CompleteThrows(w) \/ WorkerDies(w)
    <2>1. GatewayInv'
        BY <1>1, LeavingSteps
    <2>2. UNCHANGED <<record, effects>>
        BY <1>1 DEF NoProof, AdmitReplayed, AdmitRefused, CompleteSuccess, CompleteThrows,
                    WorkerDies, safetyVars, Safety!AdmitReplay, Safety!callers,
                    Safety!Complete, Safety!Abandon
    <2> QED BY <2>1, <2>2 DEF Shows
<1>2. CASE ReadProof(w) \/ AdmitAction(w) \/ CommitFirstPhase(w) \/ EnterWorld(w)
    <2>1. GatewayInv'
        BY <1>2, ReadProofStep, AttemptSteps
    <2>2. UNCHANGED <<record, effects>>
        BY <1>2 DEF ReadProof, AdmitAction, CommitFirstPhase, EnterWorld, safetyVars,
                    gatewayVars, Safety!Admit, Safety!CommitCheck
    <2> QED BY <2>1, <2>2 DEF Shows
<1>3. CASE \/ CommitSecondPhase(w) \/ ExecuteFails(w) \/ OutcomeUnknown(w) \/ Verify(w)
           \/ CompleteFailure(w)
    <2>1. GatewayInv'
        BY <1>3, OutcomeSteps
    <2>2. UNCHANGED <<record, effects>>
        BY <1>3 DEF CommitSecondPhase, ExecuteFails, OutcomeUnknown, Verify, CompleteFailure,
                    safetyVars, Safety!CommitSeal, Safety!CommitThrows, Safety!Complete
    <2> QED BY <2>1, <2>2 DEF Shows
<1>4. CASE CommitOperation(w)
    <2>1. gpc[w] # "idle" /\ UNCHANGED record
        BY <1>4 DEF CommitOperation, gatewayVars
    <2>2. job[w] \in Action
        BY <2>1, AtWork
    <2> QED BY <1>4, <2>1, <2>2, OperationStep DEF Shows, OneEffectHappens
<1>5. CASE \/ WriteAttempted(w) \/ WriteCommitted(w) \/ WriteVerified(w) \/ WriteFailed(w)
           \/ WriteReconciled(w)
    <2>1. gpc[w] # "idle" /\ UNCHANGED effects
        BY <1>5 DEF WriteAttempted, WriteCommitted, WriteVerified, WriteFailed, WriteReconciled,
                    safetyVars
    <2>2. PICK a \in Action : a = job[w]
        BY <2>1, AtWork
    <2> QED BY <1>5, <2>1, <2>2, WriteSteps DEF Shows, OneRecordMoves, Receipted
<1> QED BY <1>1, <1>2, <1>3, <1>4, <1>5 DEF WorkerStep

\* So is every other step of the gateway.
LEMMA StepShows ==
    ASSUME GatewayInv, [Next]_vars
    PROVE  GatewayInv' /\ Shows
<1>1. ASSUME NEW a \in Action, Submit(a) PROVE GatewayInv' /\ Shows
    BY <1>1, SubmitStep DEF Shows, OneRecordMoves, Receipted
<1>2. ASSUME NEW w \in Caller, WorkerStep(w) \/ WorkerDies(w) PROVE GatewayInv' /\ Shows
    BY <1>2, WorkerStepShows
<1>3. ASSUME NEW w \in Caller, NEW a \in Action, BeginExecute(w, a) PROVE GatewayInv' /\ Shows
    BY <1>3, BeginStep DEF Shows
<1>4. CASE (Safety!OperatorStep \/ Safety!Tick) /\ UNCHANGED <<worldVars, gatewayVars>>
    BY <1>4, SafetyStep DEF Shows
<1>5. CASE Worlds!WorldOperatorStep /\ UNCHANGED <<safetyVars, gatewayVars>>
    BY <1>5, WorldStep DEF Shows
<1>6. CASE UNCHANGED vars
    <2>1. UNCHANGED <<clock, pc, lease, effects, world, next, fork, record, recordLock, gpc, job>>
        BY <1>6 DEF vars
    <2>2. Types' /\ WorldTypes' /\ Records' /\ ReceiptsOfPerformed'
        BY <2>1, SameRecords, SameWorlds DEF GatewayInv, Types, WorldTypes
    <2>3. Workers'
        BY <2>1, SameWorkers DEF GatewayInv
    <2> QED BY <2>1, <2>2, <2>3 DEF GatewayInv, Shows
<1> QED BY <1>1, <1>2, <1>3, <1>4, <1>5, <1>6 DEF Next

\* At first nothing is recorded and nothing performed.
LEMMA GatewayInitInv == Init => GatewayInv /\ effects = {} /\ record = [a \in Action |-> <<>>]
<1> SUFFICES ASSUME Init PROVE GatewayInv /\ effects = {} /\ record = [a \in Action |-> <<>>]
    OBVIOUS
<1>1. Types /\ WorldTypes /\ effects = {}
    BY DEF Init, Safety!Init, Worlds!InitWorld, Types, WorldTypes, Safety!NoLease
<1>2. Records
    BY <1>1 DEF Init, Records, Status, Has
<1>3. Workers /\ ReceiptsOfPerformed
    <2>1. \A w \in Caller : gpc[w] = "idle" /\ pc[w] = "idle"
        BY DEF Init, Safety!Init
    <2> QED BY <2>1 DEF Workers, ReceiptsOfPerformed, Init, Worlds!InitWorld
<1> QED BY <1>1, <1>2, <1>3 DEF Init, GatewayInv

\* Records, locks, leases and worlds stay consistent with each other: whoever is
\* inside execute() holds the lock of its record and finds there what it wrote, and
\* a world has receipts of performed actions only.
THEOREM GatewayInvariant == Spec => []GatewayInv
<1>1. Init => GatewayInv
    BY GatewayInitInv
<1>2. GatewayInv /\ [Next]_vars => GatewayInv'
    BY StepShows
<1> QED BY <1>1, <1>2, PTL DEF Spec

\* execute() performs an action at most once, under one lease: whatever crashes,
\* expires, is stopped, reset or forked in between, for any number of workers.
THEOREM AtMostOnce == Spec => []PerformedAtMostOnce
<1>1. Init => PerformedAtMostOnce
    BY GatewayInitInv DEF PerformedAtMostOnce
<1>2. GatewayInv /\ PerformedAtMostOnce /\ [Next]_vars => PerformedAtMostOnce'
    <2> SUFFICES ASSUME GatewayInv, PerformedAtMostOnce, Shows
                 PROVE  PerformedAtMostOnce'
        BY StepShows
    <2>1. CASE UNCHANGED effects
        BY <2>1 DEF PerformedAtMostOnce
    <2>2. ASSUME NEW a \in Action, OneEffectHappens(a) PROVE PerformedAtMostOnce'
        BY <2>2 DEF OneEffectHappens, PerformedActions, PerformedAtMostOnce
    <2> QED BY <2>1, <2>2 DEF Shows, OneRecordMoves
<1> QED BY <1>1, <1>2, GatewayInvariant, PTL DEF Spec

\* A step of the gateway is a step of ActionExecution, or none.
LEMMA StepRefines ==
    ASSUME GatewayInv, Shows
    PROVE  [Exec!ExecNext]_(Exec!execVars)
<1> DEFINE st == [a \in Action |-> IF record[a] = <<>> THEN "none" ELSE Last(record[a])]
           pf == {e.action : e \in effects}
<1>1. st = [a \in Action |-> Status(a)] /\ pf = PerformedActions
    BY DEF Status, PerformedActions
<1>2. st' = [a \in Action |-> Status(a)'] /\ pf' = PerformedActions'
    BY DEF Status, PerformedActions
<1>3. CASE UNCHANGED <<record, effects>>
    BY <1>3 DEF Exec!execVars
<1>4. ASSUME NEW a \in Action, OneRecordMoves(a)
      PROVE  Exec!ExecNext
    <2>1. st' = [st EXCEPT ![a] = Status(a)'] /\ st[a] = Status(a) /\ pf' = pf
        <3>1. \A b \in Action \ {a} : Status(b)' = Status(b)
            BY <1>4 DEF OneRecordMoves, Status
        <3>2. pf' = pf
            BY <1>4 DEF OneRecordMoves
        <3> QED BY <1>1, <1>2, <3>1, <3>2
    <2> HIDE DEF st, pf
    <2>2. Receipted(a)
        BY <1>4 DEF OneRecordMoves
    <2>3. \/ Exec!Request(a) \/ Exec!Attempt(a) \/ Exec!ReportFailure(a) \/ Exec!ReportSuccess(a)
        BY <1>1, <2>1, <2>2 DEF Receipted, Exec!Request, Exec!Attempt, Exec!ReportFailure,
                                Exec!ReportSuccess, st, pf
    <2> QED BY <2>3 DEF Exec!ExecNext
<1>5. ASSUME NEW a \in Action, OneEffectHappens(a)
      PROVE  Exec!ExecNext
    <2>1. st' = st /\ st[a] = "attempted" /\ a \notin pf /\ pf' = pf \cup {a}
        BY <1>1, <1>5 DEF OneEffectHappens, PerformedActions
    <2>2. Exec!Perform(a)
        BY <2>1 DEF Exec!Perform
    <2> QED BY <2>2 DEF Exec!ExecNext
<1> QED BY <1>3, <1>4, <1>5 DEF Shows

\* The gateway, with its locks, leases, receipts and worlds, implements
\* ActionExecution: the attempt is on disk before the side effect, which happens at
\* most once, and only what happened is reported as committed or verified.
THEOREM GatewayRefines == Spec => ImplementsActionExecution
<1>1. Init => Exec!ExecInit
    BY GatewayInitInv DEF Exec!ExecInit
<1>2. GatewayInv /\ [Next]_vars => [Exec!ExecNext]_(Exec!execVars)
    BY StepShows, StepRefines
<1> QED BY <1>1, <1>2, GatewayInvariant, PTL DEF Spec, ImplementsActionExecution, Exec!ExecSpec
=============================================================================
