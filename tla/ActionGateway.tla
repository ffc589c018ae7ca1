---------------------------- MODULE ActionGateway ----------------------------
(***************************************************************************)
(* LocalActionGateway (src/actions/gateway.ts) with the synthetic adapter, *)
(* composed with the safety controller and the synthetic worlds it calls.  *)
(* submit() and execute() run under the lock of the action's record file;  *)
(* execute() holds it across the admission, the record writes and the      *)
(* world workflow, and the workflow holds the world's lock across the two  *)
(* phases of the lease's commit().  Locks nest record -> world -> safety   *)
(* store, the last one being atomic here.                                  *)
(*                                                                         *)
(* A worker is a process that executes actions; when it dies its locks are *)
(* reclaimed (module FileStore) and its lease is forgotten.                *)
(***************************************************************************)
EXTENDS Naturals, Sequences, SequencesExt, FiniteSets

CONSTANTS
    Caller, Action, idempotencyKey, cost, Scope, Global, scopeMatches,
    BudgetId, BudgetChoice, CircuitId, CircuitChoice, Outcome, Reason, None,
    LeaseTtl, MaxControls, MaxLedger, MaxQueue, MaxDeadLetters, MaxAudit, MaxTime,
    World, ActionId, MaxReceipts,
    actionId,       \* of each action
    worldId,        \* the world an action is to run in
    expiresAt       \* of each action and of its approval

ASSUME RecordAssumption ==
    /\ actionId \in [Action -> ActionId]
    /\ worldId \in [Action -> World]
    /\ expiresAt \in [Action -> Nat]
    /\ None \notin Caller

VARIABLES
    clock, switches, budgets, circuits, ledger, queue, deadLetters, auditLen,
    pc, lease, effects, stopCall, drill,
    world, worldLock, next, fork,
    record,      \* the receipts of each submitted action, oldest first
    recordLock,  \* the worker that holds each record's lock, or None
    gpc,         \* where each worker is in execute()
    job          \* the action each worker executes

Safety == INSTANCE SafetyController
Worlds == INSTANCE SyntheticWorld

safetyVars == <<clock, switches, budgets, circuits, ledger, queue, deadLetters,
                auditLen, pc, lease, effects, stopCall, drill>>
worldVars == <<world, worldLock, next, fork>>
gatewayVars == <<record, recordLock, gpc, job>>
vars == <<clock, switches, budgets, circuits, ledger, queue, deadLetters,
          auditLen, pc, lease, effects, stopCall, drill,
          world, worldLock, next, fork, record, recordLock, gpc, job>>

Init ==
    /\ Safety!Init
    /\ Worlds!InitWorld
    /\ record = [a \in Action |-> <<>>]
    /\ recordLock = [i \in ActionId |-> None]
    /\ gpc = [w \in Caller |-> "idle"]
    /\ job = [w \in Caller |-> None]
-----------------------------------------------------------------------------
Has(a, status) == \E i \in 1..Len(record[a]) : record[a][i] = status
AppendReceipts(a, statuses) == record' = [record EXCEPT ![a] = @ \o statuses]
Goto(w, label) == gpc' = [gpc EXCEPT ![w] = label]

\* execute() returns or throws and gives the record's lock back.
Leave(w) ==
    /\ recordLock' = [recordLock EXCEPT ![actionId[job[w]]] = None]
    /\ Goto(w, "idle")
    /\ job' = [job EXCEPT ![w] = None]

\* submit(): a record file holds one envelope for ever.  Submitting it again
\* returns the record, another envelope of the same id is refused.
Submit(a) ==
    /\ recordLock[actionId[a]] = None
    /\ \A b \in Action : actionId[b] = actionId[a] => record[b] = <<>>
    /\ clock < expiresAt[a]
    /\ AppendReceipts(a, <<"requested">>)
    /\ UNCHANGED <<safetyVars, worldVars, recordLock, gpc, job>>

\* Faulty variant: an attempt that left no committed receipt is tried again.
BeginExecuteAgain(w, a) ==
    /\ gpc[w] = "idle"
    /\ recordLock[actionId[a]] = None
    /\ record[a] # <<>>
    /\ ~Has(a, "verified")
    /\ recordLock' = [recordLock EXCEPT ![actionId[a]] = w]
    /\ job' = [job EXCEPT ![w] = a]
    /\ IF Has(a, "committed")
       THEN Goto(w, "reconcile")
       ELSE clock < expiresAt[a] /\ Goto(w, "fresh")
    /\ UNCHANGED <<safetyVars, worldVars, record>>

\* execute() up to the receipts it finds: a verified action is answered with
\* its receipt, an attempted one is only reconciled, never run again.
BeginExecute(w, a) ==
    /\ gpc[w] = "idle"
    /\ recordLock[actionId[a]] = None
    /\ record[a] # <<>>
    /\ ~Has(a, "verified")
    /\ recordLock' = [recordLock EXCEPT ![actionId[a]] = w]
    /\ job' = [job EXCEPT ![w] = a]
    /\ IF Has(a, "committed") \/ Has(a, "attempted")
       THEN Goto(w, "reconcile")
       ELSE clock < expiresAt[a] /\ Goto(w, "fresh")
    /\ UNCHANGED <<safetyVars, worldVars, record>>

-----------------------------------------------------------------------------
(***************************************************************************)
(* Reconciliation of an earlier attempt with the world                     *)
(***************************************************************************)
Proved(w) == Worlds!Performed(worldId[job[w]], actionId[job[w]])

ReadProof(w) ==
    /\ gpc[w] = "reconcile"
    /\ Proved(w)
    /\ Goto(w, "proved")
    /\ UNCHANGED <<safetyVars, worldVars, record, recordLock, job>>

\* Faulty variant: the proof is asked for again and again.
NoProofYet(w) ==
    /\ gpc[w] = "reconcile"
    /\ ~Proved(w)
    /\ UNCHANGED vars

\* "Prior action outcome is unknown" or "verification is incomplete".
NoProof(w) ==
    /\ gpc[w] = "reconcile"
    /\ ~Proved(w)
    /\ Leave(w)
    /\ UNCHANGED <<safetyVars, worldVars, record>>

WriteReconciled(w) ==
    /\ gpc[w] = "proved"
    /\ AppendReceipts(job[w], IF Has(job[w], "committed") THEN <<"verified">>
                              ELSE <<"committed", "verified">>)
    /\ Leave(w)
    /\ UNCHANGED <<safetyVars, worldVars>>
-----------------------------------------------------------------------------
(***************************************************************************)
(* A first attempt                                                         *)
(***************************************************************************)
\* simulate() finds the world and the safety controller grants a lease.
AdmitAction(w) ==
    /\ gpc[w] = "fresh"
    /\ Worlds!Exists(worldId[job[w]])
    /\ Safety!Admit(w, job[w])
    /\ Goto(w, "admitted")
    /\ UNCHANGED <<worldVars, record, recordLock, job>>

\* A reservation from an attempt that died before its receipt: refused until
\* the reservation expires.
AdmitReplayed(w) ==
    /\ gpc[w] = "fresh"
    /\ Worlds!Exists(worldId[job[w]])
    /\ Safety!AdmitReplay(w, job[w])
    /\ Leave(w)
    /\ UNCHANGED <<worldVars, record>>

\* plan(), simulate() or admit() throws.
AdmitRefused(w) ==
    /\ gpc[w] = "fresh"
    /\ Leave(w)
    /\ UNCHANGED <<safetyVars, worldVars, record>>

\* Faulty variant: the attempt is recorded after the workflow has begun, only
\* in memory.
WriteAttemptedLate(w) ==
    /\ gpc[w] = "admitted"
    /\ Goto(w, "attempted")
    /\ UNCHANGED <<safetyVars, worldVars, record, recordLock, job>>

WriteAttempted(w) ==
    /\ gpc[w] = "admitted"
    /\ AppendReceipts(job[w], <<"attempted">>)
    /\ Goto(w, "attempted")
    /\ UNCHANGED <<safetyVars, worldVars, recordLock, job>>

EnterWorld(w) ==
    /\ gpc[w] = "attempted"
    /\ Worlds!BeginWorkflow(w, worldId[job[w]], actionId[job[w]])
    /\ Goto(w, "inWorld")
    /\ UNCHANGED <<safetyVars, record, recordLock, job>>

CommitFirstPhase(w) ==
    /\ gpc[w] = "inWorld"
    /\ Safety!CommitCheck(w)
    /\ UNCHANGED <<worldVars, gatewayVars>>

CommitOperation(w) ==
    /\ gpc[w] = "inWorld"
    /\ Safety!Operation(w)
    /\ Worlds!WriteWorld(w, worldId[job[w]])
    /\ UNCHANGED gatewayVars

CommitSecondPhase(w) ==
    /\ gpc[w] = "inWorld"
    /\ Safety!CommitSeal(w)
    /\ Worlds!UnlockWorlds(w)
    /\ Goto(w, "executed")
    /\ UNCHANGED <<record, recordLock, job>>

\* commit() throws, the world cannot be changed or its lock times out.
ExecuteFails(w) ==
    /\ \/ gpc[w] = "inWorld" /\ Safety!CommitThrows(w)
       \/ gpc[w] = "attempted" /\ UNCHANGED safetyVars
    /\ Worlds!UnlockWorlds(w)
    /\ Goto(w, "failing")
    /\ UNCHANGED <<record, recordLock, job>>

\* An adapter other than the synthetic one may answer that it cannot tell.
OutcomeUnknown(w) ==
    /\ gpc[w] = "executed"
    /\ Goto(w, "failing")
    /\ UNCHANGED <<safetyVars, worldVars, record, recordLock, job>>

WriteCommitted(w) ==
    /\ gpc[w] = "executed"
    /\ AppendReceipts(job[w], <<"committed">>)
    /\ Goto(w, "committed")
    /\ UNCHANGED <<safetyVars, worldVars, recordLock, job>>

\* verify() reads the world without its lock.
Verify(w) ==
    /\ gpc[w] = "committed"
    /\ Goto(w, IF Proved(w) THEN "verifying" ELSE "failing")
    /\ UNCHANGED <<safetyVars, worldVars, record, recordLock, job>>

WriteVerified(w) ==
    /\ gpc[w] = "verifying"
    /\ AppendReceipts(job[w], <<"verified">>)
    /\ Goto(w, "verified")
    /\ UNCHANGED <<safetyVars, worldVars, recordLock, job>>

CompleteSuccess(w) ==
    /\ gpc[w] = "verified"
    /\ \E o \in Outcome : o.success /\ Safety!Complete(w, o)
    /\ Leave(w)
    /\ UNCHANGED <<worldVars, record>>

CompleteFailure(w) ==
    /\ gpc[w] = "failing"
    /\ \E o \in Outcome :
          /\ ~o.success
          /\ o.reconciliationMismatch = Has(job[w], "committed")
          /\ Safety!Complete(w, o)
    /\ Goto(w, "failed")
    /\ UNCHANGED <<worldVars, record, recordLock, job>>

WriteFailed(w) ==
    /\ gpc[w] = "failed"
    /\ AppendReceipts(job[w], <<"failed">>)
    /\ Leave(w)
    /\ UNCHANGED <<safetyVars, worldVars>>

\* The safety store refuses the completion: its audit chain is full, or its
\* lock is not to be had in time.  Nothing in execute() catches that.
CompleteThrows(w) ==
    /\ gpc[w] \in {"verified", "failing"}
    /\ Safety!Abandon(w)
    /\ Leave(w)
    /\ UNCHANGED <<worldVars, record>>

\* The worker dies, or a record cannot be written, at any point of execute().
WorkerDies(w) ==
    /\ gpc[w] # "idle"
    /\ IF pc[w] = "idle" THEN UNCHANGED safetyVars ELSE Safety!Abandon(w)
    /\ Worlds!UnlockWorlds(w)
    /\ Leave(w)
    /\ UNCHANGED record
-----------------------------------------------------------------------------
WorkerStep(w) ==
    \/ ReadProof(w) \/ NoProof(w) \/ WriteReconciled(w)
    \/ AdmitAction(w) \/ AdmitReplayed(w) \/ AdmitRefused(w) \/ WriteAttempted(w)
    \/ EnterWorld(w) \/ CommitFirstPhase(w) \/ CommitOperation(w)
    \/ CommitSecondPhase(w) \/ ExecuteFails(w) \/ OutcomeUnknown(w)
    \/ WriteCommitted(w) \/ Verify(w) \/ WriteVerified(w)
    \/ CompleteSuccess(w) \/ CompleteFailure(w) \/ WriteFailed(w)
    \/ CompleteThrows(w)

Next ==
    \/ \E a \in Action : Submit(a)
    \/ \E w \in Caller : WorkerStep(w) \/ WorkerDies(w)
    \/ \E w \in Caller, a \in Action : BeginExecute(w, a)
    \/ (Safety!OperatorStep \/ Safety!Tick) /\ UNCHANGED <<worldVars, gatewayVars>>
    \/ Worlds!WorldOperatorStep /\ UNCHANGED <<safetyVars, gatewayVars>>

Spec == Init /\ [][Next]_vars

\* Every pending promise of a call settles, so a worker inside execute() keeps
\* taking steps until it leaves it; a lock it waits for times out.  Nobody has
\* to call execute() and nothing makes the clock, the operator or a reset move.
FairSpec == Spec /\ \A w \in Caller : WF_vars(WorkerStep(w))
-----------------------------------------------------------------------------
(***************************************************************************)
(* Properties                                                              *)
(***************************************************************************)
\* An action is performed at most once, under one lease: not again after a
\* crash, an expired reservation, a failed seal or a reset of the world.
PerformedAtMostOnce ==
    \A e, f \in effects : e.action = f.action => e = f

\* Every execute() comes back, and with it the record's lock: nobody waits for
\* ever on the locks of record, world and safety store.
ExecuteReturns ==
    \A w \in Caller : gpc[w] # "idle" ~> gpc[w] = "idle"

\* The gateway implements the promise of ActionExecution: the last receipt is
\* the status, and the history of leases says what was performed.
Exec == INSTANCE ActionExecution WITH
    status <- [a \in Action |-> IF record[a] = <<>> THEN "none" ELSE Last(record[a])],
    performed <- {e.action : e \in effects}

ImplementsActionExecution == Exec!ExecSpec
==============================================================================
