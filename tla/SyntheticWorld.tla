--------------------------- MODULE SyntheticWorld ---------------------------
(***************************************************************************)
(* The synthetic worlds (src/worlds/worlds.ts), the "provider" in which    *)
(* approved actions take effect.  A world is a JSON file under a lock; the *)
(* subscription-failure workflow adds a customer, a subscription, an       *)
(* issue, a message, a failure and the receipt that links them.  Every     *)
(* read and every write validates the whole world.                         *)
(*                                                                         *)
(* The persona, the organization, the accounts and the prefix of every id  *)
(* are made from the world's first id and its seed: they are one identity. *)
(* The revision is left out: nothing reads it but its own limit.           *)
(***************************************************************************)
EXTENDS FiniteSets, Naturals, Sequences, Functions

CONSTANTS
    World,        \* world ids
    ActionId,     \* the ids of workflow receipts
    Caller,       \* who runs workflows
    None,         \* no world, no lock, no fork
    MaxReceipts   \* MAX_WORKFLOW_RECEIPTS

Suffix == World \X ActionId
Related(ids) == [id : ids, owner : World, subscription : Suffix]

\* SyntheticWorldState: the entities at the providers, and the workflow receipts.
WorldState ==
    [clockAt : Nat,
     customers : Seq([id : Suffix, owner : World]),
     subscriptions : Seq([id : Suffix, owner : World, customer : Suffix]),
     issues : Seq(Related(Nat)), messages : Seq(Related(Suffix)), failures : Seq(Related(Suffix)),
     receipts : Seq([actionId : ActionId, suffix : Suffix, issueNumber : Nat, completedAt : Nat])]

WorldRecord == [identity : World, baseline : WorldState, state : WorldState]

ASSUME WorldAssumption ==
    MaxReceipts \in Nat /\ None \notin Caller /\ None \notin WorldState /\ None \notin WorldRecord

VARIABLES
    world,      \* the identity, the baseline and the state of each world, or None
    worldLock,  \* the caller that holds each world's lock, or None
    next,       \* the state that a caller is about to write to its world, or None
    fork        \* a forkWorld() between its read and its write, or None

worldVars == <<world, worldLock, next, fork>>

InitWorld ==
    /\ world = [v \in World |-> None]
    /\ worldLock = [v \in World |-> None]
    /\ next = [w \in Caller |-> None]
    /\ fork = None

Exists(v) == world[v] # None
-----------------------------------------------------------------------------
(***************************************************************************)
(* What a world holds.  The ids of customer, subscription, message and     *)
(* failure share one suffix.                                               *)
(***************************************************************************)
initialState ==
    [clockAt |-> 0, customers |-> <<>>, subscriptions |-> <<>>, issues |-> <<>>,
     messages |-> <<>>, failures |-> <<>>, receipts |-> <<>>]

EntityIds(entities) == {entities[i].id : i \in DOMAIN entities}
ActionIds(state) == {state.receipts[i].actionId : i \in DOMAIN state.receipts}

\* Faulty variant: issues are numbered by what the baseline had.
IssueNumberRestarted(w) == Len(w.baseline.issues) + 1

IssueNumber(w) == Len(w.state.issues) + 1

\* The next state that runSubscriptionFailureWorkflow computes.
Workflow(w, id) ==
    LET s == w.state
        suffix == <<w.identity, id>>
        number == IssueNumber(w)
        related == [id |-> suffix, owner |-> w.identity, subscription |-> suffix]
    IN  [clockAt |-> s.clockAt + 1,
         customers |-> Append(s.customers, [id |-> suffix, owner |-> w.identity]),
         subscriptions |-> Append(s.subscriptions,
                [id |-> suffix, owner |-> w.identity, customer |-> suffix]),
         issues |-> Append(s.issues, [related EXCEPT !.id = number]),
         messages |-> Append(s.messages, related),
         failures |-> Append(s.failures, related),
         receipts |-> Append(s.receipts, [actionId |-> id, suffix |-> suffix,
                issueNumber |-> number, completedAt |-> s.clockAt + 1])]

normalizeCustomers(s, identity) == \A c \in Range(s.customers) : c.owner = identity

normalizeSubscriptions(s, identity) ==
    \A b \in Range(s.subscriptions) : b.owner = identity /\ b.customer \in EntityIds(s.customers)

normalizeIssues(s, identity) ==
    \A i \in Range(s.issues) :
        i.owner = identity /\ i.id >= 1 /\ i.subscription \in EntityIds(s.subscriptions)

normalizeMessages(s, identity) ==
    \A e \in Range(s.messages) : e.owner = identity /\ e.subscription \in EntityIds(s.subscriptions)

normalizeFailures(s, identity) ==
    \A e \in Range(s.failures) : e.owner = identity /\ e.subscription \in EntityIds(s.subscriptions)

normalizeReceipts(s) ==
    /\ Cardinality(ActionIds(s)) = Len(s.receipts)
    /\ \A r \in Range(s.receipts) :
        /\ r.suffix \in EntityIds(s.customers) \cap EntityIds(s.subscriptions)
                            \cap EntityIds(s.messages) \cap EntityIds(s.failures)
        /\ r.issueNumber \in EntityIds(s.issues) /\ r.completedAt >= initialState.clockAt

\* What normalizeState accepts: every provider has one entity for each receipt, without
\* duplicates, and a receipt links entities of one subscription.
normalizeState(s, identity) ==
    /\ s.clockAt >= initialState.clockAt
    /\ normalizeCustomers(s, identity) /\ normalizeSubscriptions(s, identity)
    /\ normalizeIssues(s, identity) /\ normalizeMessages(s, identity)
    /\ normalizeFailures(s, identity) /\ normalizeReceipts(s)
    /\ Len(s.receipts) <= MaxReceipts
    /\ \A list \in {"customers", "subscriptions", "issues", "messages", "failures"} :
        Len(s[list]) = Len(s.receipts) /\ Cardinality(EntityIds(s[list])) = Len(s[list])
    /\ \A r \in Range(s.receipts) :
        /\ \E b \in Range(s.subscriptions) : b.id = r.suffix /\ b.customer = r.suffix
        /\ \E i \in Range(s.issues) : i.id = r.issueNumber /\ i.subscription = r.suffix
        /\ \A list \in {"messages", "failures"} :
            \E e \in Range(s[list]) : e.id = r.suffix /\ e.subscription = r.suffix

validateSyntheticWorld(w) ==
    normalizeState(w.baseline, w.identity) /\ normalizeState(w.state, w.identity)

Readable(v) == Exists(v) /\ validateSyntheticWorld(world[v])
-----------------------------------------------------------------------------
CreateWorld(v) ==
    /\ worldLock[v] = None
    /\ ~Exists(v)
    /\ world' = [world EXCEPT ![v] =
            [identity |-> v, baseline |-> initialState, state |-> initialState]]
    /\ UNCHANGED <<worldLock, next, fork>>

ResetWorld(v) ==
    /\ worldLock[v] = None
    /\ Readable(v)
    /\ world' = [world EXCEPT ![v].state = world[v].baseline]
    /\ UNCHANGED <<worldLock, next, fork>>

\* forkWorld reads its source without a lock and writes the fork later.  The fork has
\* an id of its own and keeps the identity.
ReadForFork(v, u) ==
    /\ fork = None
    /\ v # u
    /\ Readable(v)
    /\ fork' = [target |-> u, identity |-> world[v].identity, state |-> world[v].state]
    /\ UNCHANGED <<world, worldLock, next>>

\* An existing target makes it throw.
WriteFork ==
    /\ fork # None
    /\ worldLock[fork.target] = None
    /\ world' = IF Exists(fork.target) THEN world
                ELSE [world EXCEPT ![fork.target] =
                        [identity |-> fork.identity, baseline |-> fork.state,
                         state |-> fork.state]]
    /\ fork' = None
    /\ UNCHANGED <<worldLock, next>>

Performed(v, id) == Exists(v) /\ id \in ActionIds(world[v].state)

\* runSubscriptionFailureWorkflow: take the lock, read, compute the next world and
\* validate it.  A receipt of the same action makes the next world the present one.
BeginWorkflow(w, v, id) ==
    /\ worldLock[v] = None
    /\ Readable(v)
    /\ IF Performed(v, id) THEN next' = [next EXCEPT ![w] = world[v].state]
       ELSE /\ Len(world[v].state.receipts) < MaxReceipts
            /\ normalizeState(Workflow(world[v], id), world[v].identity)
            /\ next' = [next EXCEPT ![w] = Workflow(world[v], id)]
    /\ worldLock' = [worldLock EXCEPT ![v] = w]
    /\ UNCHANGED <<world, fork>>

\* The atomic write that commit() wraps.
WriteWorld(w, v) ==
    /\ worldLock[v] = w
    /\ world' = [world EXCEPT ![v].state = next[w]]
    /\ UNCHANGED <<worldLock, next, fork>>

\* The lock goes with the workflow, whether it returns, throws or dies (a dead
\* holder's lock is reclaimed by the next waiter).
UnlockWorlds(w) ==
    /\ worldLock' = [v \in World |-> IF worldLock[v] = w THEN None ELSE worldLock[v]]
    /\ next' = [next EXCEPT ![w] = None]
    /\ UNCHANGED <<world, fork>>

WorldOperatorStep ==
    \/ \E v \in World : CreateWorld(v) \/ ResetWorld(v)
    \/ \E v, u \in World : ReadForFork(v, u)
    \/ WriteFork

\* A caller of the library, without the gateway: the workflow writes on its own.
RunWorkflow(w) ==
    \/ next[w] = None /\ \E v \in World, id \in ActionId : BeginWorkflow(w, v, id)
    \/ next[w] # None /\ ((\E v \in World : WriteWorld(w, v)) \/ UnlockWorlds(w))

WorldNext == WorldOperatorStep \/ \E w \in Caller : RunWorkflow(w)

WorldSpec == InitWorld /\ [][WorldNext]_worldVars
-----------------------------------------------------------------------------
\* However workflows, resets and forks interleave, every world on disk can be read
\* again, and one with room takes any action it has not performed: the validation
\* around runSubscriptionFailureWorkflow never refuses what the workflow computes.
WorldsStayUsable ==
    \A v \in World : Exists(v) =>
        /\ validateSyntheticWorld(world[v])
        /\ \A id \in ActionId :
            ~Performed(v, id) /\ Len(world[v].state.receipts) < MaxReceipts
                => normalizeState(Workflow(world[v], id), world[v].identity)
=============================================================================
