---------------------------- MODULE MCReliability ----------------------------
(***************************************************************************)
(* The ledger, its reconciliation, cost governance, backups, the tenants   *)
(* of the hosted service, the Stripe pack and the worlds on their own, for *)
(* TLC.  What shares no state is run apart: in each behaviour one part     *)
(* moves and the others rest.  The tenants are run in three parts and the  *)
(* pack in three too, by what is asked of them.                            *)
(***************************************************************************)
EXTENDS Reconciliation, CostGovernance, RuntimeBackup, HostedTenancy, StripePack,
        SyntheticWorld, TLC

CONSTANTS
    Parts,                  \* the parts that run
    n1, e1, x1, r1, r2,     \* ledger and reconciliation
    q1, q2                  \* requests to the hosted service

VARIABLE part

Ids == (e1 :> x1)
Histories == {<<>>, <<"attempted", "committed", "verified">>, <<"attempted", "ambiguous">>}

\* How long each part needs to see its windows and leases pass.
Horizon == [ledger |-> 2, reconciliation |-> 2, costs |-> 1, backup |-> 0,
            members |-> 0, invitations |-> 1, resources |-> 1,
            billing |-> 1, payments |-> 0, catalogue |-> 1, worlds |-> 0]

Requested ==
    [members |-> {"none", "member", "remove", "invite", "accept", "project"},
     invitations |-> {"none", "remove", "invite", "accept"},
     resources |-> {"none", "project", "scenario", "createKey", "rotateKey", "revokeKey"}]

Asked ==
    [billing |-> {<<"customer", "create">>, <<"price", "create">>}
            \cup ({"invoice"} \X {"pay", "void"})
            \cup ({"subscription"} \X {"create", "update", "renew", "cancel"}),
     payments |-> ({"payment_intent"} \X {"create", "update", "confirm"})
            \cup {<<"refund", "create">>},
     catalogue |-> ({"customer", "product", "price"} \X {"create", "update"})
            \cup ({"payment_method", "checkout.session"} \X {"create"})
            \cup {<<"customer", "delete">>}]

Limits ==
    [kind \in {"customer", "product", "price", "payment_method", "checkout.session",
               "payment_intent", "refund", "subscription", "invoice"} |->
        IF kind \in {"payment_intent", "invoice"} THEN 2 ELSE 1]

tenantOnly == <<tenantVars, txn, reporter>>
allVars == <<part, now, ledgerOnly, reconOnly, costOnly, backupVars, tenantOnly, stripeOnly, worldVars>>

Init ==
    /\ part \in Parts
    /\ ReconInit /\ CostInit /\ TenancyInit /\ BackupInit /\ StripeInit /\ InitWorld
    /\ part # "backup" => data = Nothing

TenantsMove(requested) == TenancyNext /\ \A q \in Request : txn'[q].op \in requested

Next ==
    /\ \/ part = "ledger" /\ LedgerNext
            /\ UNCHANGED <<reconOnly, costOnly, backupVars, tenantOnly, stripeOnly, worldVars>>
       \/ part = "reconciliation" /\ ReconNext
            /\ UNCHANGED <<costOnly, backupVars, tenantOnly, stripeOnly, worldVars>>
       \/ part = "costs" /\ CostNext
            /\ UNCHANGED <<ledgerOnly, reconOnly, backupVars, tenantOnly, stripeOnly, worldVars>>
       \/ part = "backup" /\ BackupNext
            /\ UNCHANGED <<now, ledgerOnly, reconOnly, costOnly, tenantOnly, stripeOnly, worldVars>>
       \/ part \in DOMAIN Requested /\ TenantsMove(Requested[part])
            /\ UNCHANGED <<ledgerOnly, reconOnly, costOnly, backupVars, stripeOnly, worldVars>>
       \/ part \in DOMAIN Asked /\ StripeNext(Asked[part])
            /\ UNCHANGED <<ledgerOnly, reconOnly, costOnly, backupVars, tenantOnly, worldVars>>
       \/ part = "worlds" /\ WorldNext
            /\ UNCHANGED <<now, ledgerOnly, reconOnly, costOnly, backupVars, tenantOnly, stripeOnly>>
    /\ now' <= Horizon[part]
    /\ UNCHANGED part

Spec == Init /\ [][Next]_allVars

Symmetric == Permutations({r1, r2}) \cup Permutations({q1, q2})

\* Every part's variables have their types, and its store keeps to its bounds.
ReliabilityTypeOK ==
    /\ LedgerTypeOK /\ ReconTypeOK /\ CostTypeOK /\ BackupTypeOK /\ TenancyTypeOK
    /\ StripeTypeOK

\* What has to be kept is kept when a store makes room: the ledger entries of a tenant
\* under legal hold, and the cost alerts that nobody has acknowledged.
NothingHeldIsDropped == HeldRecordsStay /\ OpenAlertsAreKept

==============================================================================
