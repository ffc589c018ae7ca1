---------------------------- MODULE MCControllers ----------------------------
(***************************************************************************)
(* Controllers that share no state, for TLC.  They would not disturb each  *)
(* other, so one of them runs in each behaviour while the others rest in   *)
(* their initial states.                                                   *)
(***************************************************************************)
EXTENDS CredentialBroker, TrustLadder, TeamControlPlane, AgentInventory, TLC

CONSTANTS
    Parts,                                          \* the controllers that run
    key, agent, operator, g1, g2, k1, k2,           \* broker
    t1, t2, strict, lax,                            \* ladder
    p1, e1,                                         \* team; its tokens are g1 and g2
    a1, d1, l1, r1, s1, c1, q1, u1, u2, prod, x1, x2, h1, h2, src   \* inventory

VARIABLE part

\* The broker: the agent owns the credential, the operator may break the glass.
KeyOwner == (key :> agent)
BothReach == [w \in Workload |-> {key}]
Identities == (agent :> 2) @@ (operator :> 3)

\* The ladder: one policy opens the breaker, the other demotes first.
CanaryScope == (strict :> {t1}) @@ (lax :> {t1, t2})
ViolationLimit == (strict :> 0) @@ (lax :> 2)
ErrorLimit == (strict :> 1) @@ (lax :> 2)
Responses == (strict :> "open_circuit_breaker") @@ (lax :> "demote_to_approve")
Runs == (strict :> 2) @@ (lax :> 1)
Rates == (strict :> 0) @@ (lax :> 5000)
Age == (strict :> 0) @@ (lax :> 1)

\* The team: a token is for all that one environment of the project offers.
WholeEnvironment ==
    {{<<p1, e1, "evidence.upload">>, <<p1, e1, "evidence.read">>, <<p1, e1, "scenario.publish">>}}

\* The inventory: one import has a whole path in production, unmanaged and with more
\* rights than needed; the other knows the provider's owner and a policy that has drifted.
Path == [EmptyInventory EXCEPT
    !.agents = (a1 :> [owner |-> u1, identities |-> {d1}, places |-> {prod}, managed |-> FALSE,
                       killSwitch |-> FALSE, evidenceAt |-> 0]),
    !.identities = (d1 :> [principal |-> u1, tools |-> {l1}]),
    !.tools = (l1 :> [provider |-> p1, credentials |-> {c1}, required |-> {x1}]),
    !.providers = (p1 :> [owner |-> Unowned, resources |-> {r1}, places |-> {prod},
                          killSwitch |-> TRUE]),
    !.resources = (r1 :> [owner |-> u1, sideEffects |-> {s1}, places |-> {prod}]),
    !.sideEffects = (s1 :> [resource |-> r1]),
    !.credentials = (c1 :> [owner |-> u1, provider |-> p1, tools |-> {l1}, rights |-> {x1, x2},
                            status |-> "active", usedAt |-> 0, places |-> {prod}])]
Policies == [EmptyInventory EXCEPT
    !.providers = (p1 :> [owner |-> u2, resources |-> {r1}, places |-> {prod},
                          killSwitch |-> FALSE]),
    !.policies = (q1 :> [hash |-> h1, places |-> {prod}])]
Imported == {[source |-> src, expected |-> {}, new |-> Path],
             [source |-> src, expected |-> {<<prod, h2>>}, new |-> Policies]}

brokerOnly == <<credential, grant, receipt, inactive, bpc, use, effects>>
ladderOnly == <<known, level, breaker, violations, errors, audit>>
inventoryOnly == <<inventory, edges, importRuns, findings, remediation, reported>>
allVars == <<part, now, brokerOnly, ladderOnly, teamOnly, inventoryOnly>>

\* How long each controller needs to see its leases and windows pass.
Horizon == [broker |-> 2, ladder |-> 2, team |-> 1, inventory |-> 2]

Init ==
    /\ part \in Parts
    /\ BrokerInit /\ LadderInit /\ TeamInit /\ InventoryInit

Next ==
    /\ \/ part = "broker" /\ BrokerNext /\ UNCHANGED <<ladderOnly, teamOnly, inventoryOnly>>
       \/ part = "ladder" /\ LadderNext /\ UNCHANGED <<brokerOnly, teamOnly, inventoryOnly>>
       \/ part = "team" /\ TeamNext /\ UNCHANGED <<brokerOnly, ladderOnly, inventoryOnly>>
       \/ part = "inventory" /\ InventoryNext /\ UNCHANGED <<brokerOnly, ladderOnly, teamOnly>>
    /\ now' <= Horizon[part]
    /\ UNCHANGED part

Spec == Init /\ [][Next]_allVars

Symmetric == Permutations({g1, g2}) \cup Permutations({k1, k2})

\* Every controller's variables have their types, and its store keeps to its bounds.
ControllersTypeOK == BrokerTypeOK /\ LadderTypeOK /\ TeamTypeOK /\ InventoryTypeOK

==============================================================================
