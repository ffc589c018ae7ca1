--------------------------- MODULE MCApprovalInbox ---------------------------
(***************************************************************************)
(* Instances of ApprovalInbox for TLC.                                     *)
(***************************************************************************)
EXTENDS ApprovalInbox, TLC

CONSTANTS a1, a2, i1, i2, ann, annAlias, bob, agent, x1, x2

TwoActions == {a1, a2}
OwnIds == (a1 :> i1) @@ (a2 :> i2)
Expires == (a1 :> 3) @@ (a2 :> 2)

\* The first action needs two people, the second one.
Policy == (a1 :> 2) @@ (a2 :> 1)

\* Ann has two identities; the agent is the actor of both actions.
People == (ann :> "ann") @@ (annAlias :> "ann") @@ (bob :> "bob") @@ (agent :> "agent")
Independent == [a \in Action |-> Identity \ {agent}]

==============================================================================
