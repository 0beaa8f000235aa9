---------------------------- MODULE MCControlPlane ----------------------------
(***************************************************************************)
(* The records of the control plane (ControlPlane), with two images and a  *)
(* Git deployment, and the two aliases that may share a revision; and the  *)
(* Git deployment, which is all there is, under its workflow               *)
(* (Orchestrator).  part is the one that runs.                             *)
(***************************************************************************)
EXTENDS Orchestrator, TLC

CONSTANTS d1, d2, g1, a1, a2, c1, c2

VARIABLE part

Images == {d1, d2}
ImagesAndGit == {d1, d2, g1}
TwoAliases == {a1, a2}
TwoClients == {c1, c2}

Symmetry ==
    Permutations(Images) \cup Permutations(TwoAliases) \cup Permutations(TwoClients)

\* The workflow knows Git deployments only.
Workflows == INSTANCE Orchestrator WITH OciDeployments <- {}

ASSUME Workflows!OrchestratorAssumption
-----------------------------------------------------------------------------
PlaneInit == OrchInit /\ part \in {"records", "workflow"}

RecordsRun ==
    /\ part = "records" /\ CPNext
    /\ UNCHANGED <<events, released, wf, faults>>

\* Nobody asks for an image, and requests come one after the other.
WorkflowRuns ==
    /\ part = "workflow" /\ Workflows!OrchNext
    /\ \A d \in Images : dep'[d] = NoDeployment
    /\ \E c \in Clients : client'[c] = NoRequest

PlaneNext == UNCHANGED part /\ (RecordsRun \/ WorkflowRuns)

PlaneSpec == PlaneInit /\ [][PlaneNext]_<<part, orchVars>>
=============================================================================
