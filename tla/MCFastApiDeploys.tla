--------------------------- MODULE MCFastApiDeploys ---------------------------
(***************************************************************************)
(* What the worker of the FastAPI application does with containers and     *)
(* directories: two deployments of one branch to production, which may be  *)
(* rolled back (LegacyDeploy), and two storages with one name, handled by  *)
(* people who wait for their jobs (StorageLifecycle).  They share no       *)
(* state: part is the one that runs.                                       *)
(***************************************************************************)
EXTENDS LegacyDeploy, StorageLifecycle

CONSTANTS d1, d2, prod, main

VARIABLE part

ToProduction == [d \in {d1, d2} |-> prod]
OfMain == [d \in {d1, d2} |-> main]

ASSUME LegacyAssumption /\ StorageAssumption
-----------------------------------------------------------------------------
DeploysInit == part \in {"deployments", "storages"} /\ Init /\ StorageInit

DeploysNext ==
    /\ UNCHANGED part
    /\ \/ part = "deployments" /\ Next /\ UNCHANGED storageVars
       \/ part = "storages" /\ StorageNext /\ UNCHANGED vars

DeploysSpec == DeploysInit /\ [][DeploysNext]_<<part, vars, storageVars>>
=============================================================================
