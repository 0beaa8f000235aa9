----------------------------- MODULE MCBuildPath -----------------------------
(***************************************************************************)
(* What a build goes through: the controller (BuildController), what the   *)
(* worker makes of a project (BuildPlans), the gateway that stores static  *)
(* sites (ArtifactGateway), and the tokens of the registry (RegistryAuth). *)
(* What one of them needs of another is part of its module; part is the    *)
(* one that runs.                                                          *)
(***************************************************************************)
EXTENDS BuildController, BuildPlans, ArtifactGateway, RegistryAuth, TLC

VARIABLE part

\* Two sites that share a file, and an archive without index.html.
Site(index, asset) == "index" :> index @@ "asset" :> asset
ThreeArchives == {Site("one", "one"), Site("one", "two"), "asset" :> "one"}

NoPackage ==
    CHOOSE p \in Projects : p.package = "none" /\ p.scripts = {} /\ p.declared = ""

ASSUME BuildAssumption /\ PlansAssumption /\ ArtifactAssumption
-----------------------------------------------------------------------------
BuildPathInit ==
    /\ part \in {"build", "plans", "sites", "registry"}
    /\ Init
    /\ part # "plans" => project = NoPackage
    /\ PlansInit
    /\ SitesInit
    /\ RegistryInit

BuildPathNext ==
    /\ UNCHANGED part
    /\ \/ part = "build" /\ Next /\ UNCHANGED <<planVars, siteVars, registryVars>>
       \/ part = "plans" /\ PlansNext /\ UNCHANGED <<vars, siteVars, registryVars>>
       \/ part = "sites" /\ SitesNext /\ UNCHANGED <<vars, planVars, registryVars>>
       \/ part = "registry" /\ RegistryNext /\ UNCHANGED <<vars, planVars, siteVars>>

BuildPathSpec ==
    BuildPathInit /\ [][BuildPathNext]_<<part, vars, planVars, siteVars, registryVars>>
=============================================================================
