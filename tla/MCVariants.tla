------------------------------ MODULE MCVariants ------------------------------
(***************************************************************************)
(* Smaller instances of components whose main one another MC module        *)
(* checks: with what the other one rules out by a constant (overlapping    *)
(* requests, canceled and killed jobs, deliveries out of order), and with  *)
(* less of the rest.  part is the one that runs, and variants of one       *)
(* component use the same variables.                                       *)
(***************************************************************************)
EXTENDS Naturals, TLC

CONSTANTS Null, d1, d2, prod, staging, main, s1, n1, n2, p1, p2, e1, e2, production, preview,
          h1, h2, u1, u2, t1, t2, i1, r1, r2, a1, a2

VARIABLES
    part,
    row, box, answered, timedOut, queue, task, probe, seen, aborting, alias, file, cfg, sweep,
    crashes, rollbacks,
    storage, used, links, dir, made, mounts, jobs, page, asked, deleted, faults,
    envs, vars, config, domain, live, dns, routes, verified, raced, edits, req,
    user, team, members, project, invite, request, deletions, joined,
    catalog, overrides, torn, admin,
    cp, op, archive, there, log, stored, job, secret, pods, inflight, ct, rt, failures,
    files, manifest, retention, serving, clock, breaks, acked, nominated, emptied,
    provider, selected, gone, events, inst, conn, inbox, applied, ignored, ingest, install,
    link, connects

\* Two deployments of an environment that is not production and does not
\* remember what it served before.
Staging == INSTANCE LegacyDeploy WITH
    Deployments <- {d1, d2}, EnvOf <- d1 :> prod @@ d2 :> prod,
    BranchOf <- d1 :> main @@ d2 :> main, Prod <- staging,
    Cancelable <- {}, Faulty <- FALSE, MaxCrashes <- 0, MaxRollbacks <- 0

\* One deployment that is canceled and whose jobs fail and die.
Unreliable == INSTANCE LegacyDeploy WITH
    Deployments <- {d1}, EnvOf <- d1 :> prod, BranchOf <- d1 :> main,
    Prod <- prod, Cancelable <- {d1}, Faulty <- TRUE, MaxCrashes <- 1, MaxRollbacks <- 0

\* A storage whose jobs overlap and are killed.
Killed == INSTANCE StorageLifecycle WITH
    None <- Null, Ids <- {s1}, Names <- {n1}, Types <- {"database"},
    Projects <- {p1}, Environments <- {e1}, Requests <- {r1, r2},
    Forms <- {"create", "reset", "delete"},
    Patient <- FALSE, MaxJobs <- 3, Faults <- {"killed"}, MaxFaults <- 1

\* A volume that is emptied while containers mount it, and whose jobs fail.
Volume == INSTANCE StorageLifecycle WITH
    None <- Null, Ids <- {s1}, Names <- {n1}, Types <- {"volume"},
    Projects <- {p1}, Environments <- {e1}, Requests <- {r1, r2},
    Forms <- {"create_storage", "reset"},
    Patient <- FALSE, MaxJobs <- 3, Faults <- {"refused", "failed"}, MaxFaults <- 1

\* Two requests edit and delete environments and variables at once.
Overlapping == INSTANCE ProjectSettings WITH
    Projects <- {p1}, EnvIds <- {prod, e1, e2}, Slugs <- {production, preview},
    Branches <- {main}, Hosts <- {h1}, Domains <- {}, Requests <- {r1, r2},
    Prod <- prod, Production <- production, file <- routes,
    Fragments <- {"environment", "delete_environment", "env_vars"},
    MaxDomainEdits <- 0

DomainForms == {"domain", "remove_domain", "verify_domain"}

\* Two projects want one hostname at once.
TwoProjects == INSTANCE ProjectSettings WITH
    Projects <- {p1, p2}, EnvIds <- {prod}, Slugs <- {production},
    Branches <- {main}, Hosts <- {h1}, Domains <- {n1, n2}, Requests <- {r1, r2},
    Prod <- prod, Production <- production, file <- routes,
    Fragments <- DomainForms, MaxDomainEdits <- 2

\* The domain of a project goes from one hostname to another and back.
TwoHosts == INSTANCE ProjectSettings WITH
    Projects <- {p1}, EnvIds <- {prod}, Slugs <- {production},
    Branches <- {main}, Hosts <- {h1, h2}, Domains <- {n1}, Requests <- {r1, r2},
    Prod <- prod, Production <- production, file <- routes,
    Fragments <- DomainForms, MaxDomainEdits <- 3

\* An invitation is accepted twice, and revoked meanwhile.
Accepting == INSTANCE Membership WITH
    Nobody <- Null, jobs <- deletions,
    Users <- {u1, u2}, Teams <- {t1, t2}, TeamProjects <- {}, Invites <- {i1},
    TeamRequests <- {r1, r2},
    Forms <- {"sign_up", "add_member", "revoke_member_invite", "notification", "link"},
    Overlap <- TRUE, MaxJobs <- 0

\* A job deletes a team or a user while the pages are in use.
Deleting == INSTANCE Membership WITH
    Nobody <- Null, jobs <- deletions,
    Users <- {u1, u2}, Teams <- {t1, t2}, TeamProjects <- {p1}, Invites <- {i1},
    TeamRequests <- {r1},
    Forms <- {"sign_up", "new_team", "new_project", "delete_team", "delete_user", "add_member",
              "link", "delete_member"},
    Overlap <- TRUE, MaxJobs <- 1

\* Two administrators, and servers that die while they write.
TwoAdmins == INSTANCE RunnerRegistry WITH
    Runners <- {"r1", "own"}, Presets <- {"p1"},
    CategoryOf <- [s \in {"r1", "own", "p1"} |-> IF s = "own" THEN "B" ELSE "A"],
    RunnerOf <- "p1" :> "r1",
    Catalogs <- {[s \in {"r1", "p1"} |-> "unset"]}, Installed <- [s \in {"r1", "p1"} |-> "unset"],
    Custom <- [s \in {} |-> [enabled |-> "on", own |-> TRUE]],
    Admins <- {a1, a2}, Crashes <- TRUE

\* The build of an image.
Web == INSTANCE BuildController WITH
    live <- there, faults <- failures,
    Workload <- "web", Tries <- 1, Cancels <- TRUE, MaxAttempts <- 2, Pods <- 2,
    CredIds <- 1..8, Faults <- {"refused", "unanswered", "crash", "pod", "job", "silent"},
    MaxFaults <- 1

\* Two reconciliations, none of which breaks off.
Retention == INSTANCE ArtifactGateway WITH
    Index <- "index", Files <- {"index", "asset"}, Bodies <- {"one", "two"},
    Archives <- {"index" :> "one" @@ "asset" :> "one"},
    Revisions <- {"r1", "r2"}, Reconciliations <- {"i", "j"}, LastTime <- 2, MaxBreaks <- 0

\* Deliveries come in any order, and requests overlap.
AnyOrder == INSTANCE GitWebhooks WITH
    made <- applied,
    Repos <- {"a"}, MaxEvents <- 2, MaxConnects <- 2, InOrder <- FALSE

ASSUME /\ Staging!LegacyAssumption /\ Unreliable!LegacyAssumption
       /\ Killed!StorageAssumption /\ Volume!StorageAssumption
       /\ Overlapping!SettingsAssumption /\ TwoProjects!SettingsAssumption
       /\ TwoHosts!SettingsAssumption
       /\ Accepting!MembershipAssumption /\ Deleting!MembershipAssumption
       /\ TwoAdmins!RegistryAssumption /\ Web!BuildAssumption
       /\ Retention!ArtifactAssumption /\ AnyOrder!GitAssumption
-----------------------------------------------------------------------------
deployVars == <<row, box, answered, timedOut, queue, task, probe, seen, aborting, alias, file,
                cfg, sweep, crashes, rollbacks>>
storageVars == <<storage, used, links, dir, made, mounts, jobs, page, asked, deleted, faults>>
settingsVars == <<envs, vars, config, domain, live, dns, routes, verified, raced, edits, req>>
membersVars == <<user, team, members, project, invite, request, deletions, joined>>
runnerVars == <<catalog, overrides, torn, admin>>
buildVars == <<cp, op, archive, there, log, stored, job, secret, pods, inflight, ct, rt,
               failures>>
siteVars == <<files, manifest, retention, serving, clock, breaks, acked, nominated, emptied>>
gitVars == <<provider, selected, gone, events, inst, conn, inbox, applied, ignored, ingest,
             install, link, connects>>

taskVars == <<deployVars, storageVars>>
formVars == <<settingsVars, membersVars, runnerVars>>
pathVars == <<buildVars, siteVars, gitVars>>
allVars == <<part, taskVars, formVars, pathVars>>

Parts == {"staging", "unreliable", "killed", "volume", "overlapping", "two projects",
          "two hosts", "accepting", "deleting", "two admins", "web", "retention", "any order"}

\* Of a component that does not run, the state it has in one of its variants.
VariantsInit ==
    /\ part \in Parts
    /\ IF part = "unreliable" THEN Unreliable!Init ELSE Staging!Init
    /\ IF part = "volume" THEN Volume!StorageInit ELSE Killed!StorageInit
    /\ CASE part = "two projects" -> TwoProjects!Init
         [] part = "two hosts"    -> TwoHosts!Init
         [] OTHER                 -> Overlapping!Init
    /\ IF part = "accepting" THEN Accepting!MembersInit ELSE Deleting!MembersInit
    /\ TwoAdmins!RunnersInit /\ Web!Init /\ Retention!SitesInit
    /\ AnyOrder!GitInit /\ (part # "any order" => selected = {})

TasksNext ==
    /\ UNCHANGED <<part, formVars, pathVars>>
    /\ \/ part = "staging" /\ Staging!Next /\ UNCHANGED storageVars
       \/ part = "unreliable" /\ Unreliable!Next /\ UNCHANGED storageVars
       \/ part = "killed" /\ Killed!StorageNext /\ UNCHANGED deployVars
       \/ part = "volume" /\ Volume!StorageNext /\ UNCHANGED deployVars

FormsNext ==
    /\ UNCHANGED <<part, taskVars, pathVars>>
    /\ \/ /\ UNCHANGED <<membersVars, runnerVars>>
          /\ \/ part = "overlapping" /\ Overlapping!Next
             \/ part = "two projects" /\ TwoProjects!Next
             \/ part = "two hosts" /\ TwoHosts!Next
       \/ /\ UNCHANGED <<settingsVars, runnerVars>>
          /\ \/ part = "accepting" /\ Accepting!MembersNext
             \/ part = "deleting" /\ Deleting!MembersNext
       \/ part = "two admins" /\ TwoAdmins!RunnersNext /\ UNCHANGED <<settingsVars, membersVars>>

PathNext ==
    /\ UNCHANGED <<part, taskVars, formVars>>
    /\ \/ part = "web" /\ Web!Next /\ UNCHANGED <<siteVars, gitVars>>
       \/ part = "retention" /\ Retention!SitesNext /\ UNCHANGED <<buildVars, gitVars>>
       \/ part = "any order" /\ AnyOrder!GitNext /\ UNCHANGED <<buildVars, siteVars>>

VariantsNext == TasksNext \/ FormsNext \/ PathNext

VariantsSpec == VariantsInit /\ [][VariantsNext]_allVars
-----------------------------------------------------------------------------
\* What still holds of each, though jobs and requests overlap, are killed or break
\* off. Always: what is routed answered the monitor; an active database has its
\* directory, though its jobs are killed, and a container sees the directory of an
\* active volume, though its jobs fail; two active environments share no slug; what
\* is routed was verified, but for the edits that raced; memberships, invitations
\* and projects refer to teams and users there are while these are deleted; a preset
\* has its runner, a published build its evidence and a site its files.  In staging,
\* where no job fails, only active deployments run in the end.  And what no step
\* does: replace the conclusion of a deployment in staging, or the result of a
\* build, let somebody in by an invitation that was revoked, or apply a delivery
\* again, in whatever order deliveries come.
VariantsConsistent ==
    /\ [](/\ part = "staging" => Staging!ServedAnswered /\ Staging!OnlyActiveRun
          /\ part = "unreliable" => Unreliable!LDTypeOK /\ Unreliable!ServedAnswered
          /\ part = "killed" => Killed!StorageTypeOK /\ Killed!StoragesConsistent
          /\ part = "volume" => Volume!StorageTypeOK /\ Volume!StoragesConsistent
          /\ part = "overlapping" =>
                Overlapping!SettingsTypeOK /\ Overlapping!EnvironmentsConsistent
          /\ part = "two projects" => TwoProjects!SettingsTypeOK /\ TwoProjects!DomainsProven
          /\ part = "two hosts" => TwoHosts!SettingsTypeOK /\ TwoHosts!DomainsProven
          /\ part = "deleting" => Deleting!TeamsConsistent
          /\ part = "two admins" => TwoAdmins!RegTypeOK /\ TwoAdmins!PresetHasRunner
          /\ part = "web" =>
                Web!PublishedIsEvidenced /\ Web!OutcomeAgrees /\ Web!SettledHoldsNothing
          /\ part = "retention" => Retention!ArtifactTypeOK /\ Retention!SitesAreWhole
          /\ part = "any order" => AnyOrder!GitTypeOK)
    /\ [][/\ part = "staging" => Staging!StatusAdvances
          /\ part = "accepting" => Accepting!RevokedStaysOut
          /\ part = "web" => Web!ResultStands
          /\ part = "any order" => AnyOrder!NothingIsRedone]_allVars
=============================================================================
