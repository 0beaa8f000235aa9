---------------------------- MODULE ControlPlane ----------------------------
(***************************************************************************)
(* Deployments, their builds and revisions, and the aliases that route to  *)
(* them, as the Rails control plane keeps them.  A service call runs in    *)
(* one transaction that locks the deployment (for Promote also the alias)  *)
(* before it looks at it, so a call is one step here; what a controller    *)
(* read before the transaction is a step of its own.                       *)
(*                                                                         *)
(* A deployment has at most one build (nothing calls Builds::Fail with     *)
(* retryable: true) and a build at most one revision, so both are kept     *)
(* with the deployment.  Callbacks quote the command they answer; they may *)
(* come late, several times and in any order.                              *)
(***************************************************************************)
EXTENDS Naturals, Sequences, FiniteSets

CONSTANTS
    Deployments,
    OciDeployments,     \* those whose source is an image; the others are Git
    Aliases,
    Clients,            \* API requests in flight
    MaxAliasVersion     \* bound on the lock_version of an alias

ASSUME ControlPlaneAssumption ==
    /\ OciDeployments \subseteq Deployments
    /\ "none" \notin Deployments
    /\ Deployments \cap Aliases = {}
    /\ MaxAliasVersion \in Nat

VARIABLES
    dep,        \* deployments, with their build and revision
    alias,      \* aliases
    commands,   \* the commands in the outbox (see Outbox for their delivery)
    client      \* what each API request has read so far

cpVars == <<dep, alias, commands, client>>

Statuses == {"created", "queued", "preparing", "building", "scanning", "deploying",
             "verifying", "ready", "promoted", "superseded", "canceling", "canceled",
             "failed"}

Deployment == [status : Statuses \cup {"none"}, version : Nat,
               build : {"none", "running", "succeeded", "failed", "canceled"},
               revision : {"none", "candidate", "ready"}]

NoDeployment == [status |-> "none", version |-> 0, build |-> "none", revision |-> "none"]

\* current and previous are revisions, named by their deployments.
Alias == [current : Deployments \cup {"none"}, previous : Deployments \cup {"none"},
          version : Nat]

NoAlias == [current |-> "none", previous |-> "none", version |-> 0]

Command == [type : {"deploy", "cancel", "build", "build_cancel"}, id : Deployments,
            version : Nat, current : {"none"}]
           \cup [type : {"route"}, id : Aliases, version : Nat, current : Deployments]

\* version is the expected_lock_version a controller took from the record it
\* read before the transaction.
Request == [op : {"none", "cancel", "rollback"}, id : Deployments \cup Aliases \cup {"none"},
            target : Deployments \cup {"none"}, version : Nat]

NoRequest == [op |-> "none", id |-> "none", target |-> "none", version |-> 0]

CPTypeOK ==
    /\ dep \in [Deployments -> Deployment]
    /\ alias \in [Aliases -> Alias]
    /\ commands \in SUBSET Command
    /\ client \in [Clients -> Request]

CPInit ==
    /\ dep = [d \in Deployments |-> NoDeployment]
    /\ alias = [a \in Aliases |-> NoAlias]
    /\ commands = {}
    /\ client = [c \in Clients |-> NoRequest]

\* The commands the outbox carries, with the version they expect.
DeployCommand(d, v) == [type |-> "deploy", id |-> d, version |-> v, current |-> "none"]
CancelCommand(d, v) == [type |-> "cancel", id |-> d, version |-> v, current |-> "none"]
BuildCommand(d, v) == [type |-> "build", id |-> d, version |-> v, current |-> "none"]
BuildCancelCommand(d, v) ==
    [type |-> "build_cancel", id |-> d, version |-> v, current |-> "none"]

Publish(c) == commands' = commands \cup {c}
-----------------------------------------------------------------------------
\* Deployments::Transition::TRANSITIONS.
TRANSITIONS == [s \in Statuses |->
    CASE s = "created"    -> {"queued", "canceling", "failed"}
      [] s = "queued"     -> {"preparing", "canceling", "failed"}
      [] s = "preparing"  -> {"building", "canceling", "failed"}
      [] s = "building"   -> {"preparing", "scanning", "canceling", "failed"}
      [] s = "scanning"   -> {"deploying", "canceling", "failed"}
      [] s = "deploying"  -> {"verifying", "canceling", "failed"}
      [] s = "verifying"  -> {"ready", "canceling", "failed"}
      [] s = "ready"      -> {"promoted", "superseded", "canceling", "failed"}
      [] s = "promoted"   -> {"superseded", "canceling", "failed"}
      [] s = "canceling"  -> {"canceled", "failed"}
      [] s = "superseded" -> {"promoted", "canceling"}
      [] OTHER            -> {}]

\* Deployments::Transition.call: the status moves along the table and
\* lock_version counts the saves.  Its StaleTransition is raised only for a
\* version that was read before the lock (see Cancel).
May(d, s) == dep[d].status \in Statuses /\ s \in TRANSITIONS[dep[d].status]
Moved(r, s) == [r EXCEPT !.status = s, !.version = @ + 1]

\* Mutant: a callback is applied whatever version it quotes.
CurrentAlways(c) == dep[c.id].status # "none"

\* The optimistic fence of every callback: the deployment has not moved since
\* the command was published.
Current(c) == dep[c.id].status # "none" /\ dep[c.id].version = c.version

\* Deployments::Create.  A replay publishes the same command again.
Create(d) ==
    /\ dep[d].status = "none"
    /\ dep' = [dep EXCEPT ![d] = [NoDeployment EXCEPT !.status = "created"]]
    /\ Publish(DeployCommand(d, 0))
    /\ UNCHANGED <<alias, client>>
-----------------------------------------------------------------------------
\* DeploymentsController#cancel looks the deployment up and passes the version
\* it saw.
ReadForCancel(c, d) ==
    /\ client[c] = NoRequest
    /\ dep[d].status # "none"
    /\ client' = [client EXCEPT ![c] = [op |-> "cancel", id |-> d, target |-> "none",
                                        version |-> dep[d].version]]
    /\ UNCHANGED <<dep, alias, commands>>

\* Mutant: nobody asks whether an alias routes to the deployment.
ServingAliasNever(d) == FALSE

\* serving_alias?
ServingAlias(d) == \E a \in Aliases : alias[a].current = d

\* Mutant: the command quotes the version before the transition.
CancellationOfReadVersion(d) == CancelCommand(d, dep[d].version)

\* PublishCancellation: the command expects the version of the transition.
Cancellation(d) == CancelCommand(d, dep[d].version + 1)

\* Deployments::Cancel, and the InUse, StaleTransition and InvalidTransition
\* that leave everything as it is.
Cancel(c) ==
    LET d == client[c].id IN
    /\ client[c].op = "cancel"
    /\ client' = [client EXCEPT ![c] = NoRequest]
    /\ IF ~ServingAlias(d) /\ dep[d].version = client[c].version /\ May(d, "canceling")
       THEN /\ dep' = [dep EXCEPT ![d] = Moved(@, "canceling")]
            /\ Publish(Cancellation(d))
       ELSE UNCHANGED <<dep, commands>>
    /\ UNCHANGED alias
-----------------------------------------------------------------------------
PROMOTABLE_DEPLOYMENT_STATUSES == {"ready", "promoted", "superseded"}

\* Mutant: any deployment with a ready revision can be promoted.
PromotableByRevision(d) == dep[d].revision = "ready"

Promotable(d) ==
    dep[d].revision = "ready" /\ dep[d].status \in PROMOTABLE_DEPLOYMENT_STATUSES

Promoted(r) == IF r.status = "promoted" THEN r ELSE Moved(r, "promoted")

\* Mutant: the deployment that loses the alias keeps its status.
SupersededKept(r) == r

Superseded(r) == IF r.status = "promoted" THEN Moved(r, "superseded") ELSE r

\* Mutant: the command quotes the version before the save.
RoutingOfOldVersion(a, r) ==
    [type |-> "route", id |-> a, version |-> alias[a].version, current |-> r.current]

\* publish_routing!: one command for each version of the alias.
Routing(a, r) ==
    [type |-> "route", id |-> a, version |-> r.version, current |-> r.current]

\* Mutant: going back does not exchange the two revisions.
RepointedKeepsPrevious(r, d) ==
    [current |-> d,
     previous |-> IF r.previous = "none" THEN r.current ELSE r.previous,
     version |-> IF r.current = "none" THEN 0 ELSE r.version + 1]

\* The alias after it is pointed at d; its first save is version 0.
Repointed(r, d) ==
    [current |-> d, previous |-> r.current,
     version |-> IF r.current = "none" THEN 0 ELSE r.version + 1]

\* Aliases::Promote.  Promoting the current revision publishes the command of
\* the alias's version again, which the outbox already has.
PromoteAlias(a, d) ==
    /\ Promotable(d)
    /\ alias[a].current # d
    /\ alias[a].version < MaxAliasVersion
    /\ alias' = [alias EXCEPT ![a] = Repointed(@, d)]
    /\ dep' = [e \in Deployments |->
                 IF e = d THEN Promoted(dep[e])
                 ELSE IF e = alias[a].current THEN Superseded(dep[e]) ELSE dep[e]]
    /\ Publish(Routing(a, Repointed(alias[a], d)))

Promote(a, d) ==
    /\ PromoteAlias(a, d)
    /\ UNCHANGED client

\* EnvironmentOperationsController#rollback looks the alias up; the revision is
\* the one the user chose.
ReadForRollback(c, a, d) ==
    /\ client[c] = NoRequest
    /\ alias[a].current # "none"
    /\ dep[d].revision # "none"
    /\ client' = [client EXCEPT ![c] = [op |-> "rollback", id |-> a, target |-> d,
                                        version |-> alias[a].version]]
    /\ UNCHANGED <<dep, alias, commands>>

\* Mutant: the version the user saw does not matter.
RollbackAgreesOnRevision(c) == alias[client[c].id].previous = client[c].target

RollbackAgrees(c) == /\ alias[client[c].id].version = client[c].version
                     /\ alias[client[c].id].previous = client[c].target

\* Aliases::Rollback: a Promote of the previous revision, or one of its errors.
Rollback(c) ==
    /\ client[c].op = "rollback"
    /\ client' = [client EXCEPT ![c] = NoRequest]
    /\ IF RollbackAgrees(c) /\ Promotable(client[c].target)
       THEN PromoteAlias(client[c].id, client[c].target)
       ELSE UNCHANGED <<dep, alias, commands>>
-----------------------------------------------------------------------------
\* LocalProviderEvents::Consume#mark_ready: queued, preparing, building (with a
\* build), scanning (with a revision), deploying, verifying and ready in one
\* transaction, which the first transition alone can refuse.
ProviderReady(c) ==
    /\ c.type = "deploy" /\ c.id \in OciDeployments
    /\ Current(c)
    /\ May(c.id, "queued")
    /\ dep' = [dep EXCEPT ![c.id] = [status |-> "ready", version |-> @.version + 7,
                                     build |-> "succeeded", revision |-> "ready"]]
    /\ UNCHANGED <<alias, commands, client>>

\* LocalProviderEvents::Consume#mark_failed.
ProviderFailed(c) ==
    /\ c.type = "deploy"
    /\ Current(c)
    /\ May(c.id, "failed")
    /\ dep' = [dep EXCEPT ![c.id] = Moved(@, "failed")]
    /\ UNCHANGED <<alias, commands, client>>

\* Builds::Cancel for a running build, with the deployment's last transition.
CanceledBuild(r) ==
    [Moved(r, "canceled") EXCEPT !.build = IF @ = "running" THEN "canceled" ELSE @]

\* LocalProviderEvents::Consume#mark_canceled.
ProviderCanceled(c) ==
    /\ c.type = "cancel"
    /\ Current(c)
    /\ May(c.id, "canceled")
    /\ dep' = [dep EXCEPT ![c.id] = CanceledBuild(@)]
    /\ UNCHANGED <<alias, commands, client>>
-----------------------------------------------------------------------------
\* Queued, preparing and building, with a running build.
Prepared(r) ==
    [r EXCEPT !.status = "building", !.version = @ + 3, !.build = "running"]

\* Builds::Prepare for the workflow, with the command for the build controller.
\* A replay finds the build and its command.
Prepare(c) ==
    /\ c.type = "deploy" /\ c.id \in Deployments \ OciDeployments
    /\ dep[c.id].build = "none"
    /\ Current(c)
    /\ dep[c.id].status = "created"
    /\ dep' = [dep EXCEPT ![c.id] = Prepared(@)]
    /\ Publish(BuildCommand(c.id, dep[c.id].version + 3))
    /\ UNCHANGED <<alias, client>>

\* BuildEvents::Consume, completed: Builds::Complete adds the revision.
BuildCompleted(c) ==
    /\ c.type = "build"
    /\ Current(c)
    /\ dep[c.id].build = "running"
    /\ May(c.id, "scanning")
    /\ dep' = [dep EXCEPT ![c.id] = [Moved(@, "scanning") EXCEPT !.build = "succeeded",
                                                                 !.revision = "candidate"]]
    /\ UNCHANGED <<alias, commands, client>>

\* BuildEvents::Consume, failed: Builds::Fail, which is not retryable.
BuildFailed(c) ==
    /\ c.type = "build"
    /\ Current(c)
    /\ dep[c.id].build = "running"
    /\ May(c.id, "failed")
    /\ dep' = [dep EXCEPT ![c.id] = [Moved(@, "failed") EXCEPT !.build = "failed"]]
    /\ UNCHANGED <<alias, commands, client>>

\* BuildCancellations::Request: without a running build the deployment is
\* canceled at once, otherwise the build controller is told.
RequestBuildCancellation(c) ==
    /\ c.type = "cancel"
    /\ Current(c)
    /\ dep[c.id].status = "canceling"
    /\ IF dep[c.id].build = "running"
       THEN Publish(BuildCancelCommand(c.id, dep[c.id].version)) /\ UNCHANGED dep
       ELSE dep' = [dep EXCEPT ![c.id] = Moved(@, "canceled")] /\ UNCHANGED commands
    /\ UNCHANGED <<alias, client>>

\* BuildCancellations::Complete.
CompleteBuildCancellation(c) ==
    /\ c.type = "build_cancel"
    /\ Current(c)
    /\ dep[c.id].build = "running"
    /\ dep[c.id].status = "canceling"
    /\ dep' = [dep EXCEPT ![c.id] = CanceledBuild(@)]
    /\ UNCHANGED <<alias, commands, client>>
-----------------------------------------------------------------------------
UserNext ==
    \/ \E d \in Deployments : Create(d)
    \/ \E c \in Clients :
          \/ \E d \in Deployments : ReadForCancel(c, d)
          \/ Cancel(c)
          \/ \E a \in Aliases, d \in Deployments : ReadForRollback(c, a, d)
          \/ Rollback(c)
    \/ \E a \in Aliases, d \in Deployments : Promote(a, d)

\* What the local provider, and what orchestrator and build controller report.
ProviderNext(c) == ProviderReady(c) \/ ProviderFailed(c) \/ ProviderCanceled(c)

OrchestratorNext(c) ==
    \/ Prepare(c) \/ BuildCompleted(c) \/ BuildFailed(c)
    \/ RequestBuildCancellation(c) \/ CompleteBuildCancellation(c)

CPNext ==
    \/ UserNext
    \/ \E c \in commands : ProviderNext(c) \/ OrchestratorNext(c)

CPSpec == CPInit /\ [][CPNext]_cpVars

\* Either side answers the cancellations it is told of.
ProviderAnswers ==
    \A d \in Deployments : WF_cpVars(\E c \in commands : c.id = d /\ ProviderCanceled(c))

OrchestratorAnswers ==
    \A d \in Deployments :
        /\ WF_cpVars(\E c \in commands :
                        /\ c.id = d /\ RequestBuildCancellation(c)
                        /\ <<dep, commands>>' # <<dep, commands>>)
        /\ WF_cpVars(\E c \in commands : c.id = d /\ CompleteBuildCancellation(c))

-----------------------------------------------------------------------------
\* Whatever order cancellations, promotions, rollbacks and callbacks come in,
\* what an alias routes to is a ready revision of a deployment that is neither
\* being canceled nor canceled nor failed.
ServingIsLive ==
    \A a \in Aliases :
        alias[a].current # "none" =>
            /\ dep[alias[a].current].revision = "ready"
            /\ dep[alias[a].current].status \in {"promoted", "superseded"}

\* A promoted deployment serves some alias: Promote takes the status away with
\* the last alias.  (The converse fails when two aliases share a deployment.)
PromotedServes ==
    \A d \in Deployments : dep[d].status = "promoted" => ServingAlias(d)

\* An alias remembers two different revisions, both of which were ready.
AliasHistory ==
    \A a \in Aliases :
        /\ alias[a].previous # "none" =>
              /\ alias[a].previous # alias[a].current
              /\ dep[alias[a].previous].revision = "ready"
        /\ alias[a].current = "none" => alias[a] = NoAlias

\* A deployment and its build agree, also when the build's completion races a
\* cancellation: a build runs only under a deployment that is building or
\* canceling, nothing is deployed that was not built, and a deployment is
\* canceled only after its build has stopped.
BuildAgrees(r) ==
    /\ r.build = "running" => r.status \in {"building", "canceling"}
    /\ r.status \in {"none", "created"} => r.build = "none" /\ r.version = 0
    /\ r.version = 0 => r.status \in {"none", "created"}
    /\ r.status = "building" => r.build = "running"
    /\ r.status \in {"scanning", "ready", "promoted", "superseded"} => r.build = "succeeded"
    /\ r.revision # "none" <=> r.build = "succeeded"
    /\ r.status \in PROMOTABLE_DEPLOYMENT_STATUSES => r.revision = "ready"

BuildMatchesDeployment == \A d \in Deployments : BuildAgrees(dep[d])

\* A canceling deployment can always be finished: the outbox has a cancellation
\* command that quotes the deployment's present version.
CancellationAnswerable ==
    \A d \in Deployments :
        dep[d].status = "canceling" => CancelCommand(d, dep[d].version) \in commands

\* The routing commands of an alias are numbered by its version without gap or
\* repetition, and the newest one names its current revision.
RoutingMatchesAlias ==
    \A a \in Aliases :
        /\ \A c1, c2 \in commands :
              c1.type = "route" /\ c2.type = "route" /\ c1.id = a /\ c2.id = a
                /\ c1.version = c2.version => c1 = c2
        /\ \A c \in commands : c.type = "route" /\ c.id = a => c.version <= alias[a].version
        /\ alias[a].current # "none" => Routing(a, alias[a]) \in commands

\* RollbackAgrees: a rollback that waited while the alias moved on does not take
\* effect, so an alias goes back only to the revision it showed the user.
RollbackIsOfVersionSeen ==
    [][\A c \in Clients : \A a \in Aliases :
          client[c].op = "rollback" /\ client[c].id = a /\ client'[c] = NoRequest
            /\ alias'[a] # alias[a]
          => alias'[a].version = client[c].version + 1]_cpVars

\* Requests and commands name what their type says, the commands to deploy
\* were published with the deployment, and a new alias has no routing command.
RequestsNamed ==
    \A c \in Clients :
        /\ client[c].op = "cancel" => client[c].id \in Deployments
        /\ client[c].op = "rollback" => /\ client[c].id \in Aliases
                                        /\ client[c].target \in Deployments

DeployVersions == \A c \in commands : c.type = "deploy" => c.version = 0

NewAliasUnrouted ==
    \A a \in Aliases : alias[a].current = "none" =>
        \A c \in commands : ~(c.type = "route" /\ c.id = a)

\* The inductive invariant.
CPInv ==
    /\ CPTypeOK
    /\ RequestsNamed
    /\ DeployVersions
    /\ NewAliasUnrouted
    /\ BuildMatchesDeployment
    /\ ServingIsLive
    /\ PromotedServes
    /\ AliasHistory
    /\ CancellationAnswerable
    /\ RoutingMatchesAlias

\* What the control plane serves is live, and what it calls promoted is served.
ServingConsistent == ServingIsLive /\ PromotedServes

\* Deployment, build, alias and the commands in the outbox agree, whatever comes
\* late, twice or in between: nothing serves or deploys what was not built, and
\* the command that is waited for is the one that was published.
RecordsConsistent ==
    /\ CPTypeOK
    /\ AliasHistory
    /\ BuildMatchesDeployment
    /\ CancellationAnswerable
    /\ RoutingMatchesAlias

\* What users of the control plane see of a deployment and an alias.
Phase(r) ==
    CASE r.status = "none" -> "none"
      [] r.status \in PROMOTABLE_DEPLOYMENT_STATUSES -> "live"
      [] r.status = "canceling" -> "closing"
      [] r.status \in {"canceled", "failed"} -> "closed"
      [] OTHER -> "open"

Contract == INSTANCE ServingContract
              WITH phase <- [d \in Deployments |-> Phase(dep[d])],
                   serves <- [a \in Aliases |-> alias[a].current]

\* Deployments and aliases implement the serving contract.
ServesOnlyLive == Contract!Spec
=============================================================================
