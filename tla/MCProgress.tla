------------------------------ MODULE MCProgress ------------------------------
(***************************************************************************)
(* What must eventually happen, under the fairness each module states: the *)
(* commands and calls of the control plane (Outbox, EventConsumer,         *)
(* ControlPlane, Orchestrator, RowLocks, ApiIdempotency, RequestLimiter),  *)
(* builds and publications (BuildController, ArtifactGateway), and         *)
(* the jobs of the FastAPI application (LegacyDeploy, StorageLifecycle,    *)
(* Membership).  part is the one that runs; nothing in the others is       *)
(* enabled, so that their fairness asks for nothing.                       *)
(***************************************************************************)
EXTENDS Naturals, Sequences, FiniteSets, TLC

VARIABLES
    part,
    row, wk, serial, faults, processed, acked,
    receipt, delivery, effects, told, deliveries, crashes,
    dep, alias, commands, client,
    planned, routed, orders, visitor, signals, released, wf, lost,
    route, rowDep, rowBuild, outbox, holds, tx,
    record, version, call, executed, answers, received, deaths, advances,
    clock, attempts, asked,
    cp, op, archive, live, log, stored, job, secret, pods, inflight, ct, rt, breaks,
    files, manifest, retention, request, now, refusals, published, nominated, emptied,
    deployment, box, answered, timedOut, queue, task, probe, seen, aborting, aliases, file, cfg,
    sweep, stops, rollbacks,
    storage, used, links, dir, made, mounts, jobs, page, requested, deleted, mishaps,
    user, team, members, project, invite, form, deletions, joined

Threads == {"r1", "r2"}

Commands == INSTANCE Outbox WITH
    Events <- {"e1"}, Workers <- {"w1", "w2"},
    Handles <- [w \in {"w1", "w2"} |-> {"e1"}],
    Lease <- 2, BaseDelay <- 1, MaxRetryDelay <- 3, MaxAttempts <- 2, MaxFaults <- 1

Consumer == INSTANCE EventConsumer WITH
    req <- delivery,
    Ids <- {"i1", "i2"}, Digests <- {"d1"}, Results <- {"x1"}, Requests <- Threads,
    MaxDeliveries <- 3, MaxCrashes <- 1

\* An image, of which the local provider removes what is canceled, and a Git
\* deployment, of which the orchestrator does.
Plane == INSTANCE ControlPlane WITH
    Deployments <- {"d1", "g1"}, OciDeployments <- {"d1"}, Aliases <- {"a1"},
    Clients <- {"c1"}, MaxAliasVersion <- 1

Workflow == INSTANCE Orchestrator WITH
    dep <- planned, alias <- routed, commands <- orders, client <- visitor,
    events <- signals, faults <- lost,
    Deployments <- {"g1"}, OciDeployments <- {}, Aliases <- {}, Clients <- {"c1"},
    MaxAliasVersion <- 0, MaxFaults <- 0, Releases <- {"ready", "failed"}

\* With rollbacks, which may deadlock.
Locks == INSTANCE RowLocks WITH
    alias <- route, dep <- rowDep, build <- rowBuild,
    Txs <- Threads, Ready <- {"d1", "d2"}, Building <- {},
    Ops <- {"promote", "rollback"}, MaxVersion <- 2

Api == INSTANCE ApiIdempotency WITH
    req <- call, effects <- executed, told <- answers, crashes <- deaths,
    Keys <- {"k1"}, Digests <- {"c", "d"}, Guarded <- {"c"}, Bodies <- {"x"},
    Requests <- Threads, MaxRequests <- 3, MaxCrashes <- 1, MaxAdvances <- 1

Limiter == INSTANCE RequestLimiter WITH
    Emails <- {"e1"}, Ips <- {"i1"}, MaxPerEmail <- 1, MaxPerIp <- 1, Window <- 1,
    Threads <- Threads, MaxTime <- 1

Build == INSTANCE BuildController WITH
    faults <- breaks,
    Workload <- "web", Cancels <- TRUE, MaxAttempts <- 2, Tries <- 1, Pods <- 1,
    CredIds <- 1..8, Faults <- {"pod"}, MaxFaults <- 1

Site == "index" :> "one" @@ "asset" :> "one"

Gateway == INSTANCE ArtifactGateway WITH
    serving <- request, clock <- now, breaks <- refusals, acked <- published,
    Index <- "index", Files <- {"index", "asset"}, Bodies <- {"one"},
    Archives <- {Site},
    Revisions <- Threads, Reconciliations <- {"i"}, LastTime <- 1, MaxBreaks <- 1

Legacy == INSTANCE LegacyDeploy WITH
    row <- deployment, alias <- aliases, crashes <- stops,
    Deployments <- {"d1"}, Null <- "null", EnvOf <- "d1" :> "production",
    BranchOf <- "d1" :> "main", Prod <- "production", Cancelable <- {},
    Faulty <- FALSE, MaxCrashes <- 0, MaxRollbacks <- 0

\* The same, but that somebody may cancel.
Canceled == INSTANCE LegacyDeploy WITH
    row <- deployment, alias <- aliases, crashes <- stops,
    Deployments <- {"d1"}, Null <- "null", EnvOf <- "d1" :> "production",
    BranchOf <- "d1" :> "main", Prod <- "production", Cancelable <- {"d1"},
    Faulty <- FALSE, MaxCrashes <- 0, MaxRollbacks <- 0

Storages == INSTANCE StorageLifecycle WITH
    asked <- requested, faults <- mishaps,
    Ids <- {"s1"}, Names <- {"n1"}, Types <- {"volume"}, Projects <- {"p1"},
    Environments <- {"e1"}, Requests <- {"r1"}, None <- "null",
    Forms <- {"create", "reset", "delete"}, Patient <- FALSE, MaxJobs <- 3,
    Faults <- {}, MaxFaults <- 0

\* People who leave with their teams.
Teams == INSTANCE Membership WITH
    request <- form, jobs <- deletions,
    Users <- {"u1"}, Teams <- {"t1", "t2"}, TeamProjects <- {"p1"}, Invites <- {},
    TeamRequests <- {"r1"}, Nobody <- "null", Overlap <- TRUE, MaxJobs <- 2,
    Forms <- {"sign_up", "new_team", "first_project", "delete_team", "delete_user"}

ASSUME /\ Workflow!OrchestratorAssumption /\ Locks!RowLocksAssumption /\ Api!ApiAssumption
       /\ Limiter!LimiterAssumption /\ Build!BuildAssumption /\ Gateway!ArtifactAssumption
       /\ Legacy!LegacyAssumption /\ Canceled!LegacyAssumption
       /\ Storages!StorageAssumption /\ Teams!MembershipAssumption
-----------------------------------------------------------------------------
outboxVars == <<row, wk, serial, faults, processed, acked>>
consumerVars == <<receipt, delivery, effects, told, deliveries, crashes>>
planeVars == <<dep, alias, commands, client>>
bridgeVars == <<planned, routed, orders, visitor, signals, released, wf, lost>>
lockVars == <<route, rowDep, rowBuild, outbox, holds, tx>>
apiVars == <<record, version, call, executed, answers, received, deaths, advances>>
limiterVars == <<clock, attempts, asked>>
buildVars == <<cp, op, archive, live, log, stored, job, secret, pods, inflight, ct, rt, breaks>>
gatewayVars == <<files, manifest, retention, request, now, refusals, published, nominated,
                 emptied>>
legacyVars == <<deployment, box, answered, timedOut, queue, task, probe, seen, aborting,
                aliases, file, cfg, sweep, stops, rollbacks>>
storageVars == <<storage, used, links, dir, made, mounts, jobs, page, requested, deleted,
                 mishaps>>
teamVars == <<user, team, members, project, invite, form, deletions, joined>>

railsVars == <<outboxVars, consumerVars, planeVars, bridgeVars, lockVars, apiVars, limiterVars>>
pathVars == <<buildVars, gatewayVars>>
fastApiVars == <<legacyVars, storageVars, teamVars>>
allVars == <<part, railsVars, pathVars, fastApiVars>>

Init ==
    /\ part \in {"outbox", "consumer", "plane", "workflow", "locks", "api", "limiter",
                 "build", "gateway", "legacy", "canceled", "storages", "teams"}
    /\ Commands!Init /\ Consumer!ConsumerInit
    /\ Plane!CPInit /\ Workflow!OrchInit
    /\ Locks!LocksInit /\ Api!Init /\ Limiter!LimiterInit
    /\ Build!Init /\ Gateway!SitesInit
    /\ Legacy!Init /\ Storages!StorageInit /\ Teams!MembersInit

OutboxRuns ==
    /\ part = "outbox"
    /\ UNCHANGED <<part, consumerVars, planeVars, bridgeVars, lockVars, apiVars,
                   limiterVars, pathVars, fastApiVars>>
ConsumerRuns ==
    /\ part = "consumer"
    /\ UNCHANGED <<part, outboxVars, planeVars, bridgeVars, lockVars, apiVars,
                   limiterVars, pathVars, fastApiVars>>
PlaneRuns ==
    /\ part = "plane"
    /\ UNCHANGED <<part, outboxVars, consumerVars, bridgeVars, lockVars, apiVars,
                   limiterVars, pathVars, fastApiVars>>
WorkflowRuns ==
    /\ part = "workflow"
    /\ UNCHANGED <<part, outboxVars, consumerVars, planeVars, lockVars, apiVars,
                   limiterVars, pathVars, fastApiVars>>
LocksRun ==
    /\ part = "locks"
    /\ UNCHANGED <<part, outboxVars, consumerVars, planeVars, bridgeVars, apiVars,
                   limiterVars, pathVars, fastApiVars>>
ApiRuns ==
    /\ part = "api"
    /\ UNCHANGED <<part, outboxVars, consumerVars, planeVars, bridgeVars, lockVars,
                   limiterVars, pathVars, fastApiVars>>
LimiterRuns ==
    /\ part = "limiter"
    /\ UNCHANGED <<part, outboxVars, consumerVars, planeVars, bridgeVars, lockVars,
                   apiVars, pathVars, fastApiVars>>
BuildRuns ==
    part = "build" /\ UNCHANGED <<part, railsVars, gatewayVars, fastApiVars>>
GatewayRuns ==
    part = "gateway" /\ UNCHANGED <<part, railsVars, buildVars, fastApiVars>>
LegacyRuns ==
    /\ part \in {"legacy", "canceled"}
    /\ UNCHANGED <<part, railsVars, pathVars, storageVars, teamVars>>
StoragesRun ==
    part = "storages" /\ UNCHANGED <<part, railsVars, pathVars, legacyVars, teamVars>>
TeamsRun ==
    part = "teams" /\ UNCHANGED <<part, railsVars, pathVars, legacyVars, storageVars>>

Next ==
    \/ OutboxRuns /\ Commands!Next
    \/ ConsumerRuns /\ Consumer!ConsumerNext
    \/ PlaneRuns /\ Plane!CPNext
    \/ WorkflowRuns /\ Workflow!OrchNext
    \/ LocksRun /\ Locks!LocksNext
    \/ ApiRuns /\ Api!Next
    \/ LimiterRuns /\ Limiter!LimiterNext
    \/ BuildRuns /\ Build!Next
    \/ GatewayRuns /\ Gateway!SitesNext
    \/ LegacyRuns /\ IF part = "legacy" THEN Legacy!Next ELSE Canceled!Next
    \/ StoragesRun /\ Storages!StorageNext
    \/ TeamsRun /\ Teams!MembersNext

WeakFairness ==
    \* Of these components all they state: while another one runs none of their
    \* steps is enabled, so that their fairness asks for nothing.
    /\ Commands!Fairness /\ Consumer!ConsumerFairness /\ Api!Fairness
    /\ Plane!ProviderAnswers /\ Plane!OrchestratorAnswers
    /\ Legacy!Fairness /\ Storages!StorageFairness /\ Teams!MembersFairness
    \* The bridge polls, the worker runs and Rails answers, and the build
    \* controller stops what it is told to stop.  Nothing is assumed of users, of
    \* builds or of the runtime side.
    /\ WF_bridgeVars(part = "workflow" /\ Workflow!Deliver)
    /\ WF_bridgeVars(part = "workflow" /\ Workflow!Activity("g1"))
    /\ WF_bridgeVars(part = "workflow" /\ Workflow!WorkflowStep("g1"))
    /\ WF_bridgeVars(part = "workflow" /\ Workflow!BuildIsStopped("g1"))
    \* PostgreSQL looks for deadlocks after deadlock_timeout, and a thread that
    \* can go on does.
    /\ \A r \in Threads :
          /\ WF_lockVars(part = "locks" /\ Locks!DeadlockDetected(r))
          /\ WF_limiterVars(part = "limiter" /\ (Limiter!Count(r) \/ Limiter!RecordAttempt(r)))
    \* Both tasks of the controller go on, the handler answers, a Job ends by its
    \* deadline at the latest, and a request that holds the gateway's lock goes on.
    /\ WF_buildVars(part = "build" /\ Build!Commands)
    /\ WF_buildVars(part = "build" /\ Build!Work)
    /\ WF_buildVars(part = "build" /\ Build!AcceptResult)
    /\ WF_buildVars(part = "build" /\ Build!DeadlineExceeded)
    /\ WF_buildVars(part = "build" /\ Build!Snapshot)
    /\ WF_buildVars(part = "build" /\ Build!Begin)
    /\ WF_buildVars(part = "build" /\ Build!Process)
    /\ WF_gatewayVars(part = "gateway" /\ Gateway!Serve)

\* What is possible again and again is done: PostgreSQL grants a lock to those
\* that wait for it in their order, a publication is asked for again, and a Job
\* that is looked at again and again is not found within its grace, nor the
\* cluster silent, for ever.
Contends(r) ==
    \/ LocksRun /\ Locks!TxStep(r)
    \/ LimiterRuns /\ (Limiter!LockEmail(r) \/ Limiter!LockIp(r))
    \/ GatewayRuns /\ Gateway!BeginPublish(r, Site)
    \/ /\ BuildRuns
       /\ \/ r = "r1" /\ (Build!ObserveLost \/ Build!ObserveFailed \/ Build!ObserveComplete)
          \/ r = "r2" /\ Build!ReadLogs

Spec ==
    /\ Init /\ [][Next]_allVars
    /\ WeakFairness
    /\ \A r \in Threads : SF_allVars(Contends(r))
-----------------------------------------------------------------------------
\* A command is acknowledged or given up, and every delivery of a callback,
\* request of the API, sign-in link and database transaction is answered,
\* whoever dies, deadlocks or holds a lock (services/outbox_events,
\* services/event_receipts, services/api/idempotency, services/aliases).  The
\* threads are interchangeable: what holds of one holds of the other.
Waiting ==
    \/ row["e1"].status # "none" /\ ~Commands!Terminal("e1")
    \/ delivery["r1"].pc # "idle"
    \/ call["r1"].pc # "idle"
    \/ asked["r1"].pc # "idle"
    \/ tx["r1"].op # "none"

CommandsSettle == Waiting ~> ~Waiting

\* A deployment that is canceled becomes canceled, one that is created gets its
\* build, and a workflow that waits takes up its cancellation
\* (services/deployments/cancel.rb, workflows/deployment_workflow.rb).
Unsettled ==
    \/ \E d \in {"d1", "g1"} : dep[d].status = "canceling"
    \/ planned["g1"].status = "created"

CancellationCompletes ==
    /\ Unsettled ~> ~Unsettled
    /\ Workflow!WaitingIsCanceled

\* A build that was requested ends, a publication that is asked for until it is
\* confirmed is confirmed, and the sandbox of a canceled build is removed
\* (build_controller/controller.py, artifact_gateway/artifacts.py).
Unfinished ==
    \/ /\ part = "build"
       /\ \/ cp.build = "running" /\ ~cp.cancel
          \/ cp.cancel /\ ~(job.state = "none" /\ secret = 0 /\ live = {})
    \/ part = "gateway" /\ published["r1"] = Gateway!NoArchive

BuildsConclude == Unfinished ~> ~Unfinished

\* What a job was enqueued for comes true: a deployment is concluded, a stopped
\* container is deleted, a storage is provisioned, and deleted storages, teams
\* and users are removed (workers/tasks).
Outstanding ==
    \/ /\ part = "canceled"
       /\ deployment["d1"].status # "absent" /\ ~Canceled!Concluded("d1")
    \/ /\ part = "legacy"
       /\ \/ deployment["d1"].container_status = "stopped"
          \/ deployment["d1"].container_status = "removed" /\ box["d1"].state # "gone"
    \/ storage["s1"].status = "pending"
    \/ "s1" \in deleted /\ Storages!Exists("s1")
    \/ \E j \in DOMAIN deletions : /\ deletions[j].kind = "team"
                                   /\ team[deletions[j].id] # "gone"
    \* A deletion of a team may fail the deletion of its owner.
    \/ /\ user["u1"].status = "deleted"
       /\ \A j \in DOMAIN deletions : deletions[j].kind # "team"

JobsComplete == Outstanding ~> ~Outstanding
=============================================================================
