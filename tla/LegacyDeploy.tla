---------------------------- MODULE LegacyDeploy ----------------------------
(***************************************************************************)
(* The deployment pipeline of the FastAPI application (src/app): the arq   *)
(* jobs start, finalize, fail, delete_container and cleanup, the monitor   *)
(* process, and the requests that create, cancel and roll back.            *)
(*                                                                         *)
(* None of them locks the deployment row: each loads it, awaits Docker,    *)
(* Redis or the database, and then assigns the fields it sets whatever     *)
(* the row has become (DeploymentService.update_status).  An action is the *)
(* stretch of a job between two awaits that another actor can come between.*)
(***************************************************************************)
EXTENDS Naturals, FiniteSets

CONSTANTS
  Deployments,   \* deployments of one project that may be created
  Null,
  EnvOf,         \* [Deployments -> environment id]
  BranchOf,      \* [Deployments -> branch]
  Prod,          \* the id of the production environment
  Cancelable,    \* deployments somebody may cancel
  Faulty,        \* TRUE: Docker, Redis and the database may fail a job
  MaxCrashes,    \* bound: worker or monitor crashes
  MaxRollbacks   \* bound: rollbacks of the production environment

LegacyAssumption ==
  /\ Null \notin Deployments
  /\ DOMAIN EnvOf = Deployments /\ DOMAIN BranchOf = Deployments
  /\ Cancelable \subseteq Deployments
  /\ Faulty \in BOOLEAN /\ MaxCrashes \in Nat /\ MaxRollbacks \in Nat

VARIABLES
  row,       \* the Deployment rows
  box,       \* the container of each name: its id (a generation) and state
  answered,  \* <<deployment, container id>> the monitor's probe reached (history)
  timedOut,  \* deployments older than deployment_timeout_seconds
  queue,     \* jobs waiting in Redis
  task,      \* the point each running job or request has reached
  probe,     \* the monitor's check of each deployment: container id probed
  seen,      \* the row the cancel or fail of a deployment has in memory
  aborting,  \* start jobs arq has been told to abort
  alias,     \* the Alias rows
  file,      \* the Traefik file of the project: alias key -> deployment
  cfg,       \* the configuration a writer has read and not yet written
  sweep,     \* the cleanup job: active ids, rows to do, rows done
  crashes, rollbacks

vars == <<row, box, answered, timedOut, queue, task, probe, seen, aborting,
          alias, file, cfg, sweep, crashes, rollbacks>>

Kinds == {"start", "finalize", "fail", "delete", "cancel", "request"}
Jobs  == Kinds \X Deployments
Cleanup == <<"cleanup", Null>>
Rollback == <<"rollback", Null>>
Keys  == UNION {{<<"branch", BranchOf[d]>>, <<"environment", EnvOf[d]>>,
                 <<"environment_id", EnvOf[d]>>} : d \in Deployments}
KeysOf(d) == {<<"branch", BranchOf[d]>>, <<"environment", EnvOf[d]>>,
              <<"environment_id", EnvOf[d]>>}
Writers == {<<"finalize", d>> : d \in Deployments} \cup {Rollback}
NoFile == [k \in Keys |-> Null]

Absent == [status |-> "absent", conclusion |-> "none", container_id |-> 0,
           container_status |-> "none", job_id |-> FALSE]

Init ==
  /\ row = [d \in Deployments |-> Absent]
  /\ box = [d \in Deployments |-> [id |-> 0, state |-> "gone"]]
  /\ answered = {} /\ timedOut = {} /\ queue = {} /\ aborting = {}
  /\ task = [j \in Jobs \cup {Cleanup, Rollback} |-> "idle"]
  /\ probe = [d \in Deployments |-> 0]
  /\ seen = [j \in {"cancel", "fail"} \X Deployments |-> Absent]
  /\ alias = [k \in Keys |-> [cur |-> Null, prev |-> Null]]
  /\ file = NoFile
  /\ cfg = [w \in Writers |-> NoFile]
  /\ sweep = [active |-> {}, todo |-> {}, done |-> {}]
  /\ crashes = 0 /\ rollbacks = 0

---------------------------------------------------------------------------
(* What the jobs are made of.                                              *)

At(kind, d, pc) == task[<<kind, d>>] = pc
Goto(kind, d, pc) == task' = [task EXCEPT ![<<kind, d>>] = pc]
Enqueue(kind, d) == queue' = queue \cup {<<kind, d>>}
Take(kind, d) ==
  /\ <<kind, d>> \in queue /\ At(kind, d, "idle")
  /\ queue' = queue \ {<<kind, d>>}

Concluded(d) == row[d].conclusion # "none"

\* containers.get(container_id): the id is still the container of that name.
Found(d, id) == id # 0 /\ box[d].id = id /\ box[d].state # "gone"
Stop(b) == [b EXCEPT !.state = IF b.state = "running" THEN "exited" ELSE b.state]

\* Alias.update_or_create for the three subdomains of a deployment: only the
\* production environment remembers what it served before.
SetupAliases(d) ==
  [k \in Keys |->
     IF k \notin KeysOf(d) \/ alias[k].cur = d THEN alias[k]
     ELSE [cur |-> d,
           prev |-> IF k = <<"environment", Prod>> THEN alias[k].cur ELSE Null]]

\* update_traefik_config: the aliases of concluded successes and of the
\* deployments the caller includes.  A custom domain takes the deployment of
\* the "environment_id" alias.
TraefikConfig(included) ==
  [k \in Keys |->
     LET d == alias[k].cur IN
     IF d # Null /\ (d \in included \/ row[d].conclusion = "succeeded")
     THEN d ELSE Null]

---------------------------------------------------------------------------
(* The requests that create a deployment: the row, the job, the job's id.  *)

Create(d) ==
  /\ row[d].status = "absent"
  /\ row' = [row EXCEPT ![d].status = "prepare"]
  /\ Goto("request", d, "created")
  /\ UNCHANGED <<box, answered, timedOut, queue, probe, seen, aborting, alias,
                 file, cfg, sweep, crashes, rollbacks>>

\* A user picks a commit; a user deploys again the commit of a deployment; a
\* push arrives from GitHub.
Deploy(d) == Create(d)
Redeploy(d) ==
  /\ \E old \in Deployments : row[old].status # "absent" /\ BranchOf[old] = BranchOf[d]
  /\ Create(d)
Push(d) == Create(d)

EnqueueStart(d) ==
  /\ At("request", d, "created")
  /\ Enqueue("start", d)
  /\ Goto("request", d, "enqueued")
  /\ UNCHANGED <<row, box, answered, timedOut, probe, seen, aborting, alias,
                 file, cfg, sweep, crashes, rollbacks>>

SaveJobId(d) ==
  /\ At("request", d, "enqueued")
  /\ row' = [row EXCEPT ![d].job_id = TRUE]
  /\ Goto("request", d, "idle")
  /\ UNCHANGED <<box, answered, timedOut, queue, probe, seen, aborting, alias,
                 file, cfg, sweep, crashes, rollbacks>>

---------------------------------------------------------------------------
(* start_deployment                                                        *)

StartLoad(d) ==
  /\ Take("start", d) /\ d \notin aborting
  /\ row' = [row EXCEPT ![d].status = "prepare"]
  /\ Goto("start", d, "prepare")
  /\ UNCHANGED <<box, answered, timedOut, probe, seen, aborting, alias, file,
                 cfg, sweep, crashes, rollbacks>>

\* create_or_replace: a container of that name left by an earlier try goes.
StartCreate(d) ==
  /\ At("start", d, "prepare")
  /\ box' = [box EXCEPT ![d] = [id |-> @.id + 1, state |-> "created"]]
  /\ Goto("start", d, "created")
  /\ UNCHANGED <<row, answered, timedOut, queue, probe, seen, aborting, alias,
                 file, cfg, sweep, crashes, rollbacks>>

StartBoot(d) ==
  /\ At("start", d, "created")
  /\ box' = [box EXCEPT ![d].state = "running"]
  /\ Goto("start", d, "started")
  /\ UNCHANGED <<row, answered, timedOut, queue, probe, seen, aborting, alias,
                 file, cfg, sweep, crashes, rollbacks>>

\* Mutant: the container's status is recorded as the deployment's.
StartRecordStatus(d) ==
  /\ At("start", d, "started")
  /\ row' = [row EXCEPT ![d].container_id = box[d].id, ![d].status = "deploy",
                        ![d].container_status = "deploy"]
  /\ Goto("start", d, "idle")
  /\ UNCHANGED <<box, answered, timedOut, queue, probe, seen, aborting, alias,
                 file, cfg, sweep, crashes, rollbacks>>

StartRecord(d) ==
  /\ At("start", d, "started")
  /\ row' = [row EXCEPT ![d].container_id = box[d].id, ![d].status = "deploy",
                        ![d].container_status = "running"]
  /\ Goto("start", d, "idle")
  /\ UNCHANGED <<box, answered, timedOut, queue, probe, seen, aborting, alias,
                 file, cfg, sweep, crashes, rollbacks>>

\* The runner image is missing, or the container is refused: both hand over
\* to fail_deployment.  An error after the container exists does too.
StartRaises(d) ==
  /\ \/ At("start", d, "prepare")
     \/ Faulty /\ task[<<"start", d>>] \in {"created", "started"}
  /\ Enqueue("fail", d)
  /\ Goto("start", d, "idle")
  /\ UNCHANGED <<row, box, answered, timedOut, probe, seen, aborting, alias,
                 file, cfg, sweep, crashes, rollbacks>>

\* arq drops an aborted job that has not started.
StartDropped(d) ==
  /\ Take("start", d) /\ d \in aborting
  /\ aborting' = aborting \ {d}
  /\ UNCHANGED <<row, box, answered, timedOut, task, probe, seen, alias, file,
                 cfg, sweep, crashes, rollbacks>>

\* CancelledError, from an abort or from the worker's own timeout or shutdown:
\* with a container, it is stopped, its deletion queued and the row concluded;
\* the id of the container is not recorded.
StartAborted(d) ==
  /\ (d \in aborting \/ Faulty) /\ ~At("start", d, "idle")
  /\ aborting' = aborting \ {d}
  /\ Goto("start", d, "idle")
  /\ IF At("start", d, "prepare")
     THEN UNCHANGED <<row, box, queue>>
     ELSE /\ box' = [box EXCEPT ![d] = Stop(@)]
          /\ Enqueue("delete", d)
          /\ row' = [row EXCEPT ![d].status = "completed",
                                ![d].conclusion = "canceled",
                                ![d].container_status = "stopped"]
  /\ UNCHANGED <<answered, timedOut, probe, seen, alias, file, cfg, sweep,
                 crashes, rollbacks>>

---------------------------------------------------------------------------
(* The monitor                                                             *)

Watched(d) ==
  probe[d] = 0 /\ row[d].status = "deploy" /\ row[d].container_status = "running"

\* Mutant: a deployment that timed out is watched for ever.
MonitorPatient(d) ==
  /\ Watched(d) /\ ~Found(d, row[d].container_id)
  /\ Enqueue("fail", d)
  /\ UNCHANGED <<row, box, answered, timedOut, task, probe, seen, aborting,
                 alias, file, cfg, sweep, crashes, rollbacks>>

MonitorGivesUp(d) ==
  /\ Watched(d)
  /\ \/ d \in timedOut
     \/ ~Found(d, row[d].container_id)
     \/ Faulty
  /\ Enqueue("fail", d)
  /\ UNCHANGED <<row, box, answered, timedOut, task, probe, seen, aborting,
                 alias, file, cfg, sweep, crashes, rollbacks>>

\* Mutant: the check of a deployment that timed out goes on to the probe.
MonitorProbeLate(d) ==
  /\ Watched(d) /\ Found(d, row[d].container_id)
  /\ probe' = [probe EXCEPT ![d] = row[d].container_id]
  /\ UNCHANGED <<row, box, answered, timedOut, queue, task, seen, aborting,
                 alias, file, cfg, sweep, crashes, rollbacks>>

MonitorProbe(d) ==
  /\ Watched(d) /\ d \notin timedOut /\ Found(d, row[d].container_id)
  /\ probe' = [probe EXCEPT ![d] = row[d].container_id]
  /\ UNCHANGED <<row, box, answered, timedOut, queue, task, seen, aborting,
                 alias, file, cfg, sweep, crashes, rollbacks>>

\* The container has exited, or Docker does not know it any more.
MonitorExited(d) ==
  /\ probe[d] # 0
  /\ ~(Found(d, probe[d]) /\ box[d].state = "running")
  /\ probe' = [probe EXCEPT ![d] = 0]
  /\ Enqueue("fail", d)
  /\ UNCHANGED <<row, box, answered, timedOut, task, seen, aborting, alias,
                 file, cfg, sweep, crashes, rollbacks>>

MonitorNoAnswer(d) ==
  /\ probe[d] # 0 /\ <<d, probe[d]>> \notin answered
  /\ probe' = [probe EXCEPT ![d] = 0]
  /\ UNCHANGED <<row, box, answered, timedOut, queue, task, seen, aborting,
                 alias, file, cfg, sweep, crashes, rollbacks>>

MonitorAnswer(d) ==
  /\ probe[d] # 0 /\ Found(d, probe[d]) /\ box[d].state = "running"
  /\ answered' = answered \cup {<<d, probe[d]>>}
  /\ UNCHANGED <<row, box, timedOut, queue, task, probe, seen, aborting, alias,
                 file, cfg, sweep, crashes, rollbacks>>

\* Mutant: a running container counts as ready.
MonitorReadyUnanswered(d) ==
  /\ probe[d] # 0
  /\ row' = [row EXCEPT ![d].status = "finalize"]
  /\ probe' = [probe EXCEPT ![d] = 0]
  /\ Enqueue("finalize", d)
  /\ UNCHANGED <<box, answered, timedOut, task, seen, aborting, alias, file,
                 cfg, sweep, crashes, rollbacks>>

\* update_status(finalize) after the probe's await, then the job.
MonitorReady(d) ==
  /\ probe[d] # 0 /\ <<d, probe[d]>> \in answered
  /\ row' = [row EXCEPT ![d].status = "finalize"]
  /\ probe' = [probe EXCEPT ![d] = 0]
  /\ Enqueue("finalize", d)
  /\ UNCHANGED <<box, answered, timedOut, task, seen, aborting, alias, file,
                 cfg, sweep, crashes, rollbacks>>

---------------------------------------------------------------------------
(* finalize_deployment                                                     *)

FinalizeLoad(d) ==
  /\ Take("finalize", d)
  /\ IF row[d].conclusion = "canceled" THEN UNCHANGED task
     ELSE Goto("finalize", d, "loaded")
  /\ UNCHANGED <<row, box, answered, timedOut, probe, seen, aborting, alias,
                 file, cfg, sweep, crashes, rollbacks>>

FinalizeAliases(d) ==
  /\ At("finalize", d, "loaded")
  /\ alias' = SetupAliases(d)
  /\ Goto("finalize", d, "aliased")
  /\ UNCHANGED <<row, box, answered, timedOut, queue, probe, seen, aborting,
                 file, cfg, sweep, crashes, rollbacks>>

FinalizeRead(d) ==
  /\ At("finalize", d, "aliased")
  /\ cfg' = [cfg EXCEPT ![<<"finalize", d>>] = TraefikConfig({d})]
  /\ Goto("finalize", d, "read")
  /\ UNCHANGED <<row, box, answered, timedOut, queue, probe, seen, aborting,
                 alias, file, sweep, crashes, rollbacks>>

\* An error of the file is logged and the job goes on.
FinalizeWrite(d) ==
  /\ At("finalize", d, "read")
  /\ \/ file' = cfg[<<"finalize", d>>]
     \/ Faulty /\ UNCHANGED file
  /\ cfg' = [cfg EXCEPT ![<<"finalize", d>>] = NoFile]
  /\ Goto("finalize", d, "written")
  /\ UNCHANGED <<row, box, answered, timedOut, queue, probe, seen, aborting,
                 alias, sweep, crashes, rollbacks>>

FinalizeConclude(d) ==
  /\ At("finalize", d, "written")
  /\ row' = [row EXCEPT ![d].status = "completed", ![d].conclusion = "succeeded"]
  /\ queue' = queue \cup {Cleanup}
  /\ Goto("finalize", d, "idle")
  /\ UNCHANGED <<box, answered, timedOut, probe, seen, aborting, alias, file,
                 cfg, sweep, crashes, rollbacks>>

FinalizeRaises(d) ==
  /\ Faulty /\ task[<<"finalize", d>>] \in {"loaded", "aliased", "written"}
  /\ Enqueue("fail", d)
  /\ Goto("finalize", d, "idle")
  /\ UNCHANGED <<row, box, answered, timedOut, probe, seen, aborting, alias,
                 file, cfg, sweep, crashes, rollbacks>>

---------------------------------------------------------------------------
(* fail_deployment and delete_container                                    *)

FailLoad(d) ==
  /\ Take("fail", d)
  /\ IF Concluded(d) THEN UNCHANGED <<row, task, seen>>
     ELSE /\ row' = [row EXCEPT ![d].status = "fail"]
          /\ seen' = [seen EXCEPT ![<<"fail", d>>] = row[d]]
          /\ Goto("fail", d, "failing")
  /\ UNCHANGED <<box, answered, timedOut, probe, aborting, alias, file, cfg,
                 sweep, crashes, rollbacks>>

\* Mutants: the row is settled without the container; the deletion is forgotten.
StopRowOnly(who, d) ==
  /\ row' = [row EXCEPT ![d].container_status = "stopped"]
  /\ UNCHANGED <<box, queue>>
StopNoDelete(who, d) ==
  IF Found(d, seen[<<who, d>>].container_id)
  THEN /\ box' = [box EXCEPT ![d] = Stop(@)]
       /\ row' = [row EXCEPT ![d].container_status = "stopped"]
       /\ UNCHANGED queue
  ELSE UNCHANGED <<row, box, queue>>

\* Stop the container the row in memory names; 404 means it is removed.
StopSeen(who, d) ==
  LET r == seen[<<who, d>>] IN
  IF r.container_id = 0 \/ r.container_status \in {"removed", "stopped"}
  THEN UNCHANGED <<row, box, queue>>
  ELSE \/ /\ Found(d, r.container_id)
          /\ box' = [box EXCEPT ![d] = Stop(@)]
          /\ Enqueue("delete", d)
          /\ row' = [row EXCEPT ![d].container_status = "stopped"]
       \/ /\ ~Found(d, r.container_id)
          /\ row' = [row EXCEPT ![d].container_status = "removed"]
          /\ UNCHANGED <<box, queue>>
       \/ Faulty /\ UNCHANGED <<row, box, queue>>

FailStop(d) ==
  /\ At("fail", d, "failing")
  /\ StopSeen("fail", d)
  /\ seen' = [seen EXCEPT ![<<"fail", d>>] = Absent]
  /\ Goto("fail", d, "stopped")
  /\ UNCHANGED <<answered, timedOut, probe, aborting, alias, file, cfg, sweep,
                 crashes, rollbacks>>

FailConclude(d) ==
  /\ At("fail", d, "stopped")
  /\ row' = [row EXCEPT ![d].status = "completed", ![d].conclusion = "failed"]
  /\ Goto("fail", d, "idle")
  /\ UNCHANGED <<box, answered, timedOut, queue, probe, seen, aborting, alias,
                 file, cfg, sweep, crashes, rollbacks>>

DeleteContainer(d) ==
  /\ Take("delete", d)
  /\ \/ /\ row[d].container_id # 0
        /\ row' = [row EXCEPT ![d].container_status = "removed"]
        /\ box' = IF Found(d, row[d].container_id)
                  THEN [box EXCEPT ![d].state = "gone"] ELSE box
     \/ (row[d].container_id = 0 \/ Faulty) /\ UNCHANGED <<row, box>>
  /\ UNCHANGED <<answered, timedOut, task, probe, seen, aborting, alias, file,
                 cfg, sweep, crashes, rollbacks>>

---------------------------------------------------------------------------
(* DeploymentService.cancel                                                *)

\* The page offers this for a deployment that is not concluded; the request
\* loads the row, and decides on what it has loaded (Refused).
CancelAsk(d) ==
  /\ d \in Cancelable /\ At("cancel", d, "idle") /\ row[d].status # "absent"
  /\ ~Concluded(d)
  /\ seen' = [seen EXCEPT ![<<"cancel", d>>] = row[d]]
  /\ Goto("cancel", d, "asked")
  /\ UNCHANGED <<row, box, answered, timedOut, queue, probe, aborting, alias,
                 file, cfg, sweep, crashes, rollbacks>>

Refused(r) == r.status \in {"finalize", "fail", "completed"} \/ r.conclusion # "none"

CancelCommit(d) ==
  /\ At("cancel", d, "asked")
  /\ IF Refused(seen[<<"cancel", d>>])
     THEN Goto("cancel", d, "idle") /\ UNCHANGED row
     ELSE /\ row' = [row EXCEPT ![d].status = "completed", ![d].conclusion = "canceled"]
          /\ Goto("cancel", d, "committed")
  /\ UNCHANGED <<box, answered, timedOut, queue, probe, seen, aborting, alias,
                 file, cfg, sweep, crashes, rollbacks>>

StartPending(d) == <<"start", d>> \in queue \/ ~At("start", d, "idle")

CancelAbort(d) ==
  /\ At("cancel", d, "committed")
  /\ aborting' = IF seen[<<"cancel", d>>].job_id /\ StartPending(d)
                 THEN aborting \cup {d} ELSE aborting
  /\ Goto("cancel", d, "aborting")
  /\ UNCHANGED <<row, box, answered, timedOut, queue, probe, seen, alias, file,
                 cfg, sweep, crashes, rollbacks>>

\* job.abort() returns once the job has ended; a job that ended before it
\* saw the abort leaves nothing to abort.
CancelStop(d) ==
  /\ At("cancel", d, "aborting")
  /\ seen[<<"cancel", d>>].job_id => ~StartPending(d)
  /\ aborting' = aborting \ {d}
  /\ StopSeen("cancel", d)
  /\ seen' = [seen EXCEPT ![<<"cancel", d>>] = Absent]
  /\ Goto("cancel", d, "idle")
  /\ UNCHANGED <<answered, timedOut, probe, alias, file, cfg, sweep, crashes,
                 rollbacks>>

---------------------------------------------------------------------------
(* DeploymentService.rollback of the production environment                *)

RollbackSwap ==
  LET k == <<"environment", Prod>> IN
  /\ k \in Keys /\ rollbacks < MaxRollbacks
  /\ task[Rollback] = "idle" /\ alias[k].prev # Null
  /\ alias' = [alias EXCEPT ![k] = [cur |-> @.prev, prev |-> @.cur]]
  /\ rollbacks' = rollbacks + 1
  /\ task' = [task EXCEPT ![Rollback] = "swapped"]
  /\ UNCHANGED <<row, box, answered, timedOut, queue, probe, seen, aborting,
                 file, cfg, sweep, crashes>>

RollbackRead ==
  /\ task[Rollback] = "swapped"
  /\ cfg' = [cfg EXCEPT ![Rollback] = TraefikConfig({})]
  /\ task' = [task EXCEPT ![Rollback] = "read"]
  /\ UNCHANGED <<row, box, answered, timedOut, queue, probe, seen, aborting,
                 alias, file, sweep, crashes, rollbacks>>

RollbackWrite ==
  /\ task[Rollback] = "read"
  /\ file' = cfg[Rollback]
  /\ cfg' = [cfg EXCEPT ![Rollback] = NoFile]
  /\ task' = [task EXCEPT ![Rollback] = "idle"]
  /\ UNCHANGED <<row, box, answered, timedOut, queue, probe, seen, aborting,
                 alias, sweep, crashes, rollbacks>>

---------------------------------------------------------------------------
(* cleanup_inactive_containers                                             *)

Active == (UNION {{alias[k].cur, alias[k].prev} : k \in Keys}) \ {Null}

CleanupActive ==
  /\ Cleanup \in queue /\ task[Cleanup] = "idle"
  /\ queue' = queue \ {Cleanup}
  /\ sweep' = [sweep EXCEPT !.active = Active]
  /\ task' = [task EXCEPT ![Cleanup] = "active"]
  /\ UNCHANGED <<row, box, answered, timedOut, probe, seen, aborting, alias,
                 file, cfg, crashes, rollbacks>>

CleanupInactive ==
  /\ task[Cleanup] = "active"
  /\ sweep' = [sweep EXCEPT !.todo =
       {d \in Deployments : /\ row[d].container_id # 0
                            /\ row[d].container_status = "running"
                            /\ row[d].status = "completed"
                            /\ d \notin sweep.active}]
  /\ task' = [task EXCEPT ![Cleanup] = "sweeping"]
  /\ UNCHANGED <<row, box, answered, timedOut, queue, probe, seen, aborting,
                 alias, file, cfg, crashes, rollbacks>>

CleanupRemove(d) ==
  /\ task[Cleanup] = "sweeping" /\ d \in sweep.todo
  /\ box' = IF Found(d, row[d].container_id)
            THEN [box EXCEPT ![d].state = "gone"] ELSE box
  /\ sweep' = [sweep EXCEPT !.todo = @ \ {d}, !.done = @ \cup {d}]
  /\ UNCHANGED <<row, answered, timedOut, queue, task, probe, seen, aborting,
                 alias, file, cfg, crashes, rollbacks>>

CleanupCommit ==
  /\ task[Cleanup] = "sweeping" /\ sweep.todo = {}
  /\ row' = [d \in Deployments |->
       IF d \in sweep.done THEN [row[d] EXCEPT !.container_status = "removed"]
       ELSE row[d]]
  /\ sweep' = [active |-> {}, todo |-> {}, done |-> {}]
  /\ task' = [task EXCEPT ![Cleanup] = "idle"]
  /\ UNCHANGED <<box, answered, timedOut, queue, probe, seen, aborting, alias,
                 file, cfg, crashes, rollbacks>>

---------------------------------------------------------------------------
(* The world                                                               *)

AppExits(d) ==
  /\ box[d].state = "running" /\ <<d, box[d].id>> \notin answered
  /\ box' = [box EXCEPT ![d].state = "exited"]
  /\ UNCHANGED <<row, answered, timedOut, queue, task, probe, seen, aborting,
                 alias, file, cfg, sweep, crashes, rollbacks>>

TimeOut(d) ==
  /\ row[d].status # "absent" /\ ~Concluded(d) /\ d \notin timedOut
  /\ timedOut' = timedOut \cup {d}
  /\ UNCHANGED <<row, box, answered, queue, task, probe, seen, aborting, alias,
                 file, cfg, sweep, crashes, rollbacks>>

\* The worker dies: arq runs again what it was running.
Retried == {j \in Jobs \cup {Cleanup} :
              task[j] # "idle" /\ j[1] \in {"start", "finalize", "fail", "cleanup"}}
WorkerCrash ==
  /\ crashes < MaxCrashes /\ Retried # {}
  /\ crashes' = crashes + 1
  /\ queue' = queue \cup Retried
  /\ task' = [j \in DOMAIN task |-> IF j \in Retried THEN "idle" ELSE task[j]]
  /\ sweep' = [active |-> {}, todo |-> {}, done |-> {}]
  /\ UNCHANGED <<row, box, answered, timedOut, probe, seen, aborting, alias,
                 file, cfg, rollbacks>>

Worker(d) ==
  \/ StartLoad(d) \/ StartCreate(d) \/ StartBoot(d) \/ StartRecord(d)
  \/ StartDropped(d) \/ StartAborted(d)
  \/ FinalizeLoad(d) \/ FinalizeAliases(d) \/ FinalizeRead(d)
  \/ FinalizeWrite(d) \/ FinalizeConclude(d)
  \/ FailLoad(d) \/ FailStop(d) \/ FailConclude(d)
  \/ DeleteContainer(d)
Request(d) ==
  \/ EnqueueStart(d) \/ SaveJobId(d)
  \/ CancelCommit(d) \/ CancelAbort(d) \/ CancelStop(d)
Monitor(d) ==
  \/ MonitorGivesUp(d) \/ MonitorProbe(d) \/ MonitorExited(d)
  \/ MonitorNoAnswer(d) \/ MonitorReady(d)
Sweep ==
  \/ CleanupActive \/ CleanupInactive
  \/ \E d \in Deployments : CleanupRemove(d)
  \/ CleanupCommit
Roll == RollbackSwap \/ RollbackRead \/ RollbackWrite

Next ==
  \/ \E d \in Deployments :
        \/ Deploy(d) \/ Redeploy(d) \/ Push(d)
        \/ Worker(d) \/ Request(d) \/ Monitor(d) \/ MonitorAnswer(d)
        \/ StartRaises(d) \/ FinalizeRaises(d) \/ CancelAsk(d)
        \/ AppExits(d) \/ TimeOut(d)
  \/ Sweep \/ Roll \/ WorkerCrash

Spec == Init /\ [][Next]_vars

\* arq runs what is queued, requests end, the monitor loops, and time passes.
Fairness ==
  /\ \A d \in Deployments : /\ WF_vars(Worker(d)) /\ WF_vars(Request(d))
                            /\ WF_vars(Monitor(d)) /\ WF_vars(TimeOut(d))
  /\ WF_vars(Sweep)

---------------------------------------------------------------------------
(* Properties                                                              *)

Statuses == {"absent", "prepare", "deploy", "finalize", "fail", "completed"}
Rows == [status : Statuses,
         conclusion : {"none", "succeeded", "failed", "canceled"},
         container_id : Nat,
         container_status : {"none", "running", "stopped", "removed"},
         job_id : BOOLEAN]
Boxes == [id : Nat, state : {"created", "running", "exited", "gone"}]
AliasRows == [cur : Deployments \cup {Null}, prev : Deployments \cup {Null}]
Files == [Keys -> Deployments \cup {Null}]
Places == Jobs \cup {Cleanup, Rollback}
Points == {"idle", "created", "enqueued", "prepare", "started", "loaded", "aliased", "read",
           "written", "failing", "stopped", "asked", "committed", "aborting", "swapped",
           "active", "sweeping"}

\* The rows, containers, jobs, aliases and routes have the shapes the code
\* gives them.
LDTypeOK ==
  /\ row \in [Deployments -> Rows]
  /\ box \in [Deployments -> Boxes]
  /\ answered \subseteq Deployments \X Nat
  /\ timedOut \subseteq Deployments /\ aborting \subseteq Deployments
  /\ queue \subseteq Jobs \cup {Cleanup}
  /\ task \in [Places -> Points]
  /\ probe \in [Deployments -> Nat]
  /\ seen \in [{"cancel", "fail"} \X Deployments -> Rows]
  /\ alias \in [Keys -> AliasRows]
  /\ file \in Files /\ cfg \in [Writers -> Files]
  /\ sweep \in [active : SUBSET Deployments, todo : SUBSET Deployments,
                done : SUBSET Deployments]
  /\ crashes \in Nat /\ rollbacks \in Nat

\* Whatever fails, is aborted, retried or rolled back: a hostname, a rollback
\* target and a line of the Traefik file only ever name deployments whose
\* application answered the monitor (finalize is enqueued nowhere else).
Answered(d) == \E a \in answered : a[1] = d
ServedAnswered ==
  \A k \in Keys : \A d \in {alias[k].cur, alias[k].prev, file[k]} \ {Null} : Answered(d)

\* The status of a deployment only advances, and it is concluded once: fail and
\* finalize never both conclude it, whichever of the worker and the monitor
\* writes it.
Rank(status) ==
  CASE status = "absent" -> 0 [] status = "prepare" -> 1 [] status = "deploy" -> 2
    [] status \in {"finalize", "fail"} -> 3 [] status = "completed" -> 4
StatusAdvances ==
  \A d \in Deployments : /\ Rank(row[d].status) =< Rank(row'[d].status)
                         /\ Concluded(d) => row'[d].conclusion = row[d].conclusion
ConcludedOnce == [][StatusAdvances]_vars

\* Nothing is left to run for the deployment.
Settled(d) ==
  /\ \A k \in Kinds : At(k, d, "idle") /\ <<k, d>> \notin queue
  /\ probe[d] = 0 /\ ~Watched(d)

Quiet == /\ \A d \in Deployments : Settled(d)
         /\ Cleanup \notin queue /\ task[Cleanup] = "idle"

\* Superseded containers do not pile up: when no job is left, a container runs
\* only for a deployment that an alias serves or that production can roll back
\* to.
OnlyActiveRun ==
  Quiet => \A d \in Deployments : box[d].state = "running" => d \in Active

\* cleanup_inactive_containers' docstring: "Stop/remove containers for
\* deployments no longer referenced by aliases".  It reads the active ids and
\* the inactive rows in two statements and removes later.
ServedIsKept == \A d \in Active : box[d].state # "gone"

\* fail_deployment leaves no container running behind a failed deployment.
FailedIsStopped ==
  \A d \in Deployments : (Settled(d) /\ row[d].conclusion = "failed") => box[d].state # "running"

\* services/deployment.py says of cancel "Stop container if running to halt
\* logs/app": nothing of a canceled deployment keeps running.
CanceledIsStopped ==
  \A d \in Deployments : (Settled(d) /\ row[d].conclusion = "canceled") => box[d].state # "running"

\* rollback's docstring, "Rollback an environment to its previous deployment":
\* when the rollback has been written, the domains of the environment (served
\* through the environment_id alias) go where its hostname goes.
RollbackMovesDomains ==
  (rollbacks > 0 /\ task[Rollback] = "idle"
     /\ \A d \in Deployments : Settled(d) /\ At("finalize", d, "idle"))
  => file[<<"environment_id", Prod>>] = file[<<"environment", Prod>>]

---------------------------------------------------------------------------
(* The inductive invariants.                                               *)

\* What was, is or will be routed, and what finalize is queued or running for,
\* has answered.
MayBeRouted(d) ==
  \/ <<"finalize", d>> \in queue \/ ~At("finalize", d, "idle")
  \/ \E k \in Keys : d \in {alias[k].cur, alias[k].prev, file[k]}
  \/ \E w \in Writers : \E k \in Keys : cfg[w][k] = d
RoutedAnswered == \A d \in Deployments : MayBeRouted(d) => Answered(d)

ServedInv == LDTypeOK /\ RoutedAnswered

\* Nobody cancels, no job fails and no process dies.
Reliable == ~Faulty /\ Cancelable = {} /\ MaxCrashes = 0

\* Where nobody cancels, nothing fails and nothing dies, no container of a
\* superseded or failed deployment goes on.
NoneRunsInVain == LDTypeOK /\ (Reliable => OnlyActiveRun /\ FailedIsStopped)

Pending(kind, d) == <<kind, d>> \in queue \/ ~At(kind, d, "idle")
Stopped(d) == box[d].state # "running"
ProbesInVain(d) == probe[d] # 0 => Stopped(d) /\ <<d, probe[d]>> \notin answered

\* Until start_deployment is done, the request, the job or its failure is what
\* goes on with the deployment.
Launching(d) ==
  LET r == row[d] IN
  /\ r.conclusion = "none" /\ r.container_id = 0
  /\ probe[d] = 0 /\ ~Answered(d)
  /\ ~Pending("finalize", d) /\ At("fail", d, "idle") /\ <<"delete", d>> \notin queue
  /\ r.status = "absent" =>
       ~Pending("start", d) /\ ~Pending("fail", d) /\ At("request", d, "idle")
  /\ r.status = "prepare" =>
       At("request", d, "created") \/ Pending("start", d) \/ <<"fail", d>> \in queue
  /\ At("request", d, "created") => ~Pending("start", d) /\ <<"fail", d>> \notin queue
  /\ <<"start", d>> \in queue => At("start", d, "idle")
  /\ Pending("start", d) => <<"fail", d>> \notin queue
  /\ task[<<"start", d>>] \in {"idle", "prepare"} => box[d].state = "gone"
  /\ At("start", d, "created") => box[d].id # 0 /\ box[d].state = "created"
  /\ At("start", d, "started") => box[d].id # 0 /\ box[d].state \in {"running", "exited"}

\* The monitor looks after it; what it gave up will not answer any more.
Monitored(d) ==
  LET r == row[d] IN
  /\ r.conclusion = "none" /\ r.container_status = "running"
  /\ r.container_id = box[d].id /\ box[d].id # 0 /\ box[d].state \in {"running", "exited"}
  /\ probe[d] \in {0, box[d].id}
  /\ box[d].state = "exited" => <<d, box[d].id>> \notin answered
  /\ ~Pending("finalize", d) /\ At("fail", d, "idle") /\ <<"delete", d>> \notin queue
  /\ <<"fail", d>> \in queue => (d \in timedOut /\ probe[d] = 0) \/ box[d].state = "exited"

\* The container of a row that finalize concludes, or has concluded.
Recorded(d) ==
  /\ row[d].container_id = box[d].id /\ box[d].id # 0
  /\ row[d].container_status = "running" \/ Stopped(d)

Finalizing(d) ==
  /\ row[d].conclusion = "none" /\ probe[d] = 0 /\ Recorded(d)
  /\ ~Pending("fail", d) /\ <<"delete", d>> \notin queue
  /\ Pending("finalize", d)
  /\ <<"finalize", d>> \in queue => At("finalize", d, "idle")

Failing(d) ==
  LET r == seen[<<"fail", d>>] IN
  /\ row[d].conclusion = "none" /\ ~Pending("finalize", d) /\ ProbesInVain(d)
  /\ task[<<"fail", d>>] \in {"failing", "stopped"}
  /\ At("fail", d, "stopped") => Stopped(d)
  /\ At("fail", d, "failing") =>
       IF r.container_id = 0 THEN Stopped(d)
       ELSE r.container_id = box[d].id /\ r.container_status = "running"

Completed(d) ==
  /\ ~Pending("finalize", d) /\ At("fail", d, "idle")
  /\ \/ /\ row[d].conclusion = "succeeded" /\ probe[d] = 0 /\ Recorded(d)
        /\ <<"fail", d>> \notin queue /\ <<"delete", d>> \notin queue
     \/ row[d].conclusion = "failed" /\ Stopped(d) /\ ProbesInVain(d)

\* Each status with what is queued, running and known of the deployment.
StageFits(d) ==
  LET s == row[d].status IN
  /\ s \in {"absent", "prepare"} => Launching(d)
  /\ s \notin {"absent", "prepare"} => ~Pending("start", d) /\ ~At("request", d, "created")
  /\ s = "deploy" => Monitored(d)
  /\ s = "finalize" => Finalizing(d)
  /\ s = "fail" => Failing(d)
  /\ s = "completed" => Completed(d)
  /\ At("cancel", d, "idle") /\ At("delete", d, "idle")

\* The sweep works on concluded deployments; what it has done is removed.
SweepFits ==
  /\ \A d \in sweep.todo \cup sweep.done : row[d].status = "completed"
  /\ \A d \in sweep.done : Stopped(d)
  /\ task[Cleanup] \in {"idle", "active", "sweeping"}

PipelineInv ==
  /\ LDTypeOK
  /\ aborting = {} /\ crashes = 0
  /\ \A d \in Deployments : StageFits(d)
  /\ SweepFits

\* What runs and is not active will be found inactive: by a sweep that is
\* queued, or that has not looked yet, or the one of a finalize that goes on.
WillBeSwept(d) ==
  \/ Cleanup \in queue
  \/ \E e \in Deployments : task[<<"finalize", e>>] \in {"aliased", "read", "written"}
  \/ task[Cleanup] = "active" /\ d \notin sweep.active
  \/ task[Cleanup] = "sweeping" /\ d \in sweep.todo
SupersededIsSwept ==
  \A d \in Deployments :
    (row[d].conclusion = "succeeded" /\ ~Stopped(d) /\ d \notin Active) => WillBeSwept(d)
=============================================================================
