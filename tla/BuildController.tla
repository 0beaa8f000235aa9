---------------------------- MODULE BuildController ----------------------------
(***************************************************************************)
(* One build in services/build_controller: the operation row of the        *)
(* controller's SQLite store, the task that executes the commands it       *)
(* claims from the control plane, the task that reconciles, the HTTP       *)
(* handler that takes the worker's result, and the worker in its           *)
(* Kubernetes Job.  Everything the controller keeps is keyed by the build, *)
(* so one build shows what can happen to each.                             *)
(*                                                                         *)
(* The three run in one event loop: what stands between two awaits is one  *)
(* step here, and every call to another service is a step that may be      *)
(* refused or be executed with its answer lost.                            *)
(***************************************************************************)
EXTENDS Naturals, FiniteSets

CONSTANTS
  Workload,     \* "web" (an OCI image) or "static" (an archive)
  Cancels,      \* whether the deployment may be canceled
  MaxAttempts,  \* OutboxEvents::Finalize::MAX_ATTEMPTS (5)
  Tries,        \* PUTs of one payload (5)
  Pods,         \* pods of one Job: its backoffLimit and one
  CredIds,      \* registry credentials, more than can be in use at once
  Faults,       \* what may go wrong: "refused", "unanswered", "crash", "pod", "job", "silent"
  MaxFaults     \* bound: how often

BuildAssumption ==
  /\ Workload \in {"web", "static"} /\ Cancels \in BOOLEAN
  /\ MaxAttempts \in Nat \ {0} /\ Tries \in Nat \ {0} /\ Pods \in Nat \ {0}
  /\ CredIds \subseteq Nat \ {0}
  /\ Faults \subseteq {"refused", "unanswered", "crash", "pod", "job", "silent"}
  /\ MaxFaults \in Nat

VARIABLES
  cp,       \* the control plane: the build, its cancellation, the two outbox commands
  op,       \* the row of the build in the store
  archive,  \* the result whose archive is in the result directory
  live,     \* registry credentials that are registered and not revoked
  log,      \* what build.log holds in the artifact gateway, which never replaces it
  stored,   \* the other evidence it holds
  job,      \* the Kubernetes Job
  secret,   \* the credential in its Secret, 0: no Secret
  pods,     \* pods started so far
  inflight, \* the result on its way to the controller
  ct,       \* the command task
  rt,       \* the reconciler
  faults    \* how often something went wrong, and whether it was a call or the process

vars == <<cp, op, archive, live, log, stored, job, secret, pods, inflight, ct, rt, faults>>
cluster == <<job, secret, pods, inflight>>

\* A result, told apart by the pod that sent it; also what a log consists of.
Content(p, s) == [pod |-> p, status |-> s]
Nothing == Content(0, "none")
Stamped == Content(0, "stamped")   \* a line with the current time: new each time
PodLogs == Content(0, "pods")      \* what the cluster still has of the pods' output

NoOp == [status |-> "none", cred |-> 0, seen |-> FALSE, result |-> Nothing,
         done |-> {}, scan |-> "none"]
NoJob == [state |-> "none", pod |-> 0, left |-> 0, phase |-> "start", cred |-> 0,
          tries |-> 0, payload |-> Nothing]
CtIdle == [pc |-> "idle", cmd |-> "start", seen |-> "none", cred |-> 0, outcome |-> "none"]
RtIdle == [pc |-> "idle", status |-> "none", cred |-> 0, scanCred |-> 0, result |-> Nothing,
           done |-> {}, scan |-> "none", log |-> Nothing]

Init ==
  /\ cp = [build |-> "running", cancel |-> FALSE, artifact |-> Nothing, scan |-> "none",
           start |-> [status |-> "pending", attempts |-> 0],
           stop |-> [status |-> "none", attempts |-> 0]]
  /\ op = NoOp /\ archive = Nothing /\ live = {} /\ log = Nothing /\ stored = {}
  /\ job = NoJob /\ secret = 0 /\ pods = 0 /\ inflight = Nothing
  /\ ct = CtIdle /\ rt = RtIdle
  /\ faults = [count |-> 0, calls |-> FALSE]

---------------------------------------------------------------------------
(* Calls to other services                                                 *)

Fault(f) ==
  /\ f \in Faults /\ faults.count < MaxFaults
  /\ faults' = [count |-> faults.count + 1, calls |-> faults.calls \/ f \notin {"pod", "silent"}]

\* SignedClient.request: it succeeds, or it fails before or after its effect.
Call(effect, none, next, failed) ==
  \/ effect /\ next /\ UNCHANGED faults
  \/ Fault("refused") /\ none /\ failed
  \/ Fault("unanswered") /\ effect /\ failed

InUse == live \cup {op.cred, job.cred, secret, ct.cred, rt.cred, rt.scanCred}
NewCreds == {c \in CredIds \ InUse : \A d \in CredIds \ InUse : c <= d}

\* BuildJobs.delete: the Job with its pods, then the Secret.
Remove(next, failed) ==
  \/ Call(job' = NoJob /\ secret' = 0, UNCHANGED <<job, secret>>, next, failed)
  \/ Fault("refused") /\ job' = NoJob /\ UNCHANGED secret /\ failed

RevokeCredential(c, next, failed) == Call(live' = live \ {c}, UNCHANGED live, next, failed)

---------------------------------------------------------------------------
(* The control plane, as far as the controller sees it                     *)

RequestCancel ==
  /\ Cancels /\ cp.build = "running" /\ ~cp.cancel
  /\ cp' = [cp EXCEPT !.cancel = TRUE, !.stop.status = "pending"]
  /\ UNCHANGED <<op, archive, live, log, stored, cluster, ct, rt, faults>>

\* BuildEvents::Consume: an event counts while the deployment has the version
\* the build was requested for.
Consumed(status, artifact, scan) ==
  IF cp.build = "running" /\ ~cp.cancel
  THEN [cp EXCEPT !.build = status, !.artifact = artifact, !.scan = scan]
  ELSE cp

\* OutboxEvents::Finalize; a settled command keeps its outcome.
Finalized(row, outcome) ==
  IF row.status # "delivering" THEN row
  ELSE [row EXCEPT !.status =
          CASE outcome = "published" -> "published"
            [] outcome = "retry" /\ row.attempts < MaxAttempts -> "pending"
            [] OTHER -> "dead"]

---------------------------------------------------------------------------
(* The command task                                                        *)

Finalize(o) == [ct EXCEPT !.pc = "finalize", !.outcome = o]

\* _dispatch up to its first await: OperationStore.register, and whether the
\* Job has to be looked at.
RegisterOperation ==
  /\ op' = IF op.status = "none" THEN [NoOp EXCEPT !.status = "preparing"] ELSE op
  /\ ct' = [ct EXCEPT !.cmd = "start", !.seen = op.status,
                      !.pc = IF op.status \in {"running", "result_pending", "completed", "failed"}
                             THEN "check" ELSE "credentials"]

\* Mutant: the reconciler is expected to cancel.
CancelLeaves ==
  /\ op' = IF op.status = "none" THEN op ELSE [op EXCEPT !.status = "canceled"]
  /\ ct' = [ct EXCEPT !.cmd = "stop", !.pc = "finalize", !.outcome = "published"]

\* _cancel up to its first await.
Cancel ==
  LET c == [ct EXCEPT !.cmd = "stop"] IN
  CASE op.status = "none" ->
         ct' = [c EXCEPT !.pc = "finalize", !.outcome = "retry"] /\ UNCHANGED op
    [] op.status = "canceled" ->
         ct' = [c EXCEPT !.pc = "finalize", !.outcome = "published"] /\ UNCHANGED op
    [] OTHER ->
         /\ op' = [op EXCEPT !.status = "canceling"]
         /\ ct' = [c EXCEPT !.pc = "remove", !.cred = op.cred]

\* run_command_once up to the command's first await.  A command is claimed
\* when it is due, or again when the lease of its last claim has expired.
Claim(cmd) ==
  /\ ct.pc = "idle"
  /\ cp[cmd].status \in {"pending", "delivering"}
  /\ cp' = [cp EXCEPT ![cmd] = [status |-> "delivering", attempts |-> @.attempts + 1]]
  /\ \/ UNCHANGED faults /\ IF cmd = "start" THEN RegisterOperation ELSE Cancel
     \/ Fault("unanswered") /\ UNCHANGED <<op, ct>>
  /\ UNCHANGED <<archive, live, log, stored, cluster, rt>>

CheckJob ==
  /\ ct.pc = "check"
  /\ \/ /\ ct' = IF ct.seen # "running" \/ job.state # "none"
                 THEN Finalize("published") ELSE [ct EXCEPT !.pc = "credentials"]
        /\ UNCHANGED faults
     \/ Fault("refused") /\ ct' = Finalize("retry")
  /\ UNCHANGED <<cp, op, archive, live, log, stored, cluster, rt>>

\* Builds::CloneCredentials answers while the build runs and is not canceled;
\* credentials that expire too soon count as a dependency that failed.
CloneCredentials ==
  /\ ct.pc = "credentials"
  /\ \/ /\ ct' = IF cp.build = "running" /\ ~cp.cancel
                 THEN [ct EXCEPT !.pc = "registry"] ELSE Finalize("retry")
        /\ UNCHANGED faults
     \/ Fault("refused") /\ ct' = Finalize("retry")
  /\ UNCHANGED <<cp, op, archive, live, log, stored, cluster, rt>>

RegisterCredential ==
  /\ ct.pc = "registry"
  /\ \E c \in NewCreds :
        Call(live' = live \cup {c}, UNCHANGED live,
             ct' = [ct EXCEPT !.pc = "job", !.cred = c], ct' = Finalize("retry"))
  /\ UNCHANGED <<cp, op, archive, log, stored, cluster, rt>>

Undo(o) == [ct EXCEPT !.pc = "undo", !.outcome = o]

\* OperationStore.set_running.
SetRunning ==
  IF op.status \in {"preparing", "running"}
  THEN /\ op' = [op EXCEPT !.status = "running", !.cred = ct.cred, !.seen = FALSE]
       /\ ct' = Finalize("published")
  ELSE UNCHANGED op /\ ct' = Undo("rejected")

NewJob == [NoJob EXCEPT !.state = "active", !.pod = pods + 1, !.left = Pods - 1]

\* BuildJobs.dispatch, its three calls: a Job that exists is taken as it is.
FindJob ==
  /\ ct.pc = "job"
  /\ \/ job.state # "none" /\ SetRunning /\ UNCHANGED faults
     \/ job.state = "none" /\ ct' = [ct EXCEPT !.pc = "secret"] /\ UNCHANGED <<op, faults>>
     \/ Fault("refused") /\ ct' = Undo("retry") /\ UNCHANGED op
  /\ UNCHANGED <<cp, archive, live, log, stored, cluster, rt>>

CreateSecret ==
  /\ ct.pc = "secret"
  /\ \/ secret' = ct.cred /\ ct' = [ct EXCEPT !.pc = "create"] /\ UNCHANGED faults
     \/ Fault("refused") /\ secret' \in {secret, 0} /\ ct' = Undo("retry")
     \/ Fault("unanswered") /\ secret' = ct.cred /\ ct' = Undo("retry")
  /\ UNCHANGED <<cp, op, archive, live, log, stored, job, pods, inflight, rt>>

CreateJob ==
  /\ ct.pc = "create"
  /\ \/ /\ job' = NewJob /\ pods' = pods + 1
        /\ \/ SetRunning /\ UNCHANGED faults
           \/ Fault("unanswered") /\ ct' = Undo("retry") /\ UNCHANGED op
        /\ UNCHANGED secret
     \/ /\ Fault("refused")
        /\ secret' = 0 /\ ct' = Undo("retry") /\ UNCHANGED <<op, job, pods>>
  /\ UNCHANGED <<cp, archive, live, log, stored, inflight, rt>>

\* The credential of a dispatch that failed is revoked before the command is.
UndoDispatch ==
  /\ ct.pc = "undo"
  /\ RevokeCredential(ct.cred, ct' = Finalize(ct.outcome), ct' = Finalize("retry"))
  /\ UNCHANGED <<cp, op, archive, log, stored, cluster, rt>>

\* What follows the two calls of _cancel is complete_cancellation without the
\* evidence its signature asks for: an internal failure, and the command is
\* to be retried.
CancelRemoves ==
  /\ ct.pc = "remove"
  /\ Remove(ct' = IF ct.cred # 0 THEN [ct EXCEPT !.pc = "revoke"] ELSE Finalize("retry"),
            ct' = Finalize("retry"))
  /\ UNCHANGED <<cp, op, archive, live, log, stored, pods, inflight, rt>>

CancelRevokes ==
  /\ ct.pc = "revoke"
  /\ RevokeCredential(ct.cred, ct' = Finalize("retry"), ct' = Finalize("retry"))
  /\ UNCHANGED <<cp, op, archive, log, stored, cluster, rt>>

\* An outcome that could not be delivered is followed by a retry, once.
FinalizeCommand ==
  /\ ct.pc = "finalize"
  /\ Call(cp' = [cp EXCEPT ![ct.cmd] = Finalized(@, ct.outcome)], UNCHANGED cp, ct' = CtIdle,
          ct' = IF ct.outcome = "published" THEN Finalize("retry") ELSE CtIdle)
  /\ UNCHANGED <<op, archive, live, log, stored, cluster, rt>>

---------------------------------------------------------------------------
(* The worker and its Job                                                  *)

Active == job.state = "active"

\* A pod that does not exit with 0 is replaced until the Job is failed.
PodFailed ==
  IF job.left > 0
  THEN /\ job' = [NoJob EXCEPT !.state = "active", !.pod = pods + 1, !.left = job.left - 1]
       /\ pods' = pods + 1
  ELSE job' = [NoJob EXCEPT !.state = "failed"] /\ UNCHANGED pods

\* Worker.run, phase by phase: each ends, or fails and becomes a failed result.
Phases == [start |-> "clone", clone |-> "detect", detect |-> "buildkit", buildkit |-> "build"]
Submit(status) == [job EXCEPT !.phase = "deliver", !.tries = 0,
                              !.payload = Content(job.pod, status)]

\* The credentials are read from the mounted Secret: without it the pod waits.
PodStarts ==
  /\ Active /\ job.phase = "start" /\ secret # 0
  /\ \/ job' = [job EXCEPT !.phase = Phases[job.phase], !.cred = secret]
     \/ job' = Submit("failed")    \* _validate_expiry
  /\ UNCHANGED <<cp, op, archive, live, log, stored, secret, pods, inflight, ct, rt, faults>>

WorkerPhase ==
  /\ Active /\ job.phase \in {"clone", "detect", "buildkit"}
  /\ \/ job' = [job EXCEPT !.phase = Phases[job.phase]]
     \/ job' = Submit("failed")
  /\ UNCHANGED <<cp, op, archive, live, log, stored, secret, pods, inflight, ct, rt, faults>>

\* An image is pushed with the credential the pod started with.
BuildArtifact ==
  /\ Active /\ job.phase = "build"
  /\ \/ (Workload = "web" => job.cred \in live) /\ job' = Submit("completed")
     \/ job' = Submit("failed")
  /\ UNCHANGED <<cp, op, archive, live, log, stored, secret, pods, inflight, ct, rt, faults>>

\* _callback: the payload is on its way; one of it at a time.
SendResult ==
  /\ Active /\ job.phase = "deliver" /\ inflight = Nothing
  /\ inflight' = job.payload /\ job' = [job EXCEPT !.phase = "waiting"]
  /\ UNCHANGED <<cp, op, archive, live, log, stored, secret, pods, ct, rt, faults>>

Waiting == Active /\ job.phase = "waiting" /\ job.payload = inflight

Delivered == job' = IF Waiting THEN [NoJob EXCEPT !.state = "complete"] ELSE job

\* A try failed: after the last one a completed result becomes a failed one
\* ("callback_failed"), and a failed one ends the pod.
TryFailed ==
  IF ~Waiting THEN UNCHANGED <<job, pods>>
  ELSE IF job.tries + 1 < Tries
  THEN job' = [job EXCEPT !.phase = "deliver", !.tries = @ + 1] /\ UNCHANGED pods
  ELSE IF job.payload.status = "completed" THEN job' = Submit("failed") /\ UNCHANGED pods
  ELSE PodFailed

Concluded == {"result_pending", "completed", "failed"}

\* OperationStore.save_result: the result is new, or the one it already has.
Accepts(r) == op.status = "running" \/ (op.status \in Concluded /\ op.result = r)

ArchiveOf(r) == IF Workload = "static" /\ r.status = "completed" THEN r ELSE archive

\* Mutant: the result of the last worker that answers is kept.
SavedLast(r) ==
  /\ op' = IF op.status \in Concluded \cup {"running"}
           THEN [op EXCEPT !.status = "result_pending", !.result = r]
           ELSE op
  /\ archive' = ArchiveOf(r)

\* Mutant: the archive is written before the result is compared.
SavedArchiveFirst(r) ==
  /\ op' = IF op.status = "running"
           THEN [op EXCEPT !.status = "result_pending", !.result = r]
           ELSE op
  /\ archive' = ArchiveOf(r)

\* The archive is written before the row is updated, which may be refused then.
Saved(r) ==
  /\ op' = IF op.status = "running"
           THEN [op EXCEPT !.status = "result_pending", !.result = r]
           ELSE op
  /\ archive' = IF op.status \in Concluded \cup {"none"} THEN archive ELSE ArchiveOf(r)

\* Application._result and accept_result: no await, so one step.
AcceptResult ==
  /\ inflight # Nothing /\ inflight' = Nothing
  /\ \/ /\ Saved(inflight) /\ UNCHANGED faults
        /\ IF Accepts(inflight) THEN Delivered /\ UNCHANGED pods ELSE TryFailed
     \/ Fault("refused") /\ TryFailed /\ UNCHANGED <<op, archive>>
     \/ Fault("unanswered") /\ Saved(inflight) /\ TryFailed
  /\ UNCHANGED <<cp, live, log, stored, secret, ct, rt>>

\* activeDeadlineSeconds, and ttlSecondsAfterFinished.
DeadlineExceeded ==
  /\ Active /\ job' = [NoJob EXCEPT !.state = "failed"]
  /\ UNCHANGED <<cp, op, archive, live, log, stored, secret, pods, inflight, ct, rt, faults>>

Expire ==
  /\ job.state \in {"complete", "failed"} /\ job' = NoJob
  /\ UNCHANGED <<cp, op, archive, live, log, stored, secret, pods, inflight, ct, rt, faults>>

\* A pod is lost, the Job is deleted, or the pod exits with 0 and sent nothing.
SandboxLost ==
  /\ job.state # "none"
  /\ \/ Active /\ Fault("pod") /\ PodFailed
     \/ Fault("job") /\ job' = NoJob /\ UNCHANGED pods
     \/ Active /\ Fault("silent") /\ job' = [NoJob EXCEPT !.state = "complete"] /\ UNCHANGED pods
  /\ UNCHANGED <<cp, op, archive, live, log, stored, secret, inflight, ct, rt>>

---------------------------------------------------------------------------
(* The reconciler                                                          *)

\* reconcile_once: the rows are read at once and then taken one after the
\* other, so a row may have changed when its turn comes.
Snapshot ==
  /\ rt.pc = "idle" /\ op.status \in {"running", "result_pending", "canceling"}
  /\ rt' = [RtIdle EXCEPT !.pc = "pending", !.status = op.status, !.cred = op.cred,
                          !.result = op.result, !.done = op.done, !.scan = op.scan]
  /\ UNCHANGED <<cp, op, archive, live, log, stored, cluster, ct, faults>>

Defer == rt' = RtIdle
Later == Defer /\ UNCHANGED <<op, archive>>

\* Mutant: the policy on critical vulnerabilities is not applied.
RejectedNever(r) == r.result.status # "completed"

\* WorkerResult.status, and ScanResult.passed.
Rejected(r) == r.result.status # "completed" \/ r.scan = "rejected"

\* _process_result: the next call that is not checkpointed yet.  Without the
\* archive of a static result it gives up.
NextCall(r) ==
  LET static == Workload = "static"
      uploads == IF static /\ "manifest" \notin r.done THEN "manifest"
                 ELSE IF "evidence" \notin r.done THEN "sbom"
                 ELSE IF r.scan = "passed" /\ "provenance" \notin r.done THEN "provenance"
                 ELSE "send"
      artifact == IF static /\ archive = Nothing THEN "idle"
                  ELSE IF r.scan # "none" THEN uploads
                  ELSE IF static THEN "scan" ELSE "scan_credential"
  IN IF "log" \notin r.done THEN "log"
     ELSE IF r.result.status # "completed" THEN "send"
     ELSE artifact

Begin ==
  /\ rt.pc = "pending"
  /\ rt' = LET pc == CASE rt.status = "running" -> "observe"
                       [] rt.status = "canceling" -> "remove"
                       [] OTHER -> NextCall(rt)
           IN IF pc = "idle" THEN RtIdle ELSE [rt EXCEPT !.pc = pc]
  /\ UNCHANGED <<cp, op, archive, live, log, stored, cluster, ct, faults>>

\* OperationStore.merge_result, and on with the next call.
Checkpoint(r) ==
  IF op.status = "result_pending"
  THEN /\ op' = [op EXCEPT !.done = r.done, !.scan = r.scan]
       /\ rt' = IF NextCall(r) = "idle" THEN RtIdle ELSE [r EXCEPT !.pc = NextCall(r)]
  ELSE UNCHANGED op /\ Defer

\* _fail_without_result, as far as its first call: the logs there are, or one
\* line with the current time.
Lost(c, cred) == [rt EXCEPT !.pc = "log", !.status = "running", !.log = c, !.cred = cred]

\* _observe_job, when the Job is gone: the grace counts from the snapshot.
ObserveLost ==
  /\ rt.pc = "observe" /\ job.state = "none"
  /\ rt' = Lost(Stamped, rt.cred)
  /\ UNCHANGED <<cp, op, archive, live, log, stored, cluster, ct, faults>>

\* Mutant: a Job that failed is waited for.
ObserveFailedNever == FALSE /\ UNCHANGED vars

\* When it has failed, its logs are asked for.
ObserveFailed ==
  /\ rt.pc = "observe" /\ job.state = "failed"
  /\ rt' = [rt EXCEPT !.pc = "logs"]
  /\ UNCHANGED <<cp, op, archive, live, log, stored, cluster, ct, faults>>

ReadLogs ==
  /\ rt.pc = "logs"
  /\ \E c \in IF job.state = "none" THEN {Stamped} ELSE {PodLogs, Stamped} :
        rt' = Lost(c, rt.cred)
  /\ UNCHANGED <<cp, op, archive, live, log, stored, cluster, ct, faults>>

\* When it is complete, the completion is noted, and the result is missing if
\* it was noted before and the grace has passed since.
ObserveComplete ==
  /\ rt.pc = "observe" /\ job.state = "complete"
  /\ op' = [op EXCEPT !.seen = @ \/ op.status = "running"]
  /\ rt' = IF op.status = "running" /\ op.seen THEN Lost(Stamped, op.cred) ELSE RtIdle
  /\ UNCHANGED <<cp, archive, live, log, stored, cluster, ct, faults>>

\* It is active, a grace has not passed, or the cluster does not answer.
ObserveNothing ==
  /\ rt.pc \in {"observe", "logs"} /\ Defer
  /\ UNCHANGED <<cp, op, archive, live, log, stored, cluster, ct, faults>>

LogContent == IF rt.status = "running" THEN rt.log ELSE rt.result

\* Mutant: a log replaces the one that is there.
FitsAlways(c) == TRUE

\* Artifacts.put_evidence: an object is never replaced by another one.
Fits(c) == log = Nothing \/ (log = c /\ c # Stamped)

UploadLog ==
  /\ rt.pc = "log"
  /\ \/ /\ Fits(LogContent)
        /\ Call(log' = LogContent, UNCHANGED log,
                IF rt.status = "running"
                THEN rt' = [rt EXCEPT !.pc = "send"] /\ UNCHANGED op
                ELSE Checkpoint([rt EXCEPT !.done = @ \cup {"log"}]),
                Defer /\ UNCHANGED op)
     \/ ~Fits(LogContent) /\ Defer /\ UNCHANGED <<log, op, faults>>
  /\ UNCHANGED <<cp, archive, live, stored, cluster, ct>>

\* An image is scanned with a credential of its own, revoked whatever happens.
ScanCredential ==
  /\ rt.pc = "scan_credential"
  /\ \E c \in NewCreds :
        Call(live' = live \cup {c}, UNCHANGED live,
             rt' = [rt EXCEPT !.pc = "scan", !.scanCred = c], Defer)
  /\ UNCHANGED <<cp, op, archive, log, stored, cluster, ct>>

Scan ==
  /\ rt.pc = "scan"
  /\ \/ /\ UNCHANGED faults
        /\ \E s \in {"passed", "rejected"} :
             IF Workload = "static"
             THEN Checkpoint([rt EXCEPT !.scan = s])
             ELSE rt' = [rt EXCEPT !.pc = "unscan", !.scan = s] /\ UNCHANGED op
     \/ /\ Fault("refused") /\ UNCHANGED op
        /\ IF Workload = "static" THEN Defer ELSE rt' = [rt EXCEPT !.pc = "unscan"]
  /\ UNCHANGED <<cp, archive, live, log, stored, cluster, ct>>

ScanDone ==
  /\ rt.pc = "unscan"
  /\ RevokeCredential(rt.scanCred,
            IF rt.scan = "none" THEN Defer /\ UNCHANGED op
            ELSE Checkpoint([rt EXCEPT !.scanCred = 0]),
            Defer /\ UNCHANGED op)
  /\ UNCHANGED <<cp, archive, log, stored, cluster, ct>>

\* The other uploads, whose content is the same each time.
Upload(name, next) ==
  /\ Call(stored' = stored \cup {name}, UNCHANGED stored, next, Defer /\ UNCHANGED op)
  /\ UNCHANGED <<cp, archive, live, log, cluster, ct>>

PublishStatic ==
  /\ rt.pc = "manifest"
  /\ Upload("manifest", Checkpoint([rt EXCEPT !.done = @ \cup {"manifest"}]))

\* Mutant: the report is put under the name of its checkpoint.
UploadScanMisnamed ==
  \/ /\ rt.pc = "sbom"
     /\ Upload("sbom", rt' = [rt EXCEPT !.pc = "report"] /\ UNCHANGED op)
  \/ /\ rt.pc = "report"
     /\ Upload("evidence", Checkpoint([rt EXCEPT !.done = @ \cup {"evidence"}]))

UploadScanEvidence ==
  \/ /\ rt.pc = "sbom"
     /\ Upload("sbom", rt' = [rt EXCEPT !.pc = "report"] /\ UNCHANGED op)
  \/ /\ rt.pc = "report"
     /\ Upload("scan", Checkpoint([rt EXCEPT !.done = @ \cup {"evidence"}]))

UploadProvenance ==
  /\ rt.pc = "provenance"
  /\ Upload("provenance", Checkpoint([rt EXCEPT !.done = @ \cup {"provenance"}]))

Verdict(r) == IF r.status = "running" \/ Rejected(r) THEN "failed" ELSE "completed"

\* ControlPlaneClient.send_build_event: a new event id, the same idempotency key.
SendBuildEvent ==
  /\ rt.pc = "send"
  /\ Call(cp' = Consumed(IF Verdict(rt) = "failed" THEN "failed" ELSE "succeeded", rt.result, rt.scan),
          UNCHANGED cp, rt' = [rt EXCEPT !.pc = "remove"], Defer)
  /\ UNCHANGED <<op, archive, live, log, stored, cluster, ct>>

\* OperationStore.mark, whatever the status is by now; the archive goes.
Mark ==
  /\ op' = IF rt.status = "canceling" THEN op
           ELSE [op EXCEPT !.status = Verdict(rt), !.done = {}, !.scan = "none",
                           !.result = IF rt.status = "running" THEN rt.log ELSE rt.result]
  /\ archive' = IF rt.status = "canceling" THEN archive ELSE Nothing
  /\ rt' = RtIdle

\* Mutant: the credential outlives the operation.
CleanupRemovesOnly ==
  /\ rt.pc = "remove"
  /\ Remove(Mark, Later)
  /\ UNCHANGED <<cp, live, log, stored, pods, inflight, ct>>

\* _cleanup, with the credential of the snapshot, and the end of the operation.
CleanupRemoves ==
  /\ rt.pc = "remove"
  /\ Remove(IF rt.cred # 0 THEN rt' = [rt EXCEPT !.pc = "revoke"] /\ UNCHANGED <<op, archive>>
            ELSE Mark, Later)
  /\ UNCHANGED <<cp, live, log, stored, pods, inflight, ct>>

CleanupRevokes ==
  /\ rt.pc = "revoke"
  /\ RevokeCredential(rt.cred, Mark, Later)
  /\ UNCHANGED <<cp, log, stored, cluster, ct>>

---------------------------------------------------------------------------

\* The process dies between two awaits; the store and the directory stay.
Crash ==
  /\ <<ct, rt>> # <<CtIdle, RtIdle>> /\ Fault("crash")
  /\ ct' = CtIdle /\ rt' = RtIdle
  /\ UNCHANGED <<cp, op, archive, live, log, stored, cluster>>

Commands ==
  \/ \E cmd \in {"start", "stop"} : Claim(cmd)
  \/ CheckJob \/ CloneCredentials \/ RegisterCredential \/ FindJob \/ CreateSecret
  \/ CreateJob \/ UndoDispatch \/ CancelRemoves \/ CancelRevokes \/ FinalizeCommand

Work == PodStarts \/ WorkerPhase \/ BuildArtifact \/ SendResult

Observe == ObserveLost \/ ObserveFailed \/ ReadLogs \/ ObserveComplete

Process ==
  \/ UploadLog \/ ScanCredential \/ Scan \/ ScanDone \/ PublishStatic \/ UploadScanEvidence
  \/ UploadProvenance \/ SendBuildEvent \/ CleanupRemoves \/ CleanupRevokes

Next ==
  \/ RequestCancel \/ Commands \/ Work \/ AcceptResult
  \/ DeadlineExceeded \/ Expire \/ SandboxLost
  \/ Snapshot \/ Begin \/ Observe \/ ObserveNothing \/ Process \/ Crash

Spec == Init /\ [][Next]_vars

---------------------------------------------------------------------------
(* Properties                                                              *)

Contents == [pod : 0..pods, status : {"none", "stamped", "pods", "completed", "failed"}]
Creds == CredIds \cup {0}
Scans == {"none", "passed", "rejected"}
Checkpoints == {"log", "manifest", "evidence", "provenance"}
Operations == {"none", "preparing", "running", "result_pending", "completed", "failed",
               "canceling", "canceled"}
Command == [status : {"none", "pending", "delivering", "published", "dead"}, attempts : Nat]

Build == [build : {"running", "succeeded", "failed"}, cancel : BOOLEAN,
          artifact : Contents, scan : Scans, start : Command, stop : Command]
Operation == [status : Operations, cred : Creds, seen : BOOLEAN, result : Contents,
              done : SUBSET Checkpoints, scan : Scans]
Job == [state : {"none", "active", "complete", "failed"}, pod : 0..pods, left : Nat,
        phase : {"start", "clone", "detect", "buildkit", "build", "deliver", "waiting"},
        cred : Creds, tries : Nat, payload : Contents]
CommandTask == [pc : {"idle", "check", "credentials", "registry", "job", "secret", "create",
                      "undo", "remove", "revoke", "finalize"},
                cmd : {"start", "stop"}, seen : Operations, cred : Creds,
                outcome : {"none", "published", "retry", "rejected"}]
Reconciler == [pc : {"idle", "pending", "observe", "logs", "log", "scan_credential", "scan",
                     "unscan", "manifest", "sbom", "report", "provenance", "send", "remove",
                     "revoke"},
               status : {"none", "running", "result_pending", "canceling"}, cred : Creds,
               scanCred : Creds, result : Contents, done : SUBSET Checkpoints,
               scan : Scans, log : Contents]

Mishaps == [count : 0..MaxFaults, calls : BOOLEAN]

\* The variables have their types.
BuildTypeOK ==
  /\ cp \in Build /\ op \in Operation /\ job \in Job /\ ct \in CommandTask /\ rt \in Reconciler
  /\ archive \in Contents /\ log \in Contents /\ inflight \in Contents
  /\ stored \subseteq {"manifest", "sbom", "scan", "provenance"}
  /\ live \subseteq CredIds /\ secret \in Creds
  /\ pods \in Nat /\ faults \in Mishaps

\* A build the control plane takes for succeeded passed its scan, and its log,
\* of the very pod that made the artifact, its SBOM, its scan report, its
\* provenance and, if it is static, its files are in the gateway, whatever was
\* refused, repeated or cut short on the way.
PublishedIsEvidenced ==
  cp.build = "succeeded" =>
    /\ cp.artifact.status = "completed" /\ cp.scan = "passed" /\ log = cp.artifact
    /\ {"sbom", "scan", "provenance"} \subseteq stored
    /\ Workload = "static" => "manifest" \in stored

\* The controller never settles an operation one way and the control plane the
\* build the other way, although an operation that is being failed for want of
\* a result may get its result in the middle, and both marks and events are
\* sent whatever the other side has meanwhile: the log that was uploaded for
\* the one outcome bars the way to the other.
OutcomeAgrees ==
  ~cp.cancel =>
    /\ op.status = "completed" => cp.build = "succeeded"
    /\ op.status = "failed" => cp.build = "failed"

\* The result of one pod is not replaced by that of another one, of a pod that
\* was started again because its answer was lost, say; only giving up replaces it.
ResultStands ==
  op.result.status \in {"completed", "failed"} =>
    op'.result = op.result \/ op'.status = "failed"

\* The archive that will be scanned and published is the one of the result
\* that was accepted.
ArchiveIsResults ==
  op.status = "result_pending" /\ Workload = "static" /\ op.result.status = "completed"
    => archive = op.result

\* What was accepted is what is scanned, published and kept.
ResultKept == [](BuildTypeOK /\ ArchiveIsResults) /\ [][ResultStands]_vars

---------------------------------------------------------------------------
(* The inductive invariant                                                 *)

Answers == {"completed", "failed"}
Given == {Stamped, PodLogs}    \* the logs of giving up

\* What was checkpointed is in the gateway.
Evidenced(r) ==
  /\ "log" \in r.done => log = r.result
  /\ "manifest" \in r.done => "manifest" \in stored
  /\ "evidence" \in r.done => {"sbom", "scan"} \subseteq stored
  /\ "provenance" \in r.done => "provenance" \in stored

\* Workers answer completed or failed, and only a canceled build is stopped.
InputsKnown ==
  /\ inflight # Nothing => inflight.status \in Answers
  /\ job.phase \in {"deliver", "waiting"} => job.payload.status \in Answers
  /\ cp.stop.status # "none" => cp.cancel

RowKnown ==
  /\ op.status # "canceled" /\ (op.status = "canceling" => cp.cancel)
  /\ op.status \in {"none", "preparing", "running"} =>
       op.result = Nothing /\ op.done = {} /\ op.scan = "none"
  /\ op.status = "result_pending" \/ op.done # {} => op.result.status \in Answers
  /\ Evidenced(op)

\* What the reconciler took from the row is still so where it matters.
SnapshotKnown ==
  /\ rt.pc = "idle" <=> rt.status = "none"
  /\ rt.status = "running" => op.status \in {"running", "result_pending", "canceling"}
  /\ rt.status = "canceling" => op.status = "canceling"
  /\ rt.status = "result_pending" =>
       /\ op.status \in {"result_pending", "canceling"}
       /\ rt.result = op.result /\ rt.result.status \in Answers
       /\ Evidenced(rt)
       /\ op.status = "result_pending" /\ rt.pc # "unscan" => rt.scan = op.scan

\* How far it has come says what is done.
PlaceKnown ==
  /\ rt.pc \in {"observe", "logs"} => rt.status = "running"
  /\ rt.pc \in {"log", "send"} => rt.status # "canceling"
  /\ rt.pc \in {"scan_credential", "scan", "unscan", "manifest", "sbom", "report", "provenance"}
       => rt.status = "result_pending"
  /\ rt.pc \in {"scan_credential", "scan"} => rt.scan = "none"
  /\ rt.pc = "unscan" /\ op.status = "result_pending" => op.scan = "none"
  /\ rt.pc = "report" => "sbom" \in stored
  /\ rt.status = "running" => /\ rt.pc \in {"log", "send", "remove", "revoke"} => rt.log \in Given
                              /\ rt.pc \in {"send", "remove", "revoke"} => log = rt.log
  /\ rt.status = "result_pending" /\ rt.pc \in {"send", "remove", "revoke"} =>
       /\ "log" \in rt.done
       /\ rt.result.status = "completed" =>
            /\ rt.scan # "none" /\ "evidence" \in rt.done
            /\ Workload = "static" => "manifest" \in rt.done
            /\ rt.scan = "passed" => "provenance" \in rt.done

\* What the control plane was told binds what the row can become.
OutcomeKnown ==
  ~cp.cancel =>
    /\ cp.build = "succeeded" =>
         /\ op.status \in {"result_pending", "completed"}
         /\ log = op.result /\ op.result.status = "completed"
         /\ op.status = "result_pending" => op.scan = "passed"
    /\ cp.build = "failed" =>
         \/ log \in Given
         \/ /\ op.status \in {"result_pending", "failed"} /\ log = op.result
            /\ op.status = "result_pending" => op.result.status = "failed" \/ op.scan = "rejected"
    /\ rt.pc \in {"remove", "revoke"} /\ rt.status # "canceling" =>
         cp.build = IF Verdict(rt) = "failed" THEN "failed" ELSE "succeeded"

BuildInv ==
  /\ BuildTypeOK /\ InputsKnown /\ RowKnown /\ SnapshotKnown /\ PlaceKnown
  /\ OutcomeKnown /\ PublishedIsEvidenced /\ OutcomeAgrees /\ ArchiveIsResults

---------------------------------------------------------------------------
(* As long as no call has failed and the process has not died              *)

CallsSucceed == ~faults.calls

\* The first dispatch is the only one, and comes before anything else is there.
DispatchKnown ==
  /\ ct.pc \notin {"check", "undo"}
  /\ ct.pc \in {"credentials", "registry", "job", "secret", "create"} =>
       /\ ct.cmd = "start" /\ cp.start.status = "delivering"
       /\ op.cred = 0 /\ op.status \in {"preparing", "canceling"}
  /\ ct.pc \in {"registry", "job", "secret", "create"} => op.status = "preparing"
  /\ ct.pc \in {"job", "secret", "create"} => ct.cred # 0
  /\ op.cred = 0 => job.state = "none" /\ secret = IF ct.pc = "create" THEN ct.cred ELSE 0
  /\ op.cred # 0 => \/ cp.start.status \in {"published", "dead"}
                    \/ /\ cp.start.status = "delivering" /\ ct.pc = "finalize"
                       /\ ct.cmd = "start" /\ ct.outcome = "published"

\* The credentials of the row and of its snapshot.
CredentialsKnown ==
  /\ op.status \in {"none", "preparing"} => op.cred = 0
  /\ op.status \in {"running", "result_pending", "completed", "failed"} => op.cred # 0
  /\ rt.status # "none" => rt.cred = op.cred
  /\ rt.status \in {"running", "result_pending"} => op.cred # 0

\* What is there belongs to the operation, to its dispatch or to its scan.
HeldKnown ==
  /\ rt.pc \in {"scan_credential", "unscan"} => Workload # "static"
  /\ \A c \in live : \/ c = op.cred
                     \/ ct.pc \in {"job", "secret", "create"} /\ c = ct.cred
                     \/ rt.pc \in {"scan", "unscan"} /\ Workload # "static" /\ c = rt.scanCred
  /\ rt.pc = "revoke" => job.state = "none" /\ secret = 0
  /\ op.status \in {"completed", "failed"} => job.state = "none" /\ secret = 0 /\ live = {}

SmoothInv == DispatchKnown /\ CredentialsKnown /\ HeldKnown

---------------------------------------------------------------------------

\* As long as no call has failed, an operation that is settled leaves no
\* sandbox, no Secret and no credential behind, whatever became of its pods.
SettledHoldsNothing ==
  CallsSucceed /\ op.status \in {"completed", "failed"} /\ ct.pc = "idle" /\ rt.pc = "idle"
    => job.state = "none" /\ secret = 0 /\ live = {}
================================================================================
