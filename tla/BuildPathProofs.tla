---------------------------- MODULE BuildPathProofs ----------------------------
(***************************************************************************)
(* Proofs about BuildController, for any number of faults of any kind, of  *)
(* pods, tries and attempts: a build that succeeded is evidenced, the row  *)
(* of the controller and the build of the control plane are settled the    *)
(* same way, and a result that was accepted stands.  And about             *)
(* RegistryAuth, for every lifetime and every set of credentials: the      *)
(* access of a credential ends.  And about ArtifactGateway, for every set  *)
(* of sites and requests: what is published is whole, and retention takes  *)
(* no more than it may.  And about BuildPlans, for every project and size  *)
(* of its log: what is told of it is what was built and fits.              *)
(*                                                                         *)
(* The log of a build is written once, and the event follows it.  So what  *)
(* the log holds decides which outcome can still be reported: BuildInv     *)
(* relates it to the row, to the snapshot the reconciler works on, and to  *)
(* what the control plane was told.                                        *)
(***************************************************************************)
EXTENDS BuildController, RegistryAuth, ArtifactGateway, BuildPlans, FiniteSetTheorems, TLAPS

-----------------------------------------------------------------------------
(***************************************************************************)
(* Data.                                                                   *)
(***************************************************************************)
LEMMA ContentsFacts ==
    ASSUME pods \in Nat
    PROVE  /\ {Nothing, Stamped, PodLogs} \subseteq Contents
           /\ Nothing.status = "none" /\ Stamped.status = "stamped" /\ PodLogs.status = "pods"
  BY DEF Contents, Nothing, Stamped, PodLogs, Content

\* More pods, more contents.
LEMMA ContentsGrow ==
    ASSUME pods \in Nat, pods' \in Nat, pods <= pods'
    PROVE  Contents \subseteq Contents'
  BY DEF Contents

LEMMA InitInv == BuildAssumption /\ Init => BuildInv
<1> SUFFICES ASSUME BuildAssumption, Init PROVE BuildInv
  OBVIOUS
<1>1. {Nothing, Stamped, PodLogs} \subseteq Contents /\ Nothing.status = "none"
  BY ContentsFacts DEF Init
<1>2. BuildTypeOK
  BY <1>1 DEF Init, BuildAssumption, BuildTypeOK, Build, Operation, Job, CommandTask, Reconciler, NoOp, NoJob,
         CtIdle, RtIdle, Creds, Scans, Checkpoints, Operations, Command, Mishaps
<1>3. InputsKnown
  BY DEF Init, InputsKnown, NoJob
<1>4. RowKnown /\ SnapshotKnown /\ PlaceKnown
  BY DEF Init, RowKnown, SnapshotKnown, PlaceKnown, Evidenced, NoOp, RtIdle
<1>5. OutcomeKnown /\ PublishedIsEvidenced /\ OutcomeAgrees /\ ArchiveIsResults
  BY DEF Init, OutcomeKnown, PublishedIsEvidenced, OutcomeAgrees, ArchiveIsResults, NoOp, RtIdle
<1> QED BY <1>2, <1>3, <1>4, <1>5 DEF BuildInv

-----------------------------------------------------------------------------
(***************************************************************************)
(* Steps.                                                                  *)
(***************************************************************************)
\* A step that starts no pod keeps the types of what it keeps.
LEMMA FaultFacts ==
    ASSUME BuildAssumption, BuildTypeOK, NEW f, Fault(f) \/ UNCHANGED faults
    PROVE  faults' \in Mishaps
<1>1. faults \in [count : 0..MaxFaults, calls : BOOLEAN] /\ MaxFaults \in Nat
  BY DEF BuildTypeOK, BuildAssumption, Mishaps
<1>2. CASE Fault(f)
  <2>1. /\ faults.count < MaxFaults
        /\ faults' = [count |-> faults.count + 1,
                      calls |-> faults.calls \/ f \notin {"pod", "silent"}]
    BY <1>2 DEF Fault
  <2>2. faults.count + 1 \in 0..MaxFaults
    BY <1>1, <2>1
  <2>3. (faults.calls \/ f \notin {"pod", "silent"}) \in BOOLEAN
    OBVIOUS
  <2> QED BY <2>1, <2>2, <2>3 DEF Mishaps
<1>3. CASE UNCHANGED faults
  BY <1>1, <1>3 DEF Mishaps
<1> QED BY <1>2, <1>3

LEMMA CallFacts ==
    ASSUME NEW effect \in BOOLEAN, NEW none \in BOOLEAN, NEW next \in BOOLEAN,
           NEW failed \in BOOLEAN, Call(effect, none, next, failed),
           BuildAssumption, BuildTypeOK
    PROVE  /\ effect \/ none
           /\ next \/ failed
           /\ next => effect \/ failed
           /\ ~failed => effect /\ next
           /\ faults' \in Mishaps
  BY FaultFacts DEF Call

\* What of the control plane the controller is told.
toldVars == <<cp.build, cp.cancel, cp.artifact, cp.scan>>

\* A step that concerns neither the row nor the reconciler, the gateway or the
\* outcome.
LEMMA ElsewhereInv ==
    ASSUME BuildInv, BuildTypeOK', InputsKnown', UNCHANGED toldVars,
           UNCHANGED <<op, archive, log, stored, rt>>
    PROVE  BuildInv'
<1>1. cp'.build = cp.build /\ cp'.cancel = cp.cancel /\ cp'.artifact = cp.artifact
      /\ cp'.scan = cp.scan
  BY DEF toldVars
<1>2. RowKnown'
  BY <1>1 DEF BuildInv, RowKnown, Evidenced
<1>3. SnapshotKnown'
  BY <1>1 DEF BuildInv, SnapshotKnown, Evidenced
<1>4. PlaceKnown'
  BY <1>1 DEF BuildInv, PlaceKnown
<1>5. OutcomeKnown'
  BY <1>1 DEF BuildInv, OutcomeKnown, Verdict, Rejected
<1>6. PublishedIsEvidenced' /\ OutcomeAgrees' /\ ArchiveIsResults'
  BY <1>1 DEF BuildInv, PublishedIsEvidenced, OutcomeAgrees, ArchiveIsResults
<1> QED BY <1>2, <1>3, <1>4, <1>5, <1>6 DEF BuildInv

\* What the command task becomes.
LEMMA CommandTaskFacts ==
    ASSUME BuildTypeOK
    PROVE  /\ \A o \in {"none", "published", "retry", "rejected"} :
                 /\ Finalize(o) \in CommandTask
                 /\ Undo(o) \in CommandTask
           /\ Finalize(ct.outcome) \in CommandTask
           /\ \A p \in {"credentials", "registry", "secret", "create", "revoke"} :
                 [ct EXCEPT !.pc = p] \in CommandTask
           /\ \A c \in CredIds : [ct EXCEPT !.pc = "job", !.cred = c] \in CommandTask
           /\ CtIdle \in CommandTask
  BY ZenonT(60) DEF BuildTypeOK, CommandTask, Finalize, Undo, CtIdle, Operations, Creds

LEMMA CommandsElsewhere ==
    ASSUME BuildAssumption, BuildInv,
           CheckJob \/ CloneCredentials \/ RegisterCredential \/ UndoDispatch
           \/ CancelRevokes
    PROVE  BuildInv'
<1>1. BuildTypeOK /\ InputsKnown
  BY DEF BuildInv
<1>2. UNCHANGED <<cp, op, archive, log, stored, job, secret, pods, inflight, rt>>
  BY DEF CheckJob, CloneCredentials, RegisterCredential, UndoDispatch, CancelRevokes, cluster,
         RevokeCredential
<1>3. faults' \in Mishaps
  BY <1>1, FaultFacts, CallFacts
  DEF CheckJob, CloneCredentials, RegisterCredential, UndoDispatch, CancelRevokes, RevokeCredential, Call
<1>4. live' \subseteq CredIds
  BY <1>1 DEF CheckJob, CloneCredentials, RegisterCredential, UndoDispatch, CancelRevokes,
              RevokeCredential, Call, NewCreds, BuildTypeOK
<1>5. ct' \in CommandTask
  <2>1. CASE CheckJob
    BY <1>1, <2>1, CommandTaskFacts DEF CheckJob
  <2>2. CASE CloneCredentials
    BY <1>1, <2>2, CommandTaskFacts DEF CloneCredentials
  <2>3. CASE RegisterCredential
    BY <1>1, <2>3, CommandTaskFacts DEF RegisterCredential, Call, NewCreds
  <2>4. CASE UndoDispatch
    BY <1>1, <2>4, CommandTaskFacts DEF UndoDispatch, RevokeCredential, Call
  <2>5. CASE CancelRevokes
    BY <1>1, <2>5, CommandTaskFacts DEF CancelRevokes, RevokeCredential, Call
  <2> QED BY <2>1, <2>2, <2>3, <2>4, <2>5
<1>6. BuildTypeOK'
  BY <1>1, <1>2, <1>3, <1>4, <1>5 DEF BuildTypeOK, Contents, Build, Operation, Job, Reconciler
<1>7. InputsKnown'
  BY <1>1, <1>2 DEF InputsKnown
<1> QED BY <1>2, <1>6, <1>7, ElsewhereInv DEF toldVars

-----------------------------------------------------------------------------
(***************************************************************************)
(* The command task.                                                       *)
(***************************************************************************)
\* A row that has not been given a result yet, and is given none.
LEMMA RowRunsInv ==
    ASSUME BuildInv, BuildTypeOK', InputsKnown', UNCHANGED toldVars,
           UNCHANGED <<archive, log, stored, rt>>,
           op.status \in {"none", "preparing", "running"},
           op'.status \in {"preparing", "running"},
           op.status = "running" => op'.status = "running",
           op'.result = Nothing, op'.done = {}, op'.scan = "none"
    PROVE  BuildInv'
<1>1. cp'.build = cp.build /\ cp'.cancel = cp.cancel /\ cp'.artifact = cp.artifact
      /\ cp'.scan = cp.scan
  BY DEF toldVars
<1>2. RowKnown'
  BY <1>1 DEF RowKnown, Evidenced
<1>3. SnapshotKnown'
  BY <1>1 DEF BuildInv, SnapshotKnown, Evidenced
<1>4. PlaceKnown'
  BY <1>1 DEF BuildInv, PlaceKnown
<1>5. OutcomeKnown'
  BY <1>1 DEF BuildInv, OutcomeKnown, Verdict, Rejected
<1>6. PublishedIsEvidenced' /\ OutcomeAgrees' /\ ArchiveIsResults'
  BY <1>1 DEF BuildInv, PublishedIsEvidenced, OutcomeAgrees, ArchiveIsResults
<1> QED BY <1>2, <1>3, <1>4, <1>5, <1>6 DEF BuildInv

\* OperationStore.set_running, as the end of a dispatch.
LEMMA SetRunningFacts ==
    ASSUME BuildTypeOK, RowKnown, SetRunning
    PROVE  /\ ct' \in CommandTask /\ op' \in Operation
           /\ \/ UNCHANGED op
              \/ /\ op.status \in {"preparing", "running"} /\ op'.status = "running"
                 /\ op'.result = Nothing /\ op'.done = {} /\ op'.scan = "none"
<1>1. op \in Operation /\ ct.cred \in Creds
  BY DEF BuildTypeOK, CommandTask
<1>2. ct' \in CommandTask
  BY CommandTaskFacts DEF SetRunning
<1>3. CASE op.status \in {"preparing", "running"}
  <2>1. op' = [op EXCEPT !.status = "running", !.cred = ct.cred, !.seen = FALSE]
    BY <1>3 DEF SetRunning
  <2>2. op' \in Operation /\ op'.status = "running"
      /\ op'.result = op.result /\ op'.done = op.done /\ op'.scan = op.scan
    BY <1>1, <2>1 DEF Operation, Operations
  <2> QED BY <1>2, <1>3, <2>2 DEF RowKnown
<1>4. CASE op.status \notin {"preparing", "running"}
  BY <1>1, <1>2, <1>4 DEF SetRunning
<1> QED BY <1>3, <1>4

LEMMA DispatchesInv ==
    ASSUME BuildAssumption, BuildInv, FindJob \/ CreateSecret \/ CreateJob
    PROVE  BuildInv'
<1>1. BuildTypeOK /\ InputsKnown /\ RowKnown
  BY DEF BuildInv
<1>2. UNCHANGED <<cp, archive, live, log, stored, inflight, rt>>
  BY DEF FindJob, CreateSecret, CreateJob, cluster
<1>3. faults' \in Mishaps
  BY <1>1, FaultFacts DEF FindJob, CreateSecret, CreateJob
<1>4. /\ ct' \in CommandTask /\ op' \in Operation
      /\ \/ UNCHANGED op
         \/ /\ op.status \in {"preparing", "running"} /\ op'.status = "running"
            /\ op'.result = Nothing /\ op'.done = {} /\ op'.scan = "none"
  <2>1. op \in Operation
    BY <1>1 DEF BuildTypeOK
  <2>2. CASE FindJob
    BY <1>1, <2>1, <2>2, SetRunningFacts, CommandTaskFacts DEF FindJob
  <2>3. CASE CreateSecret
    BY <1>1, <2>1, <2>3, CommandTaskFacts DEF CreateSecret
  <2>4. CASE CreateJob
    BY <1>1, <2>1, <2>4, SetRunningFacts, CommandTaskFacts DEF CreateJob
  <2> QED BY <2>2, <2>3, <2>4
<1>5. secret' \in Creds
  BY <1>1 DEF FindJob, CreateSecret, CreateJob, BuildTypeOK, CommandTask, Creds, cluster
<1>6. pods' \in Nat /\ pods <= pods'
  BY <1>1 DEF FindJob, CreateSecret, CreateJob, BuildTypeOK, cluster
<1>7. Contents \subseteq Contents'
  BY <1>1, <1>6, ContentsGrow DEF BuildTypeOK
<1>8. /\ job' \in Job'
      /\ job'.phase \in {"deliver", "waiting"} => job' = job
  <2>1. CASE UNCHANGED job
    <3>1. job \in Job
      BY <1>1 DEF BuildTypeOK
    <3> QED BY <1>1, <1>6, <1>7, <2>1, <3>1 DEF BuildTypeOK, Job
  <2>2. CASE job' = NewJob /\ pods' = pods + 1
    <3>1. Nothing \in Contents'
      BY <1>1, <1>7, ContentsFacts DEF BuildTypeOK
    <3>2. job' = [state |-> "active", pod |-> pods', left |-> Pods - 1, phase |-> "start",
                  cred |-> 0, tries |-> 0, payload |-> Nothing]
      BY <2>2 DEF NewJob, NoJob
    <3>3. Pods - 1 \in Nat /\ pods' \in 0..pods' /\ 0 \in Creds
      BY <1>6 DEF BuildAssumption, Creds
    <3>4. job' \in Job'
      BY <3>1, <3>2, <3>3 DEF Job, Creds
    <3> QED BY <3>2, <3>4
  <2> QED BY <2>1, <2>2 DEF FindJob, CreateSecret, CreateJob, cluster
<1>9. BuildTypeOK'
  <2>1. cp' \in Build' /\ op' \in Operation' /\ rt' \in Reconciler'
    BY <1>1, <1>2, <1>4, <1>7 DEF BuildTypeOK, Build, Operation, Reconciler
  <2>2. archive' \in Contents' /\ log' \in Contents' /\ inflight' \in Contents'
    BY <1>1, <1>2, <1>7 DEF BuildTypeOK
  <2> QED BY <1>1, <1>2, <1>3, <1>4, <1>5, <1>6, <1>8, <2>1, <2>2 DEF BuildTypeOK
<1>10. InputsKnown'
  BY <1>1, <1>2, <1>8 DEF InputsKnown
<1>11. UNCHANGED toldVars
  BY <1>2 DEF toldVars
<1> QED BY <1>2, <1>4, <1>9, <1>10, <1>11, ElsewhereInv, RowRunsInv

LEMMA FinalizedFacts ==
    ASSUME NEW row \in Command, NEW o
    PROVE  Finalized(row, o) \in Command /\ (row.status = "none" => Finalized(row, o) = row)
  BY DEF Finalized, Command

LEMMA FinalizeCommandInv ==
    ASSUME BuildAssumption, BuildInv, FinalizeCommand
    PROVE  BuildInv'
<1>1. BuildTypeOK /\ InputsKnown
  BY DEF BuildInv
<1>2. UNCHANGED <<op, archive, live, log, stored, job, secret, pods, inflight, rt>>
  BY DEF FinalizeCommand, cluster
<1>3. /\ cp' \in Build /\ UNCHANGED toldVars
      /\ cp'.stop.status # "none" => cp'.cancel
  <2>1. CASE UNCHANGED cp
    BY <1>1, <2>1 DEF BuildTypeOK, toldVars, InputsKnown
  <2>2. CASE cp' = [cp EXCEPT ![ct.cmd] = Finalized(@, ct.outcome)]
    <3>1. cp.start \in Command /\ cp.stop \in Command /\ ct.cmd \in {"start", "stop"}
      BY <1>1 DEF BuildTypeOK, Build, CommandTask
    <3>2. CASE ct.cmd = "start"
      <4>1. cp' = [cp EXCEPT !.start = Finalized(cp.start, ct.outcome)]
        BY <1>1, <2>2, <3>2 DEF BuildTypeOK, Build
      <4> QED BY <1>1, <3>1, <4>1, FinalizedFacts DEF BuildTypeOK, Build, toldVars, InputsKnown
    <3>3. CASE ct.cmd = "stop"
      <4>1. cp' = [cp EXCEPT !.stop = Finalized(cp.stop, ct.outcome)]
        BY <1>1, <2>2, <3>3 DEF BuildTypeOK, Build
      <4> QED BY <1>1, <3>1, <4>1, FinalizedFacts DEF BuildTypeOK, Build, toldVars, InputsKnown
    <3> QED BY <3>1, <3>2, <3>3
  <2> QED BY <2>1, <2>2 DEF FinalizeCommand, Call
<1>4. ct' \in CommandTask
  BY <1>1, CommandTaskFacts DEF FinalizeCommand, Call
<1>5. faults' \in Mishaps
  BY <1>1, FaultFacts DEF FinalizeCommand, Call
<1>6. BuildTypeOK'
  BY <1>1, <1>2, <1>3, <1>4, <1>5
  DEF BuildTypeOK, Contents, Build, Operation, Job, Reconciler
<1>7. InputsKnown'
  BY <1>1, <1>2, <1>3 DEF InputsKnown
<1> QED BY <1>2, <1>3, <1>6, <1>7, ElsewhereInv

\* The sandbox is removed.
LEMMA RemovedFacts ==
    ASSUME BuildTypeOK, job' \in {job, NoJob}, pods' = pods
    PROVE  job' \in Job' /\ (job'.phase \in {"deliver", "waiting"} => job' = job)
  BY ContentsFacts DEF BuildTypeOK, Job, NoJob, Contents, Creds

LEMMA CancelRemovesInv ==
    ASSUME BuildAssumption, BuildInv, CancelRemoves
    PROVE  BuildInv'
<1>1. BuildTypeOK /\ InputsKnown
  BY DEF BuildInv
<1>2. UNCHANGED <<cp, op, archive, live, log, stored, pods, inflight, rt>>
  BY DEF CancelRemoves
<1>3. job' \in {job, NoJob} /\ secret' \in {secret, 0} /\ faults' \in Mishaps
  BY <1>1, FaultFacts DEF CancelRemoves, Remove, Call
<1>4. ct' \in CommandTask
  BY <1>1, CommandTaskFacts DEF CancelRemoves, Remove, Call
<1>5. BuildTypeOK'
  BY <1>1, <1>2, <1>3, <1>4, RemovedFacts
  DEF BuildTypeOK, Contents, Build, Operation, Reconciler, Creds
<1>6. InputsKnown'
  BY <1>1, <1>2, <1>3, RemovedFacts DEF InputsKnown
<1> QED BY <1>2, <1>5, <1>6, ElsewhereInv DEF toldVars

\* A row that is being canceled: only what the cancellation voids is said of it.
LEMMA RowCancelsInv ==
    ASSUME BuildInv, BuildTypeOK', InputsKnown', UNCHANGED toldVars, cp.cancel,
           UNCHANGED <<archive, log, stored, rt>>,
           op' = [op EXCEPT !.status = "canceling"]
    PROVE  BuildInv'
<1>1. /\ cp'.build = cp.build /\ cp'.cancel /\ cp'.artifact = cp.artifact
      /\ cp'.scan = cp.scan
  BY DEF toldVars
<1>2. op \in Operation
  BY DEF BuildInv, BuildTypeOK
<1>3. /\ op'.status = "canceling" /\ op'.result = op.result /\ op'.done = op.done
      /\ op'.scan = op.scan
  BY <1>2 DEF Operation
<1>4. RowKnown'
  BY <1>1, <1>3 DEF BuildInv, RowKnown, Evidenced
<1>5. SnapshotKnown'
  BY <1>1, <1>3 DEF BuildInv, SnapshotKnown, Evidenced
<1>6. PlaceKnown'
  BY <1>1, <1>3 DEF BuildInv, PlaceKnown
<1>7. OutcomeKnown' /\ PublishedIsEvidenced' /\ OutcomeAgrees' /\ ArchiveIsResults'
  BY <1>1, <1>3 DEF BuildInv, OutcomeKnown, PublishedIsEvidenced, OutcomeAgrees, ArchiveIsResults
<1> QED BY <1>4, <1>5, <1>6, <1>7 DEF BuildInv

\* A command is claimed, and the answer is lost or the row is looked at.
LEMMA ClaimInv ==
    ASSUME BuildAssumption, BuildInv, NEW cmd \in {"start", "stop"}, Claim(cmd)
    PROVE  BuildInv'
<1>1. BuildTypeOK /\ InputsKnown /\ RowKnown
  BY DEF BuildInv
<1>2. UNCHANGED <<archive, live, log, stored, job, secret, pods, inflight, rt>>
  BY DEF Claim, cluster
<1>3. /\ cp' \in Build /\ UNCHANGED toldVars
      /\ cp'.stop.status # "none" => cp'.cancel
  <2>1. cp.start \in Command /\ cp.stop \in Command
    BY <1>1 DEF BuildTypeOK, Build
  <2>2. CASE cmd = "start"
    <3>1. cp' = [cp EXCEPT !.start = [status |-> "delivering", attempts |-> cp.start.attempts + 1]]
      BY <1>1, <2>2 DEF Claim, BuildTypeOK, Build
    <3> QED BY <1>1, <2>1, <3>1 DEF BuildTypeOK, Build, Command, toldVars, InputsKnown
  <2>3. CASE cmd = "stop"
    <3>1. /\ cp' = [cp EXCEPT !.stop = [status |-> "delivering", attempts |-> cp.stop.attempts + 1]]
          /\ cp.stop.status # "none"
      BY <1>1, <2>3 DEF Claim, BuildTypeOK, Build
    <3> QED BY <1>1, <2>1, <3>1 DEF BuildTypeOK, Build, Command, toldVars, InputsKnown
  <2> QED BY <2>2, <2>3
<1>4. faults' \in Mishaps
  BY <1>1, FaultFacts DEF Claim
<1>5. InputsKnown'
  BY <1>1, <1>2, <1>3 DEF InputsKnown
<1>6. op \in Operation /\ ct \in CommandTask
  BY <1>1 DEF BuildTypeOK
<1>7. ASSUME op' \in Operation, ct' \in CommandTask
      PROVE  BuildTypeOK'
  BY <1>1, <1>2, <1>3, <1>4, <1>7
  DEF BuildTypeOK, Contents, Build, Operation, Job, Reconciler
<1>8. CASE UNCHANGED <<op, ct>>
  BY <1>2, <1>3, <1>5, <1>6, <1>7, <1>8, ElsewhereInv
<1>9. CASE RegisterOperation
  <2>1. ct' \in CommandTask
    <3>1. op.status \in Operations
      BY <1>6 DEF Operation
    <3> QED BY <1>6, <1>9, <3>1 DEF RegisterOperation, CommandTask
  <2>2. CASE op.status # "none"
    BY <1>2, <1>3, <1>5, <1>6, <1>7, <1>9, <2>1, <2>2, ElsewhereInv DEF RegisterOperation
  <2>3. CASE op.status = "none"
    <3>1. op' = [NoOp EXCEPT !.status = "preparing"]
      BY <1>9, <2>3 DEF RegisterOperation
    <3>2. /\ op' = [status |-> "preparing", cred |-> 0, seen |-> FALSE, result |-> Nothing,
                    done |-> {}, scan |-> "none"]
          /\ Nothing \in Contents
      BY <1>1, <3>1, ContentsFacts DEF NoOp, BuildTypeOK
    <3>3. op' \in Operation
      BY <3>2 DEF Operation, Operations, Creds, Scans
    <3> QED BY <1>2, <1>3, <1>5, <1>7, <2>1, <2>3, <3>2, <3>3, RowRunsInv
  <2> QED BY <2>2, <2>3
<1>10. CASE Cancel /\ cmd = "stop"
  <2>1. cp.cancel
    BY <1>1, <1>10 DEF Claim, InputsKnown
  <2>2. ct' \in CommandTask
    BY <1>6, <1>10 DEF Cancel, CommandTask, Operation
  <2>3. UNCHANGED op \/ op' = [op EXCEPT !.status = "canceling"]
    BY <1>10 DEF Cancel
  <2>4. op' \in Operation
    BY <1>6, <2>3 DEF Operation, Operations
  <2> QED BY <1>2, <1>3, <1>5, <1>7, <2>1, <2>2, <2>3, <2>4, ElsewhereInv, RowCancelsInv
<1> QED BY <1>8, <1>9, <1>10 DEF Claim

LEMMA RequestCancelInv ==
    ASSUME BuildAssumption, BuildInv, RequestCancel
    PROVE  BuildInv'
<1>1. BuildTypeOK /\ InputsKnown
  BY DEF BuildInv
<1>2. UNCHANGED <<op, archive, live, log, stored, job, secret, pods, inflight, ct, rt, faults>>
  BY DEF RequestCancel, cluster
<1>3. /\ cp' \in Build /\ cp'.build = cp.build /\ cp'.cancel
      /\ cp'.artifact = cp.artifact /\ cp'.scan = cp.scan
  BY <1>1 DEF RequestCancel, BuildTypeOK, Build, Command
<1>4. BuildTypeOK'
  BY <1>1, <1>2, <1>3
  DEF BuildTypeOK, Contents, Build, Operation, Job, CommandTask, Reconciler
<1>5. InputsKnown' /\ RowKnown' /\ SnapshotKnown' /\ PlaceKnown'
  BY <1>2, <1>3 DEF BuildInv, InputsKnown, RowKnown, SnapshotKnown, PlaceKnown, Evidenced
<1>6. OutcomeKnown' /\ PublishedIsEvidenced' /\ OutcomeAgrees' /\ ArchiveIsResults'
  BY <1>2, <1>3 DEF BuildInv, OutcomeKnown, PublishedIsEvidenced, OutcomeAgrees, ArchiveIsResults
<1> QED BY <1>4, <1>5, <1>6 DEF BuildInv

-----------------------------------------------------------------------------
(***************************************************************************)
(* The worker and its Job.                                                 *)
(***************************************************************************)
\* What becomes of a sandbox: it is another one that has nothing to deliver,
\* moves on in its phases, or delivers an answer of its pod.
LEMMA SandboxInv ==
    ASSUME BuildAssumption, BuildInv,
           UNCHANGED <<cp, op, archive, live, log, stored, secret, inflight, ct, rt>>,
           faults' \in Mishaps, pods' \in Nat, pods <= pods', job' \in Job',
           job'.phase \in {"deliver", "waiting"} => job'.payload.status \in Answers
    PROVE  BuildInv'
<1>1. BuildTypeOK /\ InputsKnown
  BY DEF BuildInv
<1>2. Contents \subseteq Contents'
  BY <1>1, ContentsGrow DEF BuildTypeOK
<1>3. BuildTypeOK'
  BY <1>1, <1>2 DEF BuildTypeOK, Build, Operation, CommandTask, Reconciler
<1>4. InputsKnown'
  BY <1>1 DEF InputsKnown
<1> QED BY <1>3, <1>4, ElsewhereInv DEF toldVars

\* A sandbox that begins or that has ended.
LEMMA FreshFacts ==
    ASSUME pods' \in Nat, NEW s \in {"none", "active", "complete", "failed"},
           NEW p \in 0..pods', NEW l \in Nat,
           job' = [state |-> s, pod |-> p, left |-> l, phase |-> "start", cred |-> 0,
                   tries |-> 0, payload |-> Nothing]
    PROVE  job' \in Job' /\ job'.phase = "start"
<1>1. Nothing \in Contents'
  BY DEF Contents, Nothing, Content
<1> QED BY <1>1 DEF Job, Creds

LEMMA EndedFacts ==
    ASSUME pods \in Nat, pods' = pods, NEW s \in {"complete", "failed"},
           job' = [NoJob EXCEPT !.state = s] \/ job' = NoJob
    PROVE  job' \in Job' /\ job'.phase = "start"
<1>1. \E t \in {"none", s} :
        job' = [state |-> t, pod |-> 0, left |-> 0, phase |-> "start", cred |-> 0,
                tries |-> 0, payload |-> Nothing]
  BY DEF NoJob
<1> QED BY <1>1, FreshFacts

LEMMA PodFailedFacts ==
    ASSUME BuildTypeOK, PodFailed
    PROVE  job' \in Job' /\ job'.phase = "start" /\ pods' \in Nat /\ pods <= pods'
<1>1. pods \in Nat /\ job.left \in Nat
  BY DEF BuildTypeOK, Job
<1>2. CASE job.left > 0
  <2>1. pods' = pods + 1
    BY <1>2 DEF PodFailed
  <2>2. job' = [state |-> "active", pod |-> pods', left |-> job.left - 1, phase |-> "start",
                cred |-> 0, tries |-> 0, payload |-> Nothing]
    BY <1>2 DEF PodFailed, NoJob
  <2>3. job.left - 1 \in Nat /\ pods' \in Nat /\ pods' \in 0..pods'
    BY <1>1, <1>2, <2>1
  <2> QED BY <1>1, <2>1, <2>2, <2>3, FreshFacts
<1>3. CASE ~(job.left > 0)
  BY <1>1, <1>3, EndedFacts DEF PodFailed
<1> QED BY <1>2, <1>3

\* An answer of the pod that runs.
LEMMA SubmitFacts ==
    ASSUME BuildTypeOK, NEW s \in Answers, job' = Submit(s), pods' = pods
    PROVE  job' \in Job' /\ job'.payload.status \in Answers
<1>1. job \in Job /\ Content(job.pod, s) \in Contents
  BY DEF BuildTypeOK, Job, Contents, Content, Answers
<1>2. Content(job.pod, s).status = s
  BY DEF Content
<1> QED BY <1>1, <1>2 DEF Submit, Job, Contents

LEMMA PhasesInv ==
    ASSUME BuildAssumption, BuildInv, PodStarts \/ WorkerPhase \/ BuildArtifact
    PROVE  BuildInv'
<1>1. BuildTypeOK /\ InputsKnown /\ job \in Job
  BY DEF BuildInv, BuildTypeOK
<1>2. UNCHANGED <<cp, op, archive, live, log, stored, secret, pods, inflight, ct, rt, faults>>
  BY DEF PodStarts, WorkerPhase, BuildArtifact
<1>3. CASE \E s \in Answers : job' = Submit(s)
  BY <1>1, <1>2, <1>3, SubmitFacts, SandboxInv DEF BuildTypeOK
<1>4. CASE PodStarts /\ job' = [job EXCEPT !.phase = Phases[job.phase], !.cred = secret]
  <2>1. job' = [job EXCEPT !.phase = "clone", !.cred = secret] /\ secret \in Creds
    BY <1>1, <1>4 DEF PodStarts, Phases, BuildTypeOK
  <2>2. job' \in Job' /\ job'.phase = "clone"
    BY <1>1, <1>2, <2>1 DEF Job, Contents
  <2> QED BY <1>1, <1>2, <2>2, SandboxInv DEF BuildTypeOK
<1>5. CASE WorkerPhase /\ job' = [job EXCEPT !.phase = Phases[job.phase]]
  <2>1. \E p \in {"detect", "buildkit", "build"} : job' = [job EXCEPT !.phase = p]
    BY <1>5 DEF WorkerPhase, Phases
  <2>2. job' \in Job' /\ job'.phase \in {"detect", "buildkit", "build"}
    BY <1>1, <1>2, <2>1 DEF Job, Contents
  <2> QED BY <1>1, <1>2, <2>2, SandboxInv DEF BuildTypeOK
<1> QED BY <1>3, <1>4, <1>5 DEF PodStarts, WorkerPhase, BuildArtifact, Answers

LEMMA SendResultInv ==
    ASSUME BuildAssumption, BuildInv, SendResult
    PROVE  BuildInv'
<1>1. BuildTypeOK /\ InputsKnown /\ job \in Job
  BY DEF BuildInv, BuildTypeOK
<1>2. UNCHANGED <<cp, op, archive, live, log, stored, secret, pods, ct, rt, faults>>
  BY DEF SendResult
<1>3. job' = [job EXCEPT !.phase = "waiting"] /\ inflight' = job.payload /\ job.phase = "deliver"
  BY DEF SendResult
<1>4. job' \in Job /\ job'.payload = job.payload /\ inflight' \in Contents
  BY <1>1, <1>3 DEF Job
<1>5. BuildTypeOK'
  BY <1>1, <1>2, <1>4
  DEF BuildTypeOK, Contents, Build, Operation, Job, CommandTask, Reconciler
<1>6. InputsKnown'
  BY <1>1, <1>2, <1>3, <1>4 DEF InputsKnown
<1> QED BY <1>2, <1>5, <1>6, ElsewhereInv DEF toldVars

LEMMA SandboxEndsInv ==
    ASSUME BuildAssumption, BuildInv, DeadlineExceeded \/ Expire \/ SandboxLost
    PROVE  BuildInv'
<1>1. BuildTypeOK /\ pods \in Nat
  BY DEF BuildInv, BuildTypeOK
<1>2. UNCHANGED <<cp, op, archive, live, log, stored, secret, inflight, ct, rt>>
  BY DEF DeadlineExceeded, Expire, SandboxLost
<1>3. faults' \in Mishaps
  BY <1>1, FaultFacts DEF DeadlineExceeded, Expire, SandboxLost
<1>4. CASE PodFailed
  BY <1>1, <1>2, <1>3, <1>4, PodFailedFacts, SandboxInv
<1>5. CASE /\ pods' = pods
           /\ \/ job' = [NoJob EXCEPT !.state = "complete"] \/ job' = NoJob
              \/ job' = [NoJob EXCEPT !.state = "failed"]
  <2>1. job' \in Job' /\ job'.phase = "start"
    BY <1>1, <1>5, EndedFacts
  <2> QED BY <1>1, <1>2, <1>3, <1>5, <2>1, SandboxInv
<1> QED BY <1>4, <1>5 DEF DeadlineExceeded, Expire, SandboxLost

\* The worker hears that its result was taken, or that the try failed.
LEMMA HeardFacts ==
    ASSUME BuildTypeOK, InputsKnown, (Delivered /\ UNCHANGED pods) \/ TryFailed
    PROVE  /\ job' \in Job' /\ pods' \in Nat /\ pods <= pods'
           /\ job'.phase \in {"deliver", "waiting"} => job'.payload.status \in Answers
<1>1. job \in Job /\ pods \in Nat
  BY DEF BuildTypeOK
<1>2. CASE job' = job /\ pods' = pods
  BY <1>1, <1>2 DEF InputsKnown, Job, Contents
<1>3. CASE job' = [NoJob EXCEPT !.state = "complete"] /\ pods' = pods
  BY <1>1, <1>3, EndedFacts
<1>4. CASE /\ job.phase = "waiting" /\ pods' = pods
           /\ job' = [job EXCEPT !.phase = "deliver", !.tries = @ + 1]
  <2>1. job.tries + 1 \in Nat /\ job.payload.status \in Answers
    BY <1>1, <1>4 DEF InputsKnown, Job
  <2>2. job' \in Job /\ job'.payload = job.payload
    BY <1>1, <1>4, <2>1 DEF Job
  <2> QED BY <1>1, <1>4, <2>1, <2>2 DEF Job, Contents
<1>5. CASE job' = Submit("failed") /\ pods' = pods
  BY <1>1, <1>5, SubmitFacts DEF Answers
<1>6. CASE PodFailed
  BY <1>6, PodFailedFacts
<1>7. CASE Delivered /\ UNCHANGED pods
  BY <1>2, <1>3, <1>7 DEF Delivered
<1>8. CASE TryFailed
  <2>1. CASE ~Waiting
    BY <1>2, <1>8, <2>1 DEF TryFailed
  <2>2. CASE Waiting
    <3>1. job.phase = "waiting"
      BY <2>2 DEF Waiting
    <3> QED BY <1>4, <1>5, <1>6, <1>8, <2>2, <3>1 DEF TryFailed
  <2> QED BY <2>1, <2>2
<1> QED BY <1>7, <1>8

\* save_result: a row that runs waits for its result now, any other stays.
LEMMA SavedFacts ==
    ASSUME BuildTypeOK, inflight # Nothing, Saved(inflight)
    PROVE  /\ op' \in Operation /\ archive' \in Contents
           /\ \/ /\ op.status = "running" /\ op'.status = "result_pending"
                 /\ op'.result = inflight /\ op'.done = op.done /\ op'.scan = op.scan
                 /\ archive' = ArchiveOf(inflight)
              \/ /\ op' = op /\ op.status # "running"
                 /\ op.status \in Concluded => archive' = archive
<1>1. op \in Operation /\ archive \in Contents /\ inflight \in Contents
  BY DEF BuildTypeOK
<1>2. archive' \in Contents
  BY <1>1 DEF Saved, ArchiveOf
<1>3. CASE op.status = "running"
  <2>1. op' = [op EXCEPT !.status = "result_pending", !.result = inflight]
    BY <1>3 DEF Saved
  <2>2. archive' = ArchiveOf(inflight)
    BY <1>3 DEF Saved, Concluded
  <2> QED BY <1>1, <1>2, <1>3, <2>1, <2>2 DEF Operation, Operations
<1>4. CASE op.status # "running"
  BY <1>1, <1>2, <1>4 DEF Saved, Concluded
<1> QED BY <1>3, <1>4

LEMMA AcceptResultInv ==
    ASSUME BuildAssumption, BuildInv, AcceptResult
    PROVE  BuildInv'
<1>1. /\ BuildTypeOK /\ InputsKnown /\ RowKnown /\ SnapshotKnown /\ PlaceKnown
      /\ OutcomeKnown /\ PublishedIsEvidenced /\ OutcomeAgrees /\ ArchiveIsResults
  BY DEF BuildInv
<1>2. UNCHANGED <<cp, live, log, stored, secret, ct, rt>> /\ inflight' = Nothing
      /\ inflight # Nothing
  BY DEF AcceptResult
<1>3. faults' \in Mishaps
  BY <1>1, FaultFacts DEF AcceptResult
<1>4. /\ job' \in Job' /\ pods' \in Nat /\ pods <= pods'
      /\ job'.phase \in {"deliver", "waiting"} => job'.payload.status \in Answers
  BY <1>1, HeardFacts DEF AcceptResult
<1>5. Contents \subseteq Contents' /\ Nothing \in Contents
  BY <1>1, <1>4, ContentsGrow, ContentsFacts DEF BuildTypeOK
<1>6. InputsKnown'
  BY <1>1, <1>2, <1>4 DEF InputsKnown
<1>7. ASSUME op' \in Operation, archive' \in Contents PROVE BuildTypeOK'
  BY <1>1, <1>2, <1>3, <1>4, <1>5, <1>7
  DEF BuildTypeOK, Build, Operation, CommandTask, Reconciler
<1>8. CASE UNCHANGED <<op, archive>>
  BY <1>1, <1>2, <1>6, <1>7, <1>8, ElsewhereInv DEF BuildTypeOK, toldVars
<1>9. CASE Saved(inflight)
  <2>1. BuildTypeOK'
    BY <1>1, <1>2, <1>7, <1>9, SavedFacts
  <2>2. CASE op' = op /\ op.status # "running" /\ (op.status \in Concluded => archive' = archive)
    <3>1. RowKnown' /\ SnapshotKnown' /\ PlaceKnown'
      BY <1>1, <1>2, <2>2 DEF RowKnown, SnapshotKnown, PlaceKnown, Evidenced
    <3>2. OutcomeKnown' /\ PublishedIsEvidenced' /\ OutcomeAgrees'
      BY <1>1, <1>2, <2>2 DEF OutcomeKnown, PublishedIsEvidenced, OutcomeAgrees, Verdict, Rejected
    <3>3. ArchiveIsResults'
      BY <1>1, <2>2 DEF ArchiveIsResults, Concluded
    <3> QED BY <1>6, <2>1, <3>1, <3>2, <3>3 DEF BuildInv
  <2>3. CASE /\ op.status = "running" /\ op'.status = "result_pending"
             /\ op'.result = inflight /\ op'.done = op.done /\ op'.scan = op.scan
             /\ archive' = ArchiveOf(inflight)
    <3>1. inflight.status \in Answers
      BY <1>1, <1>2 DEF InputsKnown
    <3>2. RowKnown'
      BY <1>1, <1>2, <2>3, <3>1 DEF RowKnown, Evidenced
    <3>3. SnapshotKnown' /\ PlaceKnown'
      BY <1>1, <1>2, <2>3 DEF RowKnown, SnapshotKnown, PlaceKnown
    <3>4. OutcomeKnown' /\ PublishedIsEvidenced' /\ OutcomeAgrees'
      BY <1>1, <1>2, <2>3 DEF OutcomeKnown, PublishedIsEvidenced, OutcomeAgrees, Verdict, Rejected
    <3>5. ArchiveIsResults'
      BY <2>3 DEF ArchiveIsResults, ArchiveOf
    <3> QED BY <1>6, <2>1, <3>2, <3>3, <3>4, <3>5 DEF BuildInv
  <2> QED BY <1>1, <1>2, <1>9, <2>2, <2>3, SavedFacts
<1> QED BY <1>8, <1>9 DEF AcceptResult

-----------------------------------------------------------------------------
(***************************************************************************)
(* The reconciler.                                                         *)
(***************************************************************************)
\* The log is written once, the other evidence only grows.
EvidenceGrows ==
    /\ log' = log \/ (log = Nothing /\ rt.pc = "log")
    /\ stored \subseteq stored'

\* Nothing that is said of the log is said of one that is not there yet.
LEMMA EvidenceStays ==
    ASSUME BuildInv, EvidenceGrows
    PROVE  /\ "log" \in op.done => log' = op.result
           /\ rt.status = "result_pending" /\ "log" \in rt.done => log' = rt.result
           /\ cp.build = "succeeded" => log' = log
           /\ ~cp.cancel /\ cp.build = "failed" => log' = log
           /\ rt.pc # "log" => log' = log
<1>1. BuildTypeOK /\ RowKnown /\ SnapshotKnown /\ PlaceKnown /\ OutcomeKnown /\ PublishedIsEvidenced
  BY DEF BuildInv
<1>2. CASE log' = log
  BY <1>1, <1>2 DEF RowKnown, SnapshotKnown, Evidenced
<1>3. CASE log = Nothing /\ rt.pc = "log"
  <2>1. log.status \notin Answers /\ log \notin Given
    BY <1>3 DEF Nothing, Stamped, PodLogs, Content, Answers, Given
  <2>2. "log" \notin op.done
    BY <1>1, <2>1 DEF RowKnown, Evidenced
  <2>3. rt.status \in {"running", "result_pending"}
    BY <1>1, <1>3 DEF PlaceKnown, SnapshotKnown, BuildTypeOK, Reconciler
  <2>4. rt.status = "result_pending" => "log" \notin rt.done
    BY <1>1, <2>1 DEF SnapshotKnown, Evidenced
  <2>5. cp.build # "succeeded"
    BY <1>1, <2>1 DEF PublishedIsEvidenced, Answers
  <2>6. op.status \in {"running", "result_pending", "canceling"}
    BY <1>1, <2>3 DEF SnapshotKnown
  <2>7. ~cp.cancel => cp.build # "failed"
    BY <1>1, <2>1, <2>6 DEF OutcomeKnown, RowKnown
  <2> QED BY <1>3, <2>2, <2>4, <2>5, <2>7
<1> QED BY <1>2, <1>3 DEF EvidenceGrows

\* A row that keeps what it says, or gets another checkpoint.
RowAdvances ==
    /\ op'.status = op.status /\ op'.result = op.result
    /\ \/ op'.done = op.done /\ op'.scan = op.scan
       \/ /\ op.status = "result_pending"
          /\ op.scan # "none" => op'.scan = op.scan
          /\ Evidenced(op)'

\* The reconciler moves on without telling the control plane anything.
LEMMA ReconcilesInv ==
    ASSUME BuildInv, BuildTypeOK', InputsKnown', UNCHANGED toldVars, UNCHANGED archive,
           EvidenceGrows, RowAdvances, SnapshotKnown', PlaceKnown',
           rt'.pc \in {"remove", "revoke"} /\ rt'.status # "canceling" =>
               /\ rt.pc \in {"remove", "revoke"} /\ rt.status # "canceling"
               /\ Verdict(rt)' = Verdict(rt)
    PROVE  BuildInv'
<1>1. /\ BuildTypeOK /\ RowKnown /\ OutcomeKnown
      /\ PublishedIsEvidenced /\ OutcomeAgrees /\ ArchiveIsResults
  BY DEF BuildInv
<1>2. cp'.build = cp.build /\ cp'.cancel = cp.cancel /\ cp'.artifact = cp.artifact
      /\ cp'.scan = cp.scan
  BY DEF toldVars
<1>3. RowKnown'
  <2>1. CASE op'.done = op.done /\ op'.scan = op.scan
    BY <1>1, <1>2, <2>1, EvidenceStays DEF RowKnown, Evidenced, EvidenceGrows, RowAdvances
  <2>2. CASE ~(op'.done = op.done /\ op'.scan = op.scan)
    BY <1>1, <1>2, <2>2 DEF RowKnown, RowAdvances
  <2> QED BY <2>1, <2>2
<1>4. /\ op'.status = op.status /\ op'.result = op.result
      /\ op.scan # "none" => op'.scan = op.scan
  BY DEF RowAdvances
<1>5. OutcomeKnown'
  BY <1>1, <1>2, <1>4, EvidenceStays DEF OutcomeKnown
<1>6. PublishedIsEvidenced'
  BY <1>1, <1>2, EvidenceStays DEF PublishedIsEvidenced, EvidenceGrows
<1>7. OutcomeAgrees' /\ ArchiveIsResults'
  BY <1>1, <1>2, <1>4 DEF OutcomeAgrees, ArchiveIsResults
<1> QED BY <1>3, <1>5, <1>6, <1>7 DEF BuildInv

\* It gives up for this time.
LEMMA DefersInv ==
    ASSUME BuildInv, BuildTypeOK', UNCHANGED <<cp, job, inflight, op, archive>>, EvidenceGrows,
           rt' = RtIdle
    PROVE  BuildInv'
<1>1. rt'.pc = "idle" /\ rt'.status = "none"
  BY DEF RtIdle
<1>2. SnapshotKnown' /\ PlaceKnown'
  BY <1>1 DEF SnapshotKnown, PlaceKnown
<1>3. InputsKnown'
  BY DEF BuildInv, InputsKnown
<1> QED BY <1>1, <1>2, <1>3, ReconcilesInv DEF RowAdvances, toldVars

\* The next call of _process_result, and what must have been done before.
LEMMA NextCallFacts ==
    ASSUME BuildAssumption, NEW r, r.scan \in Scans
    PROVE  /\ NextCall(r) \in {"log", "idle", "scan", "scan_credential", "manifest", "sbom",
                               "provenance", "send"}
           /\ NextCall(r) \in {"scan", "scan_credential"} => r.scan = "none"
           /\ NextCall(r) = "send" =>
                /\ "log" \in r.done
                /\ r.result.status = "completed" =>
                     /\ r.scan # "none" /\ "evidence" \in r.done
                     /\ Workload = "static" => "manifest" \in r.done
                     /\ r.scan = "passed" => "provenance" \in r.done
  BY DEF NextCall, Scans

\* What the reconciler becomes.
LEMMA ReconcilerFacts ==
    ASSUME BuildTypeOK, NEW r \in Reconciler,
           NEW p \in {"idle", "pending", "observe", "logs", "log", "scan_credential", "scan",
                  "unscan", "manifest", "sbom", "report", "provenance", "send", "remove",
                  "revoke"}
    PROVE  [r EXCEPT !.pc = p] \in Reconciler /\ RtIdle \in Reconciler
<1>1. Nothing \in Contents
  BY ContentsFacts DEF BuildTypeOK
<1> QED BY <1>1 DEF Reconciler, RtIdle, Creds, Scans, Checkpoints

\* The types of a step of the reconciler that leaves the sandbox alone.
LEMMA ReconcilerTypes ==
    ASSUME BuildTypeOK, UNCHANGED <<cp, job, secret, pods, inflight, ct>>,
           faults' \in Mishaps, op' \in Operation, rt' \in Reconciler,
           archive' \in Contents, log' \in Contents, live' \subseteq CredIds,
           stored' \subseteq {"manifest", "sbom", "scan", "provenance"}
    PROVE  BuildTypeOK'
  BY DEF BuildTypeOK, Contents, Build, Operation, Job, CommandTask, Reconciler

LEMMA RowTyped ==
    ASSUME BuildTypeOK
    PROVE  /\ op \in Operation /\ rt \in Reconciler /\ archive \in Contents /\ log \in Contents
           /\ live \subseteq CredIds /\ faults \in Mishaps
           /\ stored \subseteq {"manifest", "sbom", "scan", "provenance"}
           /\ rt.result \in Contents /\ rt.log \in Contents /\ rt.cred \in Creds
           /\ op.result \in Contents /\ op.cred \in Creds /\ op.scan \in Scans
           /\ rt.scan \in Scans /\ rt.done \subseteq Checkpoints
  BY DEF BuildTypeOK, Operation, Reconciler

\* A step of the reconciler that does not tell the control plane anything.
Quiet == UNCHANGED <<cp, archive, job, secret, pods, inflight, ct>>

LEMMA QuietInv ==
    ASSUME BuildInv, Quiet, faults' \in Mishaps, op' \in Operation, rt' \in Reconciler,
           log' \in Contents, live' \subseteq CredIds,
           stored' \subseteq {"manifest", "sbom", "scan", "provenance"},
           EvidenceGrows, RowAdvances, SnapshotKnown', PlaceKnown',
           rt'.pc \in {"remove", "revoke"} /\ rt'.status # "canceling" =>
               /\ rt.pc \in {"remove", "revoke"} /\ rt.status # "canceling"
               /\ Verdict(rt)' = Verdict(rt)
    PROVE  BuildInv'
<1>1. BuildTypeOK /\ InputsKnown
  BY DEF BuildInv
<1>2. BuildTypeOK'
  BY <1>1, ReconcilerTypes, RowTyped DEF Quiet
<1>3. InputsKnown'
  BY <1>1 DEF InputsKnown, Quiet
<1>4. UNCHANGED toldVars /\ UNCHANGED archive
  BY DEF Quiet, toldVars
<1> QED BY <1>2, <1>3, <1>4, ReconcilesInv

LEMMA QuietDefers ==
    ASSUME BuildInv, Quiet, UNCHANGED op, faults' \in Mishaps, Defer,
           log' \in Contents, live' \subseteq CredIds,
           stored' \subseteq {"manifest", "sbom", "scan", "provenance"}, EvidenceGrows
    PROVE  BuildInv'
<1>1. BuildTypeOK
  BY DEF BuildInv
<1>2. RtIdle \in Reconciler
  BY <1>1, RowTyped, ReconcilerFacts
<1>3. BuildTypeOK'
  BY <1>1, <1>2, ReconcilerTypes, RowTyped DEF Quiet, Defer
<1> QED BY <1>3, DefersInv DEF Quiet, Defer

\* merge_result: the checkpoint r is kept while the row waits for its result.
LEMMA CheckpointInv ==
    ASSUME BuildAssumption, BuildInv, Quiet, NEW r \in Reconciler, Checkpoint(r),
           r.status = "result_pending", rt.status = "result_pending",
           r.result = rt.result,
           op.status = "result_pending" /\ op.scan # "none" => r.scan = op.scan,
           "log" \in r.done => log' = r.result,
           "manifest" \in r.done => "manifest" \in stored',
           "evidence" \in r.done => {"sbom", "scan"} \subseteq stored',
           "provenance" \in r.done => "provenance" \in stored',
           faults' \in Mishaps, log' \in Contents, live' \subseteq CredIds,
           stored' \subseteq {"manifest", "sbom", "scan", "provenance"}, EvidenceGrows
    PROVE  BuildInv'
<1>1. BuildTypeOK /\ SnapshotKnown /\ RowKnown
  BY DEF BuildInv
<1>2. op \in Operation /\ r.scan \in Scans /\ r.done \subseteq Checkpoints
  BY <1>1 DEF BuildTypeOK, Reconciler
<1>3. CASE op.status # "result_pending"
  BY <1>3, QuietDefers DEF Checkpoint
<1>4. CASE op.status = "result_pending"
  <2>1. op' = [op EXCEPT !.done = r.done, !.scan = r.scan]
    BY <1>4 DEF Checkpoint
  <2>2. /\ op' \in Operation /\ op'.status = "result_pending" /\ op'.result = op.result
        /\ op'.done = r.done /\ op'.scan = r.scan
    BY <1>2, <1>4, <2>1 DEF Operation
  <2>3. op.result = r.result
    BY <1>1, <1>4 DEF SnapshotKnown
  <2>4. Evidenced(op)'
    BY <2>2, <2>3 DEF Evidenced
  <2>5. RowAdvances
    BY <1>4, <2>2, <2>4 DEF RowAdvances
  <2>6. CASE NextCall(r) = "idle"
    <3>1. rt' = RtIdle
      BY <1>4, <2>6 DEF Checkpoint
    <3>2. rt' \in Reconciler /\ rt'.pc = "idle" /\ rt'.status = "none"
      BY <1>1, <3>1, ReconcilerFacts DEF RtIdle
    <3>3. SnapshotKnown' /\ PlaceKnown'
      BY <3>2 DEF SnapshotKnown, PlaceKnown
    <3> QED BY <2>2, <2>5, <3>2, <3>3, QuietInv
  <2>7. CASE NextCall(r) # "idle"
    <3>1. rt' = [r EXCEPT !.pc = NextCall(r)]
      BY <1>4, <2>7 DEF Checkpoint
    <3>2. NextCall(r) \in {"log", "scan", "scan_credential", "manifest", "sbom",
                           "provenance", "send"}
      BY <1>2, <2>7, NextCallFacts
    <3>3. /\ rt' \in Reconciler /\ rt'.pc = NextCall(r) /\ rt'.status = r.status
          /\ rt'.result = r.result /\ rt'.done = r.done /\ rt'.scan = r.scan
      BY <1>1, <3>1, <3>2 DEF Reconciler
    <3>4. SnapshotKnown'
      BY <1>1, <2>2, <2>3, <3>2, <3>3 DEF SnapshotKnown, Evidenced, RowKnown
    <3>5. PlaceKnown'
      BY <1>2, <3>2, <3>3, NextCallFacts DEF PlaceKnown
    <3> QED BY <2>2, <2>5, <3>2, <3>3, <3>4, <3>5, QuietInv
  <2> QED BY <2>6, <2>7
<1> QED BY <1>3, <1>4

LEMMA SnapshotInv ==
    ASSUME BuildAssumption, BuildInv, Snapshot
    PROVE  BuildInv'
<1>1. BuildTypeOK /\ RowKnown
  BY DEF BuildInv
<1>2. Quiet /\ UNCHANGED <<op, live, log, stored, faults>>
  BY DEF Snapshot, Quiet, cluster
<1>3. /\ op.status \in {"running", "result_pending", "canceling"}
      /\ rt' = [pc |-> "pending", status |-> op.status, cred |-> op.cred, scanCred |-> 0,
                result |-> op.result, done |-> op.done, scan |-> op.scan, log |-> Nothing]
  BY DEF Snapshot, RtIdle
<1>4. rt' \in Reconciler
  <2>1. Nothing \in Contents /\ op \in Operation
    BY <1>1, ContentsFacts DEF BuildTypeOK
  <2> QED BY <1>3, <2>1 DEF Operation, Reconciler, Creds
<1>5. SnapshotKnown'
  BY <1>1, <1>2, <1>3 DEF SnapshotKnown, RowKnown, Evidenced
<1>6. PlaceKnown'
  BY <1>3 DEF PlaceKnown
<1>7. EvidenceGrows /\ RowAdvances
  BY <1>2 DEF EvidenceGrows, RowAdvances
<1> QED BY <1>1, <1>2, <1>3, <1>4, <1>5, <1>6, <1>7, RowTyped, QuietInv

LEMMA BeginInv ==
    ASSUME BuildAssumption, BuildInv, Begin
    PROVE  BuildInv'
<1>1. BuildTypeOK /\ SnapshotKnown /\ PlaceKnown /\ rt \in Reconciler /\ rt.scan \in Scans
  BY RowTyped DEF BuildInv
<1>2. Quiet /\ UNCHANGED <<op, live, log, stored, faults>>
  BY DEF Begin, Quiet, cluster
<1>3. EvidenceGrows /\ RowAdvances
  BY <1>2 DEF EvidenceGrows, RowAdvances
<1> DEFINE goes == CASE rt.status = "running" -> "observe"
                   [] rt.status = "canceling" -> "remove"
                   [] OTHER -> NextCall(rt)
<1>4. CASE goes = "idle"
  <2>1. rt' = RtIdle
    BY <1>4 DEF Begin
  <2> QED BY <1>1, <1>2, <1>3, <2>1, RowTyped, QuietDefers DEF Defer
<1>5. CASE goes # "idle"
  <2>1. rt' = [rt EXCEPT !.pc = goes] /\ rt.pc = "pending"
    BY <1>5 DEF Begin
  <2>2. \/ rt.status = "running" /\ goes = "observe"
        \/ rt.status = "canceling" /\ goes = "remove"
        \/ rt.status = "result_pending" /\ goes = NextCall(rt)
    BY <1>1, <2>1 DEF SnapshotKnown, Reconciler
  <2>3. goes \in {"observe", "remove", "log", "scan", "scan_credential", "manifest", "sbom",
                "provenance", "send"}
    BY <1>1, <1>5, <2>2, NextCallFacts
  <2> HIDE DEF goes
  <2>4. /\ rt' \in Reconciler /\ rt'.pc = goes /\ rt'.status = rt.status
        /\ rt'.result = rt.result /\ rt'.done = rt.done /\ rt'.scan = rt.scan
        /\ rt'.log = rt.log
    BY <1>1, <2>1, <2>3 DEF Reconciler
  <2>5. SnapshotKnown'
    BY <1>1, <1>2, <2>1, <2>3, <2>4 DEF SnapshotKnown, Evidenced
  <2>6. PlaceKnown'
    BY <1>1, <2>2, <2>3, <2>4, NextCallFacts DEF PlaceKnown
  <2>7. rt'.pc \in {"remove", "revoke"} => rt'.status = "canceling"
    BY <1>1, <2>2, <2>4, NextCallFacts
  <2> QED BY <1>1, <1>2, <1>3, <2>4, <2>5, <2>6, <2>7, RowTyped, QuietInv
<1> QED BY <1>4, <1>5

\* The observation of a Job ends, or nothing was learned.
LEMMA ObserveNothingInv ==
    ASSUME BuildAssumption, BuildInv, ObserveNothing
    PROVE  BuildInv'
<1>1. Quiet /\ UNCHANGED <<op, live, log, stored, faults>> /\ Defer
  BY DEF ObserveNothing, Quiet, cluster
<1>2. EvidenceGrows
  BY <1>1 DEF EvidenceGrows
<1> QED BY <1>1, <1>2, RowTyped, QuietDefers DEF BuildInv

\* The reconciler gives a running operation up, or asks for its logs.
LEMMA GivesUpInv ==
    ASSUME BuildAssumption, BuildInv, Quiet, UNCHANGED <<live, log, stored, faults>>,
           rt.pc \in {"observe", "logs"}, NEW c \in Given, NEW k \in Creds,
           rt' = Lost(c, k) \/ rt' = [rt EXCEPT !.pc = "logs"],
           op' \in Operation, op'.status = op.status, op'.result = op.result,
           op'.done = op.done, op'.scan = op.scan
    PROVE  BuildInv'
<1>1. BuildTypeOK /\ SnapshotKnown /\ PlaceKnown /\ RowKnown /\ rt \in Reconciler
  BY RowTyped DEF BuildInv
<1>2. rt.status = "running" /\ c \in Contents
  BY <1>1, ContentsFacts DEF PlaceKnown, Given, BuildTypeOK
<1>3. /\ rt' \in Reconciler /\ rt'.status = "running" /\ rt'.pc \in {"log", "logs"}
      /\ rt'.pc = "log" => rt'.log \in Given
  BY <1>1, <1>2 DEF Lost, Reconciler
<1>4. SnapshotKnown'
  BY <1>1, <1>2, <1>3 DEF SnapshotKnown
<1>5. PlaceKnown'
  BY <1>3 DEF PlaceKnown
<1>6. EvidenceGrows
  BY DEF EvidenceGrows
<1>7. BuildTypeOK' /\ InputsKnown' /\ UNCHANGED toldVars /\ UNCHANGED archive
  BY <1>1, <1>3, ReconcilerTypes, RowTyped DEF Quiet, BuildInv, InputsKnown, toldVars
<1>8. RowAdvances
  BY DEF RowAdvances
<1> QED BY <1>1, <1>3, <1>4, <1>5, <1>6, <1>7, <1>8, ReconcilesInv

LEMMA ObserveInv ==
    ASSUME BuildAssumption, BuildInv, Observe
    PROVE  BuildInv'
<1>1. BuildTypeOK /\ op \in Operation /\ op.cred \in Creds /\ rt.cred \in Creds
  BY RowTyped DEF BuildInv
<1>2. Quiet /\ UNCHANGED <<live, log, stored, faults>>
  BY DEF Observe, ObserveLost, ObserveFailed, ReadLogs, ObserveComplete, Quiet, cluster
<1>3. rt.pc \in {"observe", "logs"}
  BY DEF Observe, ObserveLost, ObserveFailed, ReadLogs, ObserveComplete
<1>4. /\ op' \in Operation /\ op'.status = op.status /\ op'.result = op.result
      /\ op'.done = op.done /\ op'.scan = op.scan
  <2>1. CASE UNCHANGED op
    BY <1>1, <2>1
  <2>2. CASE op' = [op EXCEPT !.seen = @ \/ op.status = "running"]
    <3>1. (op.seen \/ op.status = "running") \in BOOLEAN
      OBVIOUS
    <3> QED BY <1>1, <2>2, <3>1 DEF Operation
  <2> QED BY <2>1, <2>2 DEF Observe, ObserveLost, ObserveFailed, ReadLogs, ObserveComplete
<1>5. CASE \E c \in Given, k \in Creds : rt' = Lost(c, k)
  BY <1>2, <1>3, <1>4, <1>5, GivesUpInv
<1>6. CASE rt' = [rt EXCEPT !.pc = "logs"]
  BY <1>1, <1>2, <1>3, <1>4, <1>6, GivesUpInv DEF Given
<1>7. CASE rt' = RtIdle
  <2>1. SnapshotKnown' /\ PlaceKnown' /\ rt'.pc = "idle"
    BY <1>7 DEF SnapshotKnown, PlaceKnown, RtIdle
  <2>2. rt' \in Reconciler
    BY <1>1, <1>7, RowTyped, ReconcilerFacts
  <2>3. EvidenceGrows /\ RowAdvances
    BY <1>2, <1>4 DEF EvidenceGrows, RowAdvances
  <2> QED BY <1>1, <1>2, <1>4, <2>1, <2>2, <2>3, RowTyped, QuietInv
<1>8. \/ \E c \in Given, k \in Creds : rt' = Lost(c, k)
      \/ rt' = [rt EXCEPT !.pc = "logs"]
      \/ rt' = RtIdle
  <2>1. Stamped \in Given /\ PodLogs \in Given
    BY DEF Given
  <2>2. CASE ObserveLost
    BY <1>1, <2>1, <2>2 DEF ObserveLost
  <2>3. CASE ObserveFailed
    BY <2>3 DEF ObserveFailed
  <2>4. CASE ReadLogs
    BY <1>1, <2>1, <2>4 DEF ReadLogs
  <2>5. CASE ObserveComplete
    BY <1>1, <2>1, <2>5 DEF ObserveComplete
  <2> QED BY <2>2, <2>3, <2>4, <2>5 DEF Observe
<1> QED BY <1>5, <1>6, <1>7, <1>8

\* The log of the outcome goes first.
LEMMA UploadLogInv ==
    ASSUME BuildAssumption, BuildInv, UploadLog
    PROVE  BuildInv'
<1>1. /\ BuildTypeOK /\ SnapshotKnown /\ PlaceKnown /\ RowKnown
      /\ rt \in Reconciler /\ rt.pc = "log"
  BY RowTyped DEF BuildInv, UploadLog
<1>2. Quiet /\ UNCHANGED <<live, stored>> /\ faults' \in Mishaps
  BY <1>1, FaultFacts, RowTyped DEF UploadLog, Quiet, cluster, Call
<1>3. LogContent \in Contents
  BY <1>1, RowTyped DEF LogContent
<1>4. /\ log' = log \/ log' = LogContent
      /\ EvidenceGrows
  BY <1>1, <1>2 DEF UploadLog, Call, Fits, EvidenceGrows
<1>5. log' \in Contents
  BY <1>1, <1>3, <1>4, RowTyped
<1>6. CASE Defer /\ UNCHANGED op
  BY <1>1, <1>2, <1>4, <1>5, <1>6, RowTyped, QuietDefers
<1>7. CASE /\ rt.status = "running" /\ log' = LogContent
           /\ rt' = [rt EXCEPT !.pc = "send"] /\ UNCHANGED op
  <2>1. /\ rt' \in Reconciler /\ rt'.pc = "send" /\ rt'.status = "running" /\ rt'.log = rt.log
        /\ log' = rt.log
    BY <1>1, <1>7 DEF Reconciler, LogContent
  <2>2. SnapshotKnown' /\ PlaceKnown'
    BY <1>1, <1>7, <2>1 DEF SnapshotKnown, PlaceKnown
  <2>3. RowAdvances
    BY <1>7 DEF RowAdvances
  <2> QED BY <1>1, <1>2, <1>4, <1>5, <1>7, <2>1, <2>2, <2>3, RowTyped, QuietInv
<1>8. CASE /\ rt.status # "running" /\ log' = LogContent
           /\ Checkpoint([rt EXCEPT !.done = @ \cup {"log"}])
  <2>1. rt.status = "result_pending"
    BY <1>1, <1>8 DEF SnapshotKnown, PlaceKnown, Reconciler
  <2>2. PICK r : r = [rt EXCEPT !.done = @ \cup {"log"}]
    OBVIOUS
  <2>3. /\ r \in Reconciler /\ r.status = "result_pending" /\ r.result = rt.result
        /\ r.scan = rt.scan /\ r.done = rt.done \cup {"log"}
    BY <1>1, <2>1, <2>2 DEF Reconciler, Checkpoints
  <2>4. Checkpoint(r)
    BY <1>8, <2>2
  <2>5. log' = r.result
    BY <1>8, <2>3 DEF LogContent
  <2>6. /\ "manifest" \in r.done => "manifest" \in stored'
        /\ "evidence" \in r.done => {"sbom", "scan"} \subseteq stored'
        /\ "provenance" \in r.done => "provenance" \in stored'
    BY <1>1, <1>2, <2>1, <2>3 DEF SnapshotKnown, Evidenced
  <2>7. op.status = "result_pending" => r.scan = op.scan
    BY <1>1, <2>1, <2>3 DEF SnapshotKnown
  <2> QED BY <1>1, <1>2, <1>4, <1>5, <2>1, <2>3, <2>4, <2>5, <2>6, <2>7, RowTyped, CheckpointInv
<1> QED BY <1>6, <1>7, <1>8 DEF UploadLog, Call

\* What stays while the evidence other than the log grows.
LEMMA UploadGrows ==
    ASSUME BuildInv, UNCHANGED log, stored \subseteq stored', rt.status = "result_pending"
    PROVE  /\ EvidenceGrows /\ log' \in Contents
           /\ "log" \in rt.done => log' = rt.result
           /\ "manifest" \in rt.done => "manifest" \in stored'
           /\ "evidence" \in rt.done => {"sbom", "scan"} \subseteq stored'
           /\ "provenance" \in rt.done => "provenance" \in stored'
           /\ rt.pc # "unscan" /\ op.status = "result_pending" => rt.scan = op.scan
  BY RowTyped DEF BuildInv, SnapshotKnown, Evidenced, EvidenceGrows

\* An upload of the other evidence, with its checkpoint.
LEMMA UploadInv ==
    ASSUME BuildAssumption, BuildInv, rt.status = "result_pending", rt.pc # "unscan",
           NEW n \in {"manifest", "sbom", "scan", "provenance"},
           NEW k \in {"manifest", "evidence", "provenance"},
           k = "manifest" => n = "manifest",
           k = "evidence" => n = "scan" /\ "sbom" \in stored,
           k = "provenance" => n = "provenance",
           Upload(n, Checkpoint([rt EXCEPT !.done = @ \cup {k}]))
    PROVE  BuildInv'
<1>1. BuildTypeOK /\ rt \in Reconciler
  BY RowTyped DEF BuildInv
<1>2. Quiet /\ UNCHANGED <<live, log>> /\ faults' \in Mishaps
  BY <1>1, FaultFacts, RowTyped DEF Upload, Quiet, cluster, Call
<1>3. stored \subseteq stored' /\ stored' \subseteq {"manifest", "sbom", "scan", "provenance"}
  BY <1>1, RowTyped DEF Upload, Call
<1>4. CASE Defer /\ UNCHANGED op
  BY <1>1, <1>2, <1>3, <1>4, UploadGrows, RowTyped, QuietDefers
<1>5. CASE n \in stored' /\ Checkpoint([rt EXCEPT !.done = @ \cup {k}])
  <2>1. PICK r : r = [rt EXCEPT !.done = @ \cup {k}]
    OBVIOUS
  <2>2. /\ r \in Reconciler /\ r.status = "result_pending" /\ r.result = rt.result
        /\ r.scan = rt.scan /\ r.done = rt.done \cup {k}
    BY <1>1, <2>1 DEF Reconciler, Checkpoints
  <2>3. Checkpoint(r)
    BY <1>5, <2>1
  <2>4. /\ "log" \in r.done => log' = r.result
        /\ "manifest" \in r.done => "manifest" \in stored'
        /\ "evidence" \in r.done => {"sbom", "scan"} \subseteq stored'
        /\ "provenance" \in r.done => "provenance" \in stored'
        /\ op.status = "result_pending" => r.scan = op.scan
        /\ EvidenceGrows /\ log' \in Contents
    BY <1>2, <1>3, <1>5, <2>2, UploadGrows
  <2> QED BY <1>1, <1>2, <1>3, <2>2, <2>3, <2>4, RowTyped, CheckpointInv
<1> QED BY <1>4, <1>5 DEF Upload, Call

LEMMA UploadsInv ==
    ASSUME BuildAssumption, BuildInv, PublishStatic \/ UploadScanEvidence \/ UploadProvenance
    PROVE  BuildInv'
<1>1. /\ BuildTypeOK /\ SnapshotKnown /\ PlaceKnown /\ rt \in Reconciler
      /\ rt.status = "result_pending" /\ rt.pc # "unscan"
  BY RowTyped DEF BuildInv, PlaceKnown, PublishStatic, UploadScanEvidence, UploadProvenance
<1>2. CASE PublishStatic
  BY <1>1, <1>2, UploadInv DEF PublishStatic
<1>3. CASE rt.pc = "report" /\ UploadScanEvidence
  BY <1>1, <1>3, UploadInv DEF UploadScanEvidence, PlaceKnown
<1>4. CASE UploadProvenance
  BY <1>1, <1>4, UploadInv DEF UploadProvenance
<1>5. CASE rt.pc = "sbom" /\ UploadScanEvidence
  <2>1. Upload("sbom", rt' = [rt EXCEPT !.pc = "report"] /\ UNCHANGED op)
    BY <1>5 DEF UploadScanEvidence
  <2>2. Quiet /\ UNCHANGED <<live, log, op>> /\ faults' \in Mishaps
    BY <1>1, <2>1, FaultFacts, RowTyped DEF Upload, Quiet, cluster, Call
  <2>3. stored \subseteq stored' /\ stored' \subseteq {"manifest", "sbom", "scan", "provenance"}
    BY <1>1, <2>1, RowTyped DEF Upload, Call
  <2>4. CASE Defer
    BY <1>1, <2>2, <2>3, <2>4, UploadGrows, RowTyped, QuietDefers
  <2>5. CASE rt' = [rt EXCEPT !.pc = "report"] /\ "sbom" \in stored'
    <3>1. /\ rt' \in Reconciler /\ rt'.pc = "report" /\ rt'.status = rt.status
          /\ rt'.result = rt.result /\ rt'.done = rt.done /\ rt'.scan = rt.scan
      BY <1>1, <2>5 DEF Reconciler
    <3>2. SnapshotKnown' /\ PlaceKnown'
      BY <1>1, <1>5, <2>2, <2>3, <2>5, <3>1, UploadGrows
      DEF SnapshotKnown, PlaceKnown, Evidenced
    <3>3. RowAdvances
      BY <2>2 DEF RowAdvances
    <3> QED BY <1>1, <2>2, <2>3, <3>1, <3>2, <3>3, UploadGrows, RowTyped, QuietInv
  <2> QED BY <2>1, <2>4, <2>5 DEF Upload, Call
<1> QED BY <1>2, <1>3, <1>4, <1>5 DEF UploadScanEvidence

\* The reconciler moves on in a result while it keeps everything it took.
LEMMA MovesInv ==
    ASSUME BuildInv, Quiet, UNCHANGED <<op, log, stored>>, faults' \in Mishaps,
           live' \subseteq CredIds, rt' \in Reconciler, rt.status = "result_pending",
           rt'.status = "result_pending", rt'.result = rt.result, rt'.done = rt.done,
           rt'.pc \in {"scan", "unscan"},
           rt'.pc = "scan" => rt.pc = "scan_credential" /\ rt'.scan = rt.scan,
           rt'.pc = "unscan" => rt.pc = "scan"
    PROVE  BuildInv'
<1>1. SnapshotKnown /\ PlaceKnown /\ BuildTypeOK
  BY DEF BuildInv
<1>2. SnapshotKnown'
  BY <1>1 DEF SnapshotKnown, Evidenced
<1>3. PlaceKnown'
  BY <1>1 DEF PlaceKnown, SnapshotKnown
<1>4. EvidenceGrows /\ RowAdvances
  BY DEF EvidenceGrows, RowAdvances
<1> QED BY <1>1, <1>2, <1>3, <1>4, RowTyped, QuietInv

LEMMA ScanCredentialInv ==
    ASSUME BuildAssumption, BuildInv, ScanCredential
    PROVE  BuildInv'
<1>1. BuildTypeOK /\ rt \in Reconciler /\ rt.status = "result_pending"
  BY RowTyped DEF BuildInv, PlaceKnown, ScanCredential
<1>2. Quiet /\ UNCHANGED <<op, log, stored>> /\ faults' \in Mishaps
  BY <1>1, FaultFacts DEF ScanCredential, Quiet, cluster, Call
<1>3. live' \subseteq CredIds
  BY <1>1, RowTyped DEF ScanCredential, Call, NewCreds
<1>4. CASE Defer
  BY <1>1, <1>2, <1>3, <1>4, UploadGrows, RowTyped, QuietDefers
<1>5. ASSUME NEW c \in CredIds, rt' = [rt EXCEPT !.pc = "scan", !.scanCred = c]
      PROVE  BuildInv'
  <2>1. /\ rt' \in Reconciler /\ rt'.pc = "scan" /\ rt'.status = rt.status
        /\ rt'.result = rt.result /\ rt'.done = rt.done /\ rt'.scan = rt.scan
    BY <1>1, <1>5 DEF Reconciler, Creds
  <2> QED BY <1>1, <1>2, <1>3, <2>1, MovesInv DEF ScanCredential
<1> QED BY <1>4, <1>5 DEF ScanCredential, Call, NewCreds

\* The verdict of a scan is checkpointed.
LEMMA ScannedInv ==
    ASSUME BuildAssumption, BuildInv, Quiet, UNCHANGED <<log, stored>>,
           faults' \in Mishaps, live' \subseteq CredIds,
           rt.status = "result_pending", rt.pc \in {"scan", "unscan"},
           NEW r \in Reconciler, Checkpoint(r), r.status = "result_pending",
           r.result = rt.result, r.done = rt.done
    PROVE  BuildInv'
<1>1. BuildTypeOK /\ SnapshotKnown /\ PlaceKnown
  BY DEF BuildInv
<1>2. op.status = "result_pending" => op.scan = "none"
  BY <1>1 DEF SnapshotKnown, PlaceKnown
<1> QED BY <1>1, <1>2, UploadGrows, RowTyped, CheckpointInv

LEMMA ScanInv ==
    ASSUME BuildAssumption, BuildInv, Scan
    PROVE  BuildInv'
<1>1. /\ BuildTypeOK /\ rt \in Reconciler /\ rt.status = "result_pending" /\ rt.pc = "scan"
      /\ live \subseteq CredIds
  BY RowTyped DEF BuildInv, PlaceKnown, Scan
<1>2. Quiet /\ UNCHANGED <<live, log, stored>> /\ faults' \in Mishaps
  BY <1>1, FaultFacts DEF Scan, Quiet, cluster
<1>3. CASE Defer /\ UNCHANGED op
  BY <1>1, <1>2, <1>3, UploadGrows, RowTyped, QuietDefers
<1>4. ASSUME NEW s \in Scans, Checkpoint([rt EXCEPT !.scan = s])
      PROVE  BuildInv'
  <2>1. PICK r : r = [rt EXCEPT !.scan = s]
    OBVIOUS
  <2>2. /\ r \in Reconciler /\ r.status = "result_pending" /\ r.result = rt.result
        /\ r.done = rt.done
    BY <1>1, <2>1 DEF Reconciler
  <2>3. Checkpoint(r)
    BY <1>4, <2>1
  <2> QED BY <1>1, <1>2, <2>2, <2>3, ScannedInv
<1>5. ASSUME UNCHANGED op, NEW s \in Scans,
             rt' = [rt EXCEPT !.pc = "unscan", !.scan = s] \/ rt' = [rt EXCEPT !.pc = "unscan"]
      PROVE  BuildInv'
  <2>1. /\ rt' \in Reconciler /\ rt'.pc = "unscan" /\ rt'.status = rt.status
        /\ rt'.result = rt.result /\ rt'.done = rt.done
    BY <1>1, <1>5 DEF Reconciler
  <2> QED BY <1>1, <1>2, <1>5, <2>1, MovesInv
<1>6. {"none", "passed", "rejected"} = Scans
  BY DEF Scans
<1> QED BY <1>3, <1>4, <1>5, <1>6 DEF Scan

LEMMA ScanDoneInv ==
    ASSUME BuildAssumption, BuildInv, ScanDone
    PROVE  BuildInv'
<1>1. /\ BuildTypeOK /\ rt \in Reconciler /\ rt.status = "result_pending" /\ rt.pc = "unscan"
  BY RowTyped DEF BuildInv, PlaceKnown, ScanDone
<1>2. Quiet /\ UNCHANGED <<log, stored>> /\ faults' \in Mishaps
  BY <1>1, FaultFacts DEF ScanDone, Quiet, cluster, RevokeCredential, Call
<1>3. live' \subseteq CredIds
  BY <1>1, RowTyped DEF ScanDone, RevokeCredential, Call
<1>4. CASE Defer /\ UNCHANGED op
  BY <1>1, <1>2, <1>3, <1>4, UploadGrows, RowTyped, QuietDefers
<1>5. CASE Checkpoint([rt EXCEPT !.scanCred = 0])
  <2>1. PICK r : r = [rt EXCEPT !.scanCred = 0]
    OBVIOUS
  <2>2. /\ r \in Reconciler /\ r.status = "result_pending" /\ r.result = rt.result
        /\ r.done = rt.done
    BY <1>1, <2>1 DEF Reconciler, Creds
  <2>3. Checkpoint(r)
    BY <1>5, <2>1
  <2> QED BY <1>1, <1>2, <1>3, <2>2, <2>3, ScannedInv
<1> QED BY <1>4, <1>5 DEF ScanDone, RevokeCredential, Call

-----------------------------------------------------------------------------
(***************************************************************************)
(* The outcome.                                                            *)
(***************************************************************************)
Sent(r) == IF Verdict(r) = "failed" THEN "failed" ELSE "succeeded"

\* Before the event is sent: what is reported is borne out by the log, the row
\* and the evidence, and the control plane was told nothing else before.
LEMMA ReportIsBorneOut ==
    ASSUME BuildAssumption, BuildInv, rt.pc = "send"
    PROVE  /\ Verdict(rt) \in {"completed", "failed"}
           /\ Verdict(rt) = "completed" =>
                /\ rt.status = "result_pending" /\ log = rt.result
                /\ rt.result.status = "completed" /\ rt.scan = "passed"
                /\ {"sbom", "scan", "provenance"} \subseteq stored
                /\ Workload = "static" => "manifest" \in stored
           /\ ~cp.cancel =>
                /\ op.status \in {"running", "result_pending"}
                /\ Verdict(rt) = "completed" =>
                     op.status = "result_pending" /\ op.result = rt.result /\ op.scan = "passed"
                /\ Verdict(rt) = "failed" =>
                     \/ log \in Given
                     \/ /\ op.status = "result_pending" /\ log = op.result
                        /\ op.result.status = "failed" \/ op.scan = "rejected"
                /\ cp.build \in {"running", Sent(rt)}
<1>1. /\ BuildTypeOK /\ RowKnown /\ SnapshotKnown /\ PlaceKnown /\ OutcomeKnown
      /\ rt \in Reconciler /\ rt.scan \in Scans
  BY RowTyped DEF BuildInv
<1>2. rt.status \in {"running", "result_pending"}
  BY <1>1 DEF PlaceKnown, SnapshotKnown, Reconciler
<1>3. Verdict(rt) \in {"completed", "failed"}
  BY DEF Verdict
<1>4. cp.build \in {"running", "succeeded", "failed"}
  BY <1>1 DEF BuildTypeOK, Build
<1>5. ASSUME ~cp.cancel PROVE op.status \in {"running", "result_pending"}
  BY <1>1, <1>2, <1>5 DEF SnapshotKnown, RowKnown
<1>6. CASE rt.status = "running"
  <2>1. log \in Given /\ log.status # "completed"
    BY <1>1, <1>6 DEF PlaceKnown, Given, Stamped, PodLogs, Content
  <2>2. Verdict(rt) = "failed"
    BY <1>6 DEF Verdict
  <2>3. ~cp.cancel => cp.build # "succeeded"
    BY <1>1, <2>1 DEF OutcomeKnown
  <2> QED BY <1>3, <1>4, <1>5, <2>1, <2>2, <2>3 DEF Sent
<1>7. CASE rt.status = "result_pending"
  <2>1. /\ log = rt.result /\ rt.result = op.result /\ rt.result.status \in Answers
        /\ ~cp.cancel => op.status = "result_pending" /\ rt.scan = op.scan
    BY <1>1, <1>7 DEF SnapshotKnown, PlaceKnown, Evidenced, RowKnown
  <2>2. log \notin Given
    BY <2>1 DEF Given, Stamped, PodLogs, Content, Answers
  <2>3. CASE Verdict(rt) = "completed"
    <3>1. rt.result.status = "completed" /\ rt.scan # "rejected"
      BY <2>3 DEF Verdict, Rejected
    <3>2. /\ rt.scan = "passed" /\ {"evidence", "provenance"} \subseteq rt.done
          /\ Workload = "static" => "manifest" \in rt.done
      BY <1>1, <1>7, <3>1 DEF PlaceKnown, Scans
    <3>3. /\ {"sbom", "scan", "provenance"} \subseteq stored
          /\ Workload = "static" => "manifest" \in stored
      BY <1>1, <1>7, <3>2 DEF SnapshotKnown, Evidenced
    <3>4. ~cp.cancel => cp.build # "failed"
      BY <1>1, <2>1, <2>2, <3>1, <3>2 DEF OutcomeKnown
    <3> QED BY <1>3, <1>4, <1>5, <1>7, <2>1, <2>3, <3>1, <3>2, <3>3, <3>4 DEF Sent
  <2>4. CASE Verdict(rt) = "failed"
    <3>1. rt.result.status = "failed" \/ rt.scan = "rejected"
      BY <1>7, <2>1, <2>4 DEF Verdict, Rejected, Answers
    <3>2. ~cp.cancel => cp.build # "succeeded"
      BY <1>1, <2>1, <3>1 DEF OutcomeKnown
    <3> QED BY <1>3, <1>4, <1>5, <2>1, <2>4, <3>1, <3>2 DEF Sent
  <2> QED BY <1>3, <2>3, <2>4
<1> QED BY <1>2, <1>6, <1>7

LEMMA SendBuildEventInv ==
    ASSUME BuildAssumption, BuildInv, SendBuildEvent
    PROVE  BuildInv'
<1>1. /\ BuildTypeOK /\ InputsKnown /\ RowKnown /\ SnapshotKnown /\ PlaceKnown /\ OutcomeKnown
      /\ PublishedIsEvidenced /\ OutcomeAgrees /\ ArchiveIsResults
      /\ rt \in Reconciler /\ rt.pc = "send" /\ rt.result \in Contents /\ rt.scan \in Scans
  BY RowTyped DEF BuildInv, SendBuildEvent
<1>2. /\ UNCHANGED <<op, archive, live, log, stored, job, secret, pods, inflight, ct>>
      /\ faults' \in Mishaps
  BY <1>1, FaultFacts DEF SendBuildEvent, cluster, Call
<1>3. EvidenceGrows
  BY <1>2 DEF EvidenceGrows
<1>4. CASE UNCHANGED cp /\ Defer
  BY <1>1, <1>2, <1>3, <1>4, RowTyped, QuietDefers DEF Quiet
<1>5. CASE /\ cp' = Consumed(Sent(rt), rt.result, rt.scan)
           /\ rt' = [rt EXCEPT !.pc = "remove"] \/ rt' = RtIdle
  <2>1. /\ cp'.cancel = cp.cancel /\ cp'.stop = cp.stop /\ cp' \in Build
        /\ \/ cp' = cp /\ (cp.build # "running" \/ cp.cancel)
           \/ /\ cp.build = "running" /\ ~cp.cancel
              /\ cp'.build = Sent(rt) /\ cp'.artifact = rt.result /\ cp'.scan = rt.scan
    BY <1>1, <1>5 DEF Consumed, BuildTypeOK, Build, Sent
  <2>2. /\ rt' \in Reconciler
        /\ \/ rt' = RtIdle
           \/ /\ rt'.pc = "remove" /\ rt'.status = rt.status /\ rt'.result = rt.result
              /\ rt'.done = rt.done /\ rt'.scan = rt.scan /\ rt'.log = rt.log
    <3>1. RtIdle \in Reconciler
      BY <1>1, ReconcilerFacts
    <3>2. CASE rt' = [rt EXCEPT !.pc = "remove"]
      BY <1>1, <3>2 DEF Reconciler
    <3> QED BY <1>5, <3>1, <3>2
  <2>3. BuildTypeOK'
    BY <1>1, <1>2, <2>1, <2>2
    DEF BuildTypeOK, Contents, Build, Operation, Job, CommandTask, Reconciler
  <2>4. InputsKnown' /\ RowKnown' /\ ArchiveIsResults'
    BY <1>1, <1>2, <2>1 DEF InputsKnown, RowKnown, Evidenced, ArchiveIsResults
  <2>5. SnapshotKnown' /\ PlaceKnown'
    <3>1. CASE rt' = RtIdle
      BY <3>1 DEF SnapshotKnown, PlaceKnown, RtIdle
    <3>2. CASE rt' # RtIdle
      BY <1>1, <1>2, <2>2, <3>2 DEF SnapshotKnown, PlaceKnown, Evidenced
    <3> QED BY <3>1, <3>2
  <2>6. PublishedIsEvidenced'
    BY <1>1, <1>2, <2>1, ReportIsBorneOut DEF PublishedIsEvidenced, Sent
  <2>7. ASSUME ~cp.cancel PROVE cp'.build = Sent(rt)
    BY <1>1, <2>1, <2>7, ReportIsBorneOut
  <2>8. rt'.pc \in {"remove", "revoke"} => Verdict(rt)' = Verdict(rt)
    BY <2>2 DEF RtIdle, Verdict, Rejected
  <2>9. OutcomeKnown' /\ OutcomeAgrees'
    <3> SUFFICES ASSUME ~cp'.cancel
                 PROVE  OutcomeKnown' /\ OutcomeAgrees'
      BY DEF OutcomeKnown, OutcomeAgrees
    <3>1. ~cp.cancel /\ cp'.build = Sent(rt)
      BY <2>1, <2>7
    <3>2. OutcomeAgrees'
      BY <1>1, <1>2, <3>1, ReportIsBorneOut DEF OutcomeAgrees
    <3>3. cp'.build = "succeeded" =>
             /\ op.status = "result_pending" /\ log = op.result
             /\ op.result.status = "completed" /\ op.scan = "passed"
      BY <1>1, <3>1, ReportIsBorneOut DEF Sent
    <3>4. cp'.build = "failed" =>
             \/ log \in Given
             \/ /\ op.status = "result_pending" /\ log = op.result
                /\ op.result.status = "failed" \/ op.scan = "rejected"
      BY <1>1, <3>1, ReportIsBorneOut DEF Sent
    <3>5. OutcomeKnown'
      BY <1>2, <2>8, <3>1, <3>3, <3>4 DEF OutcomeKnown, Sent, Given
    <3> QED BY <3>2, <3>5
  <2> QED BY <2>3, <2>4, <2>5, <2>6, <2>9 DEF BuildInv
<1> QED BY <1>4, <1>5 DEF SendBuildEvent, Call, Defer, Sent

\* OperationStore.mark: the row is settled the way the control plane was told.
LEMMA MarkInv ==
    ASSUME BuildAssumption, BuildInv, rt.pc \in {"remove", "revoke"}, Mark,
           UNCHANGED <<cp, log, stored, pods, inflight, ct>>,
           job' \in {job, NoJob}, secret' \in Creds, live' \subseteq CredIds,
           faults' \in Mishaps
    PROVE  BuildInv'
<1>1. /\ BuildTypeOK /\ InputsKnown /\ RowKnown /\ SnapshotKnown /\ PlaceKnown /\ OutcomeKnown
      /\ PublishedIsEvidenced /\ OutcomeAgrees /\ ArchiveIsResults
      /\ rt \in Reconciler /\ op \in Operation /\ archive \in Contents
      /\ rt.result \in Contents /\ rt.log \in Contents
  BY RowTyped DEF BuildInv
<1>2. rt' = RtIdle /\ rt' \in Reconciler /\ rt'.pc = "idle" /\ rt'.status = "none"
  BY <1>1, ReconcilerFacts DEF Mark, RtIdle
<1>3. SnapshotKnown' /\ PlaceKnown'
  BY <1>2 DEF SnapshotKnown, PlaceKnown
<1>4. job' \in Job' /\ InputsKnown'
  BY <1>1, RemovedFacts DEF InputsKnown
<1>5. ASSUME op' \in Operation, archive' \in Contents
      PROVE  BuildTypeOK'
  BY <1>1, <1>2, <1>4, <1>5 DEF BuildTypeOK, Contents, Build, Operation, CommandTask, Reconciler
<1>6. PublishedIsEvidenced'
  BY <1>1 DEF PublishedIsEvidenced
<1>7. CASE rt.status = "canceling"
  <2>1. op' = op /\ archive' = archive
    BY <1>7 DEF Mark
  <2>2. RowKnown' /\ OutcomeKnown' /\ OutcomeAgrees' /\ ArchiveIsResults'
    BY <1>1, <1>2, <2>1
    DEF RowKnown, Evidenced, OutcomeKnown, OutcomeAgrees, ArchiveIsResults
  <2> QED BY <1>1, <1>3, <1>4, <1>5, <1>6, <2>1, <2>2 DEF BuildInv
<1>8. CASE rt.status # "canceling"
  <2>1. /\ op' = [op EXCEPT !.status = Verdict(rt), !.done = {}, !.scan = "none",
                            !.result = IF rt.status = "running" THEN rt.log ELSE rt.result]
        /\ archive' = Nothing
    BY <1>8 DEF Mark
  <2>2. Verdict(rt) \in {"completed", "failed"}
    BY DEF Verdict
  <2>3. /\ op' \in Operation /\ op'.status = Verdict(rt) /\ op'.done = {}
        /\ op'.result = IF rt.status = "running" THEN rt.log ELSE rt.result
        /\ archive' \in Contents
    BY <1>1, <2>1, <2>2, ContentsFacts DEF Operation, Operations, Scans, BuildTypeOK
  <2>4. RowKnown' /\ ArchiveIsResults'
    BY <2>2, <2>3 DEF RowKnown, Evidenced, ArchiveIsResults
  <2>5. OutcomeKnown' /\ OutcomeAgrees'
    <3> SUFFICES ASSUME ~cp.cancel
                 PROVE  OutcomeKnown' /\ OutcomeAgrees'
      BY DEF OutcomeKnown, OutcomeAgrees
    <3>1. cp.build = Sent(rt)
      BY <1>1, <1>8 DEF OutcomeKnown, Sent
    <3>2. OutcomeAgrees'
      BY <2>3, <3>1 DEF OutcomeAgrees, Sent
    <3>3. CASE Verdict(rt) = "completed"
      <4>1. rt.status = "result_pending"
        BY <1>1, <1>8, <3>3 DEF Verdict, SnapshotKnown, Reconciler
      <4>2. op'.result = op.result /\ log = op.result /\ op.result.status = "completed"
        BY <1>1, <2>3, <3>1, <3>3, <4>1 DEF SnapshotKnown, OutcomeKnown, Sent
      <4> QED BY <1>2, <2>3, <3>1, <3>2, <3>3, <4>2 DEF OutcomeKnown, Sent
    <3>4. CASE Verdict(rt) = "failed"
      <4>1. cp.build = "failed"
        BY <3>1, <3>4 DEF Sent
      <4>2. CASE rt.status = "running"
        <5>1. log \in Given
          BY <1>1, <4>2 DEF PlaceKnown
        <5> QED BY <1>2, <3>2, <4>1, <5>1 DEF OutcomeKnown, Given
      <4>3. CASE rt.status = "result_pending"
        <5>1. op'.result = op.result
          BY <1>1, <2>3, <4>3 DEF SnapshotKnown
        <5>2. log \in Given \/ log = op.result
          BY <1>1, <4>1 DEF OutcomeKnown
        <5> QED BY <1>2, <2>3, <3>2, <3>4, <4>1, <5>1, <5>2 DEF OutcomeKnown, Given
      <4>4. rt.status \in {"running", "result_pending"}
        BY <1>1, <1>8 DEF SnapshotKnown, Reconciler
      <4> QED BY <4>2, <4>3, <4>4
    <3> QED BY <2>2, <3>2, <3>3, <3>4
  <2> QED BY <1>3, <1>4, <1>5, <1>6, <2>3, <2>4, <2>5 DEF BuildInv
<1> QED BY <1>7, <1>8

LEMMA CleanupInv ==
    ASSUME BuildAssumption, BuildInv, CleanupRemoves \/ CleanupRevokes
    PROVE  BuildInv'
<1>1. /\ BuildTypeOK /\ InputsKnown /\ SnapshotKnown /\ PlaceKnown
      /\ rt \in Reconciler /\ rt.pc \in {"remove", "revoke"}
      /\ live \subseteq CredIds /\ secret \in Creds
  BY RowTyped DEF BuildInv, BuildTypeOK, CleanupRemoves, CleanupRevokes
<1>2. UNCHANGED <<cp, log, stored, pods, inflight, ct>> /\ faults' \in Mishaps
  BY <1>1, FaultFacts DEF CleanupRemoves, CleanupRevokes, cluster, Remove, RevokeCredential, Call
<1>3. job' \in {job, NoJob} /\ secret' \in Creds /\ live' \subseteq CredIds
  BY <1>1 DEF CleanupRemoves, CleanupRevokes, cluster, Remove, RevokeCredential, Call, Creds
<1>4. CASE Mark
  BY <1>1, <1>2, <1>3, <1>4, MarkInv
<1>5. ASSUME rt' \in Reconciler
      PROVE  /\ UNCHANGED <<op, archive>> => BuildTypeOK'
             /\ InputsKnown'
  <2>1. job' \in Job' /\ InputsKnown'
    BY <1>1, <1>2, <1>3, RemovedFacts DEF InputsKnown
  <2> QED BY <1>1, <1>2, <1>3, <1>5, <2>1
      DEF BuildTypeOK, Contents, Build, Operation, CommandTask, Reconciler
<1>6. EvidenceGrows /\ UNCHANGED toldVars
  BY <1>2 DEF EvidenceGrows, toldVars
<1>7. CASE UNCHANGED <<op, archive>> /\ rt' = RtIdle
  <2>1. rt' \in Reconciler /\ rt'.pc = "idle"
    BY <1>1, <1>7, ReconcilerFacts DEF RtIdle
  <2>2. SnapshotKnown' /\ PlaceKnown' /\ RowAdvances
    BY <1>7 DEF SnapshotKnown, PlaceKnown, RtIdle, RowAdvances
  <2> QED BY <1>5, <1>6, <1>7, <2>1, <2>2, ReconcilesInv
<1>8. CASE UNCHANGED <<op, archive>> /\ rt' = [rt EXCEPT !.pc = "revoke"]
  <2>1. /\ rt' \in Reconciler /\ rt'.pc = "revoke" /\ rt'.status = rt.status
        /\ rt'.result = rt.result /\ rt'.done = rt.done /\ rt'.scan = rt.scan
        /\ rt'.log = rt.log
    BY <1>1, <1>8 DEF Reconciler
  <2>2. SnapshotKnown' /\ PlaceKnown' /\ RowAdvances
    BY <1>1, <1>2, <1>8, <2>1 DEF SnapshotKnown, PlaceKnown, Evidenced, RowAdvances
  <2>3. Verdict(rt)' = Verdict(rt)
    BY <2>1 DEF Verdict, Rejected
  <2> QED BY <1>1, <1>5, <1>6, <1>8, <2>1, <2>2, <2>3, ReconcilesInv
<1> QED BY <1>4, <1>7, <1>8 DEF CleanupRemoves, CleanupRevokes, Remove, RevokeCredential, Call, Later, Defer

\* The process dies: the row, the archive and the evidence stay.
LEMMA CrashInv ==
    ASSUME BuildAssumption, BuildInv, Crash
    PROVE  BuildInv'
<1>1. /\ BuildTypeOK /\ rt' = RtIdle /\ ct' = CtIdle /\ faults' \in Mishaps
      /\ UNCHANGED <<cp, op, archive, live, log, stored, job, secret, pods, inflight>>
  BY FaultFacts DEF BuildInv, Crash, cluster
<1>2. rt' \in Reconciler /\ ct' \in CommandTask
  BY <1>1, RowTyped, ReconcilerFacts, CommandTaskFacts
<1>3. BuildTypeOK' /\ EvidenceGrows
  BY <1>1, <1>2 DEF BuildTypeOK, Contents, Build, Operation, Job, CommandTask, Reconciler,
                    EvidenceGrows
<1> QED BY <1>1, <1>3, DefersInv

-----------------------------------------------------------------------------
(***************************************************************************)
(* The specification.                                                      *)
(***************************************************************************)
LEMMA StutterInv == BuildInv /\ UNCHANGED vars => BuildInv'
<1> SUFFICES ASSUME BuildInv, UNCHANGED vars PROVE BuildInv'
  OBVIOUS
<1>1. UNCHANGED <<cp, op, archive, live, log, stored, job, secret, pods, inflight, ct, rt, faults>>
  BY DEF vars
<1>2. BuildTypeOK' /\ InputsKnown'
  BY <1>1 DEF BuildInv, BuildTypeOK, InputsKnown, Contents, Build, Operation, Job,
              CommandTask, Reconciler
<1> QED BY <1>1, <1>2, ElsewhereInv DEF toldVars

LEMMA NextInv == BuildAssumption /\ BuildInv /\ [Next]_vars => BuildInv'
<1> SUFFICES ASSUME BuildAssumption, BuildInv, [Next]_vars PROVE BuildInv'
  OBVIOUS
<1>1. CASE RequestCancel
  BY <1>1, RequestCancelInv
<1>2. CASE Commands
  BY <1>2, ClaimInv, CommandsElsewhere, DispatchesInv, CancelRemovesInv, FinalizeCommandInv
  DEF Commands
<1>3. CASE Work
  BY <1>3, PhasesInv, SendResultInv DEF Work
<1>4. CASE AcceptResult
  BY <1>4, AcceptResultInv
<1>5. CASE DeadlineExceeded \/ Expire \/ SandboxLost
  BY <1>5, SandboxEndsInv
<1>6. CASE Snapshot \/ Begin \/ Observe \/ ObserveNothing
  BY <1>6, SnapshotInv, BeginInv, ObserveInv, ObserveNothingInv
<1>7. CASE Process
  BY <1>7, UploadLogInv, ScanCredentialInv, ScanInv, ScanDoneInv, UploadsInv,
     SendBuildEventInv, CleanupInv DEF Process
<1>8. CASE Crash
  BY <1>8, CrashInv
<1>9. CASE UNCHANGED vars
  BY <1>9, StutterInv
<1> QED BY <1>1, <1>2, <1>3, <1>4, <1>5, <1>6, <1>7, <1>8, <1>9 DEF Next

\* BuildInv holds in every state, whatever is refused, unanswered or cut short,
\* and however often.
THEOREM BuildInvariant == BuildAssumption => (Spec => []BuildInv)
<1> SUFFICES ASSUME BuildAssumption PROVE Spec => []BuildInv
  OBVIOUS
<1>1. Init => BuildInv
  BY InitInv
<1>2. BuildInv /\ [Next]_vars => BuildInv'
  BY NextInv
<1> QED BY <1>1, <1>2, PTL DEF Spec

\* The row, the tasks, the Job and the evidence have their types.
THEOREM BuildTypesHold == BuildAssumption => (Spec => []BuildTypeOK)
<1>1. BuildInv => BuildTypeOK
  BY DEF BuildInv
<1> QED BY <1>1, BuildInvariant, PTL

\* A build the control plane takes for succeeded passed its scan, and its log
\* and all the evidence are in the gateway.
THEOREM PublishedHasEvidence == BuildAssumption => (Spec => []PublishedIsEvidenced)
<1>1. BuildInv => PublishedIsEvidenced
  BY DEF BuildInv
<1> QED BY <1>1, BuildInvariant, PTL

\* The controller and the control plane never settle a build differently.
THEOREM OutcomesAgree == BuildAssumption => (Spec => []OutcomeAgrees)
<1>1. BuildInv => OutcomeAgrees
  BY DEF BuildInv
<1> QED BY <1>1, BuildInvariant, PTL

\* What is scanned and published is the archive of the accepted result.
THEOREM ArchiveHolds == BuildAssumption => (Spec => [](BuildTypeOK /\ ArchiveIsResults))
<1>1. BuildInv => BuildTypeOK /\ ArchiveIsResults
  BY DEF BuildInv
<1> QED BY <1>1, BuildInvariant, PTL

-----------------------------------------------------------------------------
(***************************************************************************)
(* What a step may not do.                                                 *)
(***************************************************************************)
Keeps == op'.result = op.result

LEMMA CheckpointKeeps ==
    ASSUME BuildTypeOK, NEW r, Checkpoint(r)
    PROVE  Keeps
<1>1. op \in Operation
  BY RowTyped
<1> QED BY <1>1 DEF Checkpoint, Operation, Keeps

LEMMA CommandsKeep ==
    ASSUME BuildInv, Commands
    PROVE  Keeps
<1>1. BuildTypeOK /\ RowKnown /\ op \in Operation
  BY RowTyped DEF BuildInv
<1>2. CASE UNCHANGED op
  BY <1>2 DEF Keeps
<1>3. CASE SetRunning
  BY <1>1, <1>3 DEF SetRunning, Operation, Keeps
<1>4. CASE RegisterOperation
  <2>1. CASE op.status = "none"
    <3>1. op'.result = Nothing
      BY <1>4, <2>1 DEF RegisterOperation, NoOp
    <3> QED BY <1>1, <2>1, <3>1 DEF RowKnown, Keeps
  <2>2. CASE op.status # "none"
    BY <1>2, <1>4, <2>2 DEF RegisterOperation
  <2> QED BY <2>1, <2>2
<1>5. CASE Cancel
  <2>1. UNCHANGED op \/ op' = [op EXCEPT !.status = "canceling"]
    BY <1>5 DEF Cancel
  <2> QED BY <1>1, <1>2, <2>1 DEF Operation, Keeps
<1> QED
  BY <1>2, <1>3, <1>4, <1>5
  DEF Commands, Claim, CheckJob, CloneCredentials, RegisterCredential, FindJob, CreateSecret,
      CreateJob, UndoDispatch, CancelRemoves, CancelRevokes, FinalizeCommand

LEMMA ProcessKeeps ==
    ASSUME BuildInv, Process
    PROVE  Keeps \/ op'.status = "failed"
<1>1. /\ BuildTypeOK /\ RowKnown /\ SnapshotKnown /\ PlaceKnown
      /\ op \in Operation /\ rt \in Reconciler
  BY RowTyped DEF BuildInv
<1>2. CASE UNCHANGED op
  BY <1>2 DEF Keeps
<1>3. CASE Mark /\ rt.pc \in {"remove", "revoke"}
  <2>1. CASE rt.status = "canceling"
    BY <1>2, <1>3, <2>1 DEF Mark
  <2>2. CASE rt.status # "canceling"
    <3>1. /\ op'.status = Verdict(rt)
          /\ op'.result = IF rt.status = "running" THEN rt.log ELSE rt.result
      BY <1>1, <1>3, <2>2 DEF Mark, Operation
    <3>2. CASE Verdict(rt) = "failed"
      BY <3>1, <3>2
    <3>3. CASE Verdict(rt) # "failed" /\ rt.status = "result_pending"
      BY <1>1, <3>1, <3>3 DEF SnapshotKnown, Keeps
    <3>4. rt.status = "running" => Verdict(rt) = "failed"
      BY DEF Verdict
    <3> QED BY <1>1, <1>3, <2>2, <3>2, <3>3, <3>4 DEF SnapshotKnown, Reconciler
  <2> QED BY <2>1, <2>2
<1>4. ASSUME NEW r, Checkpoint(r) PROVE Keeps
  BY <1>1, <1>4, CheckpointKeeps
<1> QED
  BY <1>2, <1>3, <1>4
  DEF Process, UploadLog, ScanCredential, Scan, ScanDone, PublishStatic, UploadScanEvidence,
      UploadProvenance, SendBuildEvent, CleanupRemoves, CleanupRevokes, Upload, Call, Remove,
      RevokeCredential, Later

\* A result that was accepted is not replaced by that of another pod: only
\* giving up replaces it.
THEOREM ResultStays == BuildAssumption => (Spec => [][ResultStands]_vars)
<1> SUFFICES ASSUME BuildAssumption PROVE Spec => [][ResultStands]_vars
  OBVIOUS
<1>1. BuildInv /\ [Next]_vars => [ResultStands]_vars
  <2> SUFFICES ASSUME BuildInv, Next
               PROVE  ResultStands
    OBVIOUS
  <2>1. BuildTypeOK /\ RowKnown /\ op \in Operation
    BY RowTyped DEF BuildInv
  <2>2. CASE Keeps \/ op'.status = "failed"
    BY <2>2 DEF ResultStands, Keeps
  <2>3. CASE UNCHANGED op
    BY <2>2, <2>3 DEF Keeps
  <2>4. CASE Commands
    BY <2>2, <2>4, CommandsKeep
  <2>5. CASE Process
    BY <2>2, <2>5, ProcessKeeps
  <2>6. CASE AcceptResult
    <3>1. CASE op.status = "running"
      <4>1. op.result.status = "none"
        BY <2>1, <3>1 DEF RowKnown, Nothing, Content
      <4> QED BY <4>1 DEF ResultStands
    <3>2. CASE op.status # "running"
      BY <2>3, <2>6, <3>2 DEF AcceptResult, Saved
    <3> QED BY <3>1, <3>2
  <2>7. CASE ObserveComplete
    <3>1. op'.result = op.result
      BY <2>1, <2>7 DEF ObserveComplete, Operation
    <3> QED BY <2>2, <3>1 DEF Keeps
  <2>8. CASE Work \/ RequestCancel \/ DeadlineExceeded \/ Expire \/ SandboxLost \/ Snapshot
             \/ Begin \/ ObserveNothing \/ Crash \/ ObserveLost \/ ObserveFailed \/ ReadLogs
    BY <2>3, <2>8
    DEF Work, RequestCancel, PodStarts, WorkerPhase, BuildArtifact, SendResult,
        DeadlineExceeded, Expire, SandboxLost, Snapshot, Begin, ObserveNothing, Crash,
        ObserveLost, ObserveFailed, ReadLogs
  <2> QED BY <2>4, <2>5, <2>6, <2>7, <2>8 DEF Next, Observe
<1> QED BY <1>1, BuildInvariant, PTL DEF Spec

\* ResultKept: the accepted result is scanned, published and kept.
THEOREM ResultIsKept == BuildAssumption => (Spec => ResultKept)
<1> QED BY ArchiveHolds, ResultStays, PTL DEF ResultKept

-----------------------------------------------------------------------------
(***************************************************************************)
(* While no call fails: nothing is left behind.                            *)
(***************************************************************************)
LEMMA CallsFacts ==
    ASSUME CallsSucceed'
    PROVE  /\ ~Fault("refused") /\ ~Fault("unanswered") /\ ~Fault("crash") /\ ~Fault("job")
           /\ ~Crash
<1>1. ASSUME NEW f, f \notin {"pod", "silent"}, Fault(f) PROVE FALSE
  <2>1. faults'.calls = (faults.calls \/ f \notin {"pod", "silent"})
    BY <1>1 DEF Fault
  <2>2. faults'.calls
    BY <1>1, <2>1
  <2> QED BY <2>2 DEF CallsSucceed
<1> QED BY <1>1 DEF Crash

LEMMA SmoothInit ==
    ASSUME BuildAssumption, Init
    PROVE  SmoothInv
  BY DEF Init, SmoothInv, DispatchKnown, CredentialsKnown, HeldKnown, NoOp, NoJob, CtIdle, RtIdle

\* What the sandbox and the worker do, and a result that comes in.
LEMMA SmoothElsewhere ==
    ASSUME SmoothInv, UNCHANGED <<live, secret, ct, rt>>, cp'.start = cp.start,
           op'.cred = op.cred,
           op'.status = op.status \/ (op.status = "running" /\ op'.status = "result_pending"),
           job.state = "none" => job'.state = "none"
    PROVE  SmoothInv'
  BY DEF SmoothInv, DispatchKnown, CredentialsKnown, HeldKnown

LEMMA SmoothWork ==
    ASSUME CallsSucceed', BuildInv, SmoothInv,
           RequestCancel \/ Work \/ AcceptResult \/ DeadlineExceeded \/ Expire \/ SandboxLost
    PROVE  SmoothInv'
<1>1. BuildTypeOK /\ op \in Operation /\ cp \in Build
  BY RowTyped DEF BuildInv, BuildTypeOK
<1>2. UNCHANGED <<live, secret, ct, rt>>
  BY DEF RequestCancel, Work, PodStarts, WorkerPhase, BuildArtifact, SendResult, AcceptResult,
         DeadlineExceeded, Expire, SandboxLost, cluster
<1>3. cp'.start = cp.start
  <2>1. CASE RequestCancel
    <3>1. cp' = [cp EXCEPT !.cancel = TRUE, !.stop.status = "pending"]
      BY <2>1 DEF RequestCancel
    <3> QED BY <1>1, <3>1 DEF Build
  <2>2. CASE UNCHANGED cp
    BY <2>2
  <2> QED BY <2>1, <2>2 DEF Work, PodStarts, WorkerPhase, BuildArtifact, SendResult,
                            AcceptResult, DeadlineExceeded, Expire, SandboxLost
<1>4. /\ op'.cred = op.cred
      /\ op'.status = op.status \/ (op.status = "running" /\ op'.status = "result_pending")
  <2>1. CASE AcceptResult
    <3>1. op' \in {op, [op EXCEPT !.status = "result_pending", !.result = inflight]}
      BY <2>1 DEF AcceptResult, Saved
    <3>2. op' # op => op.status = "running"
      BY <2>1 DEF AcceptResult, Saved
    <3> QED BY <1>1, <3>1, <3>2 DEF Operation
  <2>2. CASE UNCHANGED op
    BY <2>2
  <2> QED BY <2>1, <2>2 DEF RequestCancel, Work, PodStarts, WorkerPhase, BuildArtifact,
                            SendResult, DeadlineExceeded, Expire, SandboxLost
<1>5. job.state = "none" => job'.state = "none"
  <2> SUFFICES ASSUME job.state = "none" PROVE job'.state = "none"
    OBVIOUS
  <2>1. ~Active /\ ~Waiting
    BY DEF Active, Waiting
  <2>2. CASE AcceptResult
    <3>1. Delivered \/ TryFailed
      BY <2>2 DEF AcceptResult
    <3>2. UNCHANGED job
      BY <2>1, <3>1 DEF Delivered, TryFailed
    <3> QED BY <3>2
  <2>3. CASE RequestCancel
    BY <2>3 DEF RequestCancel, cluster
  <2> QED BY <2>1, <2>2, <2>3 DEF Work, PodStarts, WorkerPhase, BuildArtifact, SendResult,
                                  DeadlineExceeded, Expire, SandboxLost
<1> QED BY <1>2, <1>3, <1>4, <1>5, SmoothElsewhere

\* A command that leaves the row, the Job and its Secret alone.
LEMMA SmoothCommand ==
    ASSUME SmoothInv, UNCHANGED <<op, job, secret, rt>>, cp'.start = cp.start,
           live' \subseteq live, ct'.pc \notin {"check", "undo"}, ct.pc # "finalize",
           ct.pc # "create", ct'.pc # "create",
           ct'.pc \in {"credentials", "registry", "job", "secret"} =>
               /\ ct.pc \in {"credentials", "registry", "job", "secret"}
               /\ ct'.cmd = ct.cmd /\ ct'.cred = ct.cred
               /\ ct'.pc # "credentials" => op.status = "preparing"
               /\ ct'.pc \in {"job", "secret"} => ct.pc \in {"job", "secret"},
           ct.pc \in {"job", "secret"} => ct'.pc \in {"job", "secret"}
    PROVE  SmoothInv'
  BY DEF SmoothInv, DispatchKnown, CredentialsKnown, HeldKnown

LEMMA SmoothDispatch ==
    ASSUME BuildAssumption, CallsSucceed', BuildInv, SmoothInv,
           CheckJob \/ CloneCredentials \/ RegisterCredential \/ FindJob \/ CreateSecret
           \/ CreateJob \/ UndoDispatch
    PROVE  SmoothInv'
<1>1. /\ BuildTypeOK /\ RowKnown /\ SnapshotKnown /\ op \in Operation /\ ct \in CommandTask
      /\ live \subseteq CredIds /\ DispatchKnown /\ CredentialsKnown /\ HeldKnown
  BY RowTyped DEF BuildInv, BuildTypeOK, SmoothInv
<1>2. ~CheckJob /\ ~UndoDispatch
  BY <1>1 DEF DispatchKnown, CheckJob, UndoDispatch
<1>3. CASE CloneCredentials
  <2>1. UNCHANGED <<cp, op, live, job, secret, rt>>
    BY <1>3 DEF CloneCredentials, cluster
  <2>2. CASE cp.build = "running" /\ ~cp.cancel
    <3>1. ct' = [ct EXCEPT !.pc = "registry"] /\ ct.pc = "credentials"
      BY <1>3, <2>2, CallsFacts DEF CloneCredentials
    <3>2. ct'.pc = "registry" /\ ct'.cmd = ct.cmd /\ ct'.cred = ct.cred
      BY <1>1, <3>1 DEF CommandTask
    <3>3. op.status = "preparing"
      BY <1>1, <2>2, <3>1 DEF DispatchKnown, RowKnown
    <3> QED BY <2>1, <3>1, <3>2, <3>3, SmoothCommand
  <2>3. CASE ~(cp.build = "running" /\ ~cp.cancel)
    <3>1. ct' = Finalize("retry") /\ ct.pc = "credentials"
      BY <1>3, <2>3, CallsFacts DEF CloneCredentials
    <3>2. ct'.pc = "finalize"
      BY <1>1, <3>1 DEF CommandTask, Finalize
    <3> QED BY <2>1, <3>1, <3>2, SmoothCommand
  <2> QED BY <2>2, <2>3
<1>4. CASE RegisterCredential
  <2>1. UNCHANGED <<cp, op, job, secret, rt>> /\ ct.pc = "registry"
    BY <1>4 DEF RegisterCredential, cluster
  <2>2. PICK c \in CredIds : live' = live \cup {c} /\ ct' = [ct EXCEPT !.pc = "job", !.cred = c]
    BY <1>4, CallsFacts DEF RegisterCredential, Call, NewCreds
  <2>3. ct'.pc = "job" /\ ct'.cred = c /\ ct'.cmd = ct.cmd /\ c # 0
    BY <1>1, <2>2 DEF CommandTask, BuildAssumption
  <2>4. DispatchKnown' /\ CredentialsKnown'
    BY <1>1, <2>1, <2>3 DEF DispatchKnown, CredentialsKnown
  <2>5. HeldKnown'
    BY <1>1, <2>1, <2>2, <2>3 DEF HeldKnown, DispatchKnown
  <2> QED BY <2>4, <2>5 DEF SmoothInv
<1>5. CASE FindJob
  <2>1. UNCHANGED <<cp, live, job, secret, rt>> /\ ct.pc = "job" /\ job.state = "none"
    BY <1>1, <1>5 DEF FindJob, cluster, DispatchKnown
  <2>2. ct' = [ct EXCEPT !.pc = "secret"] /\ UNCHANGED op
    BY <1>5, <2>1, CallsFacts DEF FindJob
  <2>3. ct'.pc = "secret" /\ ct'.cmd = ct.cmd /\ ct'.cred = ct.cred
    BY <1>1, <2>2 DEF CommandTask
  <2> QED BY <1>1, <2>1, <2>2, <2>3, SmoothCommand DEF DispatchKnown
<1>6. CASE CreateSecret
  <2>1. /\ UNCHANGED <<cp, op, live, job, rt>> /\ ct.pc = "secret" /\ secret' = ct.cred
        /\ ct' = [ct EXCEPT !.pc = "create"]
    BY <1>6, CallsFacts DEF CreateSecret
  <2>2. ct'.pc = "create" /\ ct'.cmd = ct.cmd /\ ct'.cred = ct.cred
    BY <1>1, <2>1 DEF CommandTask
  <2>3. rt.status = "none" /\ rt.pc = "idle" /\ op.status = "preparing"
    BY <1>1, <2>1, RowTyped DEF SnapshotKnown, Reconciler, DispatchKnown
  <2>4. DispatchKnown' /\ CredentialsKnown'
    BY <1>1, <2>1, <2>2 DEF DispatchKnown, CredentialsKnown
  <2>5. HeldKnown'
    BY <1>1, <2>1, <2>2, <2>3 DEF HeldKnown
  <2> QED BY <2>4, <2>5 DEF SmoothInv
<1>7. CASE CreateJob
  <2>1. /\ UNCHANGED <<cp, live, secret, rt>> /\ ct.pc = "create" /\ SetRunning
        /\ op.status = "preparing" /\ ct.cred # 0 /\ ct.cmd = "start"
        /\ cp.start.status = "delivering"
    BY <1>1, <1>7, CallsFacts DEF CreateJob, DispatchKnown
  <2>2. /\ op' = [op EXCEPT !.status = "running", !.cred = ct.cred, !.seen = FALSE]
        /\ ct' = Finalize("published")
    BY <2>1 DEF SetRunning
  <2>3. /\ op'.status = "running" /\ op'.cred = ct.cred
        /\ ct'.pc = "finalize" /\ ct'.cmd = "start" /\ ct'.outcome = "published"
    BY <1>1, <2>1, <2>2 DEF Operation, CommandTask, Finalize
  <2>4. rt.status = "none" /\ rt.pc = "idle"
    BY <1>1, <2>1, RowTyped DEF SnapshotKnown, Reconciler
  <2>5. DispatchKnown'
    BY <1>1, <2>1, <2>3 DEF DispatchKnown
  <2>6. CredentialsKnown'
    BY <2>1, <2>3, <2>4 DEF CredentialsKnown
  <2>7. op.cred = 0
    BY <1>1, <2>1 DEF CredentialsKnown
  <2>8. 0 \notin live
    BY <1>1 DEF BuildAssumption
  <2>9. HeldKnown'
    BY <1>1, <2>1, <2>3, <2>4, <2>7, <2>8 DEF HeldKnown
  <2> QED BY <2>5, <2>6, <2>9 DEF SmoothInv
<1> QED BY <1>2, <1>3, <1>4, <1>5, <1>6, <1>7

LEMMA SmoothCancel ==
    ASSUME CallsSucceed', BuildInv, SmoothInv, CancelRemoves \/ CancelRevokes
    PROVE  SmoothInv'
<1>1. /\ ct \in CommandTask /\ DispatchKnown /\ CredentialsKnown /\ HeldKnown
      /\ UNCHANGED <<cp, op, rt>>
  BY DEF BuildInv, BuildTypeOK, SmoothInv, CancelRemoves, CancelRevokes, cluster
<1>2. CASE CancelRevokes
  <2>1. /\ UNCHANGED <<job, secret>> /\ live' \subseteq live /\ ct.pc = "revoke"
        /\ ct' = Finalize("retry")
    BY <1>2 DEF CancelRevokes, cluster, RevokeCredential, Call
  <2>2. ct'.pc = "finalize"
    BY <1>1, <2>1 DEF CommandTask, Finalize
  <2> QED BY <1>1, <2>1, <2>2, SmoothCommand
<1>3. CASE CancelRemoves
  <2>1. /\ job' = NoJob /\ secret' = 0 /\ UNCHANGED live /\ ct.pc = "remove"
        /\ ct' = [ct EXCEPT !.pc = "revoke"] \/ ct' = Finalize("retry")
    BY <1>3, CallsFacts DEF CancelRemoves, Remove, Call
  <2>2. ct'.pc \in {"revoke", "finalize"} /\ job'.state = "none"
    BY <1>1, <2>1 DEF CommandTask, Finalize, NoJob
  <2>3. DispatchKnown' /\ CredentialsKnown' /\ HeldKnown'
    BY <1>1, <2>1, <2>2 DEF DispatchKnown, CredentialsKnown, HeldKnown
  <2> QED BY <2>3 DEF SmoothInv
<1> QED BY <1>2, <1>3

LEMMA SmoothFinalize ==
    ASSUME CallsSucceed', BuildInv, SmoothInv, FinalizeCommand
    PROVE  SmoothInv'
<1>1. /\ cp \in Build /\ ct \in CommandTask /\ DispatchKnown /\ CredentialsKnown /\ HeldKnown
  BY DEF BuildInv, BuildTypeOK, SmoothInv
<1>2. /\ UNCHANGED <<op, live, job, secret, rt>> /\ ct.pc = "finalize" /\ ct' = CtIdle
      /\ cp' = [cp EXCEPT ![ct.cmd] = Finalized(@, ct.outcome)]
  BY CallsFacts DEF FinalizeCommand, cluster, Call
<1>3. ct'.pc = "idle"
  BY <1>2 DEF CtIdle
<1>4. op.cred # 0 => cp'.start.status \in {"published", "dead"}
  <2>1. CASE ct.cmd = "stop"
    <3>1. cp'.start = cp.start
      BY <1>1, <1>2, <2>1 DEF Build
    <3> QED BY <1>1, <2>1, <3>1 DEF DispatchKnown
  <2>2. CASE ct.cmd = "start"
    <3>1. cp'.start = Finalized(cp.start, ct.outcome)
      BY <1>1, <1>2, <2>2 DEF Build
    <3>2. cp.start \in Command
      BY <1>1 DEF Build
    <3>3. cp.start.status \in {"published", "dead"} => cp'.start.status \in {"published", "dead"}
      BY <3>1 DEF Finalized
    <3>4. cp.start.status = "delivering" /\ ct.outcome = "published" => cp'.start.status = "published"
      BY <3>1, <3>2 DEF Finalized, Command
    <3> QED BY <1>1, <3>3, <3>4 DEF DispatchKnown
  <2> QED BY <1>1, <2>1, <2>2 DEF CommandTask
<1>5. DispatchKnown' /\ CredentialsKnown' /\ HeldKnown'
  BY <1>1, <1>2, <1>3, <1>4 DEF DispatchKnown, CredentialsKnown, HeldKnown
<1> QED BY <1>5 DEF SmoothInv

LEMMA SmoothClaim ==
    ASSUME CallsSucceed', BuildInv, SmoothInv, NEW cmd \in {"start", "stop"}, Claim(cmd)
    PROVE  SmoothInv'
<1>1. /\ cp \in Build /\ ct \in CommandTask /\ op \in Operation /\ RowKnown /\ SnapshotKnown
      /\ DispatchKnown /\ CredentialsKnown /\ HeldKnown /\ rt \in Reconciler
  BY DEF BuildInv, BuildTypeOK, SmoothInv
<1>2. UNCHANGED <<live, job, secret, rt>> /\ ct.pc = "idle"
  BY DEF Claim, cluster
<1>3. CASE cmd = "start"
  <2>1. /\ RegisterOperation /\ cp.start.status \in {"pending", "delivering"}
        /\ cp' = [cp EXCEPT !["start"] = [status |-> "delivering", attempts |-> @.attempts + 1]]
    BY <1>3, CallsFacts DEF Claim
  <2>2. cp'.start.status = "delivering"
    BY <1>1, <2>1 DEF Build
  <2>3. op.cred = 0 /\ op.status \in {"none", "preparing", "canceling"}
    BY <1>1, <1>2, <2>1 DEF DispatchKnown, CredentialsKnown, Operation, Operations, RowKnown
  <2>4. /\ ct' = [ct EXCEPT !.cmd = "start", !.seen = op.status, !.pc = "credentials"]
        /\ op.status = "none" => op' = [NoOp EXCEPT !.status = "preparing"]
        /\ op.status # "none" => op' = op
    BY <2>1, <2>3 DEF RegisterOperation
  <2>5. ct'.pc = "credentials" /\ ct'.cmd = "start"
    BY <1>1, <2>4 DEF CommandTask
  <2>6. op'.cred = 0 /\ op'.status \in {"preparing", "canceling"}
    BY <2>3, <2>4 DEF NoOp
  <2>7. rt.status # "none" => op' = op
    BY <1>1, <2>4 DEF SnapshotKnown, Reconciler
  <2>8. DispatchKnown' /\ CredentialsKnown'
    BY <1>1, <1>2, <2>2, <2>3, <2>5, <2>6, <2>7 DEF DispatchKnown, CredentialsKnown
  <2>9. HeldKnown'
    BY <1>1, <1>2, <2>3, <2>5, <2>6 DEF HeldKnown
  <2> QED BY <2>8, <2>9 DEF SmoothInv
<1>4. CASE cmd = "stop"
  <2>1. /\ Cancel
        /\ cp' = [cp EXCEPT !["stop"] = [status |-> "delivering", attempts |-> @.attempts + 1]]
    BY <1>4, CallsFacts DEF Claim
  <2>2. cp'.start = cp.start
    BY <1>1, <2>1 DEF Build
  <2>3. \/ UNCHANGED op /\ ct'.pc = "finalize"
        \/ op' = [op EXCEPT !.status = "canceling"] /\ ct'.pc = "remove"
    BY <1>1, <2>1 DEF Cancel, CommandTask
  <2>4. op'.cred = op.cred /\ op'.status \in {op.status, "canceling"} /\ ct'.pc \in {"finalize", "remove"}
    BY <1>1, <2>3 DEF Operation
  <2>5. DispatchKnown' /\ CredentialsKnown' /\ HeldKnown'
    BY <1>1, <1>2, <2>2, <2>4 DEF DispatchKnown, CredentialsKnown, HeldKnown
  <2> QED BY <2>5 DEF SmoothInv
<1> QED BY <1>3, <1>4

\* The reconciler moves on and holds no more than it may.
LEMMA SmoothReconciles ==
    ASSUME BuildInv, SmoothInv, UNCHANGED <<job, secret, ct>>, cp'.start = cp.start,
           op'.cred = op.cred, op'.status = op.status,
           rt'.status # "none" => rt'.cred = op.cred,
           rt'.status \in {"running", "result_pending"} => op.cred # 0,
           rt'.pc \in {"scan_credential", "unscan"} => Workload # "static",
           rt'.pc # "revoke",
           op.status \in {"completed", "failed"} => live' \subseteq live,
           \A c \in live' :
              \/ c \in live /\ (rt.pc \in {"scan", "unscan"} => Workload = "static" \/ c # rt.scanCred)
              \/ rt'.pc \in {"scan", "unscan"} /\ Workload # "static" /\ c = rt'.scanCred
    PROVE  SmoothInv'
<1>1. DispatchKnown /\ CredentialsKnown /\ HeldKnown
  BY DEF SmoothInv
<1>2. DispatchKnown' /\ CredentialsKnown'
  BY <1>1 DEF DispatchKnown, CredentialsKnown
<1>3. HeldKnown'
  BY <1>1 DEF HeldKnown
<1> QED BY <1>2, <1>3 DEF SmoothInv

\* A checkpoint leaves the scan, if it was one.
LEMMA SmoothCheckpoint ==
    ASSUME BuildAssumption, BuildInv, SmoothInv, UNCHANGED <<cp, job, secret, ct>>,
           NEW r \in Reconciler, r.status = rt.status, rt.status # "none", r.cred = rt.cred,
           Checkpoint(r), live' \subseteq live,
           \A c \in live' : rt.pc \in {"scan", "unscan"} => Workload = "static" \/ c # rt.scanCred
    PROVE  SmoothInv'
<1>1. CredentialsKnown /\ op \in Operation /\ r.scan \in Scans
  BY DEF SmoothInv, BuildInv, BuildTypeOK, Reconciler
<1>2. op'.cred = op.cred /\ op'.status = op.status
  BY <1>1 DEF Checkpoint, Operation
<1>3. \/ rt' = RtIdle
      \/ rt' = [r EXCEPT !.pc = NextCall(r)]
  BY DEF Checkpoint, Defer
<1>4. /\ NextCall(r) \notin {"revoke", "unscan"}
      /\ NextCall(r) = "scan_credential" => Workload # "static"
  BY <1>1 DEF NextCall
<1>5. /\ rt'.status # "none" => rt'.status = rt.status /\ rt'.cred = rt.cred
      /\ rt'.pc \in {"idle", NextCall(r)}
  BY <1>3 DEF RtIdle, Reconciler
<1> QED BY <1>1, <1>2, <1>4, <1>5, SmoothReconciles DEF CredentialsKnown

\* It moves outside of a scan and without a call to the registry.
LEMMA SmoothMoves ==
    ASSUME BuildInv, SmoothInv, UNCHANGED <<live, job, secret, ct>>, cp'.start = cp.start,
           op'.cred = op.cred, op'.status = op.status,
           rt.pc \notin {"scan", "unscan"},
           rt'.status # "none" =>
               /\ rt'.status = rt.status \/ rt'.status = op.status
               /\ rt'.cred = op.cred,
           rt'.pc = "scan_credential" => Workload # "static",
           rt'.pc \notin {"revoke", "unscan"}
    PROVE  SmoothInv'
<1>1. CredentialsKnown
  BY DEF SmoothInv
<1> QED BY <1>1, SmoothReconciles DEF CredentialsKnown

LEMMA SmoothObserves ==
    ASSUME BuildAssumption, BuildInv, SmoothInv,
           Snapshot \/ Begin \/ Observe \/ ObserveNothing
    PROVE  SmoothInv'
<1>1. /\ SnapshotKnown /\ PlaceKnown /\ CredentialsKnown /\ op \in Operation
      /\ rt \in Reconciler /\ rt.scan \in Scans
  BY RowTyped DEF BuildInv, SmoothInv
<1>2. UNCHANGED <<cp, live, job, secret, ct>>
  BY DEF Snapshot, Begin, Observe, ObserveNothing, ObserveLost, ObserveFailed, ReadLogs,
         ObserveComplete, cluster
<1>3. op'.cred = op.cred /\ op'.status = op.status
  <2>1. CASE UNCHANGED op
    BY <2>1
  <2>2. CASE ObserveComplete
    BY <1>1, <2>2 DEF ObserveComplete, Operation
  <2> QED BY <2>1, <2>2 DEF Snapshot, Begin, Observe, ObserveNothing, ObserveLost,
                            ObserveFailed, ReadLogs
<1>4. CASE Snapshot
  <2>1. rt.pc = "idle" /\ rt'.pc = "pending" /\ rt'.status = op.status /\ rt'.cred = op.cred
    BY <1>4 DEF Snapshot, RtIdle
  <2> QED BY <1>2, <1>3, <2>1, SmoothMoves
<1>5. CASE rt' = RtIdle /\ rt.pc \in {"pending", "observe", "logs"}
  <2>1. rt'.pc = "idle" /\ rt'.status = "none"
    BY <1>5 DEF RtIdle
  <2> QED BY <1>2, <1>3, <1>5, <2>1, SmoothMoves
<1>6. CASE Begin /\ rt' # RtIdle
  <2> DEFINE goes == CASE rt.status = "running" -> "observe"
                     [] rt.status = "canceling" -> "remove"
                     [] OTHER -> NextCall(rt)
  <2>1. rt' = [rt EXCEPT !.pc = goes] /\ rt.pc = "pending"
    BY <1>6 DEF Begin
  <2>2. /\ goes \notin {"revoke", "unscan"}
        /\ goes = "scan_credential" => Workload # "static"
    BY DEF NextCall
  <2> HIDE DEF goes
  <2>3. rt'.pc = goes /\ rt'.status = rt.status /\ rt'.cred = rt.cred
    BY <1>1, <2>1 DEF Reconciler
  <2> QED BY <1>1, <1>2, <1>3, <2>1, <2>2, <2>3, SmoothMoves DEF CredentialsKnown
<1>7. CASE /\ rt.pc \in {"observe", "logs"}
           /\ \/ \E c \in Given, k \in {op.cred, rt.cred} : rt' = Lost(c, k)
              \/ rt' = [rt EXCEPT !.pc = "logs"]
  <2>1. rt.status = "running"
    BY <1>1, <1>7 DEF PlaceKnown
  <2>2. rt'.pc \in {"log", "logs"} /\ rt'.status = "running" /\ rt'.cred = op.cred
    BY <1>1, <1>7, <2>1 DEF Lost, Reconciler, CredentialsKnown
  <2> QED BY <1>2, <1>3, <1>7, <2>1, <2>2, SmoothMoves
<1>8. CASE Observe /\ rt' # RtIdle
  <2>1. Stamped \in Given /\ PodLogs \in Given
    BY DEF Given
  <2>2. CASE ObserveLost
    BY <1>7, <2>1, <2>2 DEF ObserveLost
  <2>3. CASE ObserveFailed
    BY <1>7, <2>3 DEF ObserveFailed
  <2>4. CASE ReadLogs
    BY <1>7, <2>1, <2>4 DEF ReadLogs
  <2>5. CASE ObserveComplete
    BY <1>7, <1>8, <2>1, <2>5 DEF ObserveComplete
  <2> QED BY <1>8, <2>2, <2>3, <2>4, <2>5 DEF Observe
<1>9. CASE ObserveNothing
  BY <1>5, <1>9 DEF ObserveNothing, Defer
<1>10. Begin \/ Observe => rt.pc \in {"pending", "observe", "logs"}
  BY DEF Begin, Observe, ObserveLost, ObserveFailed, ReadLogs, ObserveComplete
<1> QED BY <1>4, <1>5, <1>6, <1>8, <1>9, <1>10
\* The log, and the evidence other than it.
LEMMA SmoothUploads ==
    ASSUME BuildAssumption, CallsSucceed', BuildInv, SmoothInv,
           UploadLog \/ PublishStatic \/ UploadScanEvidence \/ UploadProvenance
    PROVE  SmoothInv'
<1>1. /\ SnapshotKnown /\ PlaceKnown /\ CredentialsKnown /\ rt \in Reconciler
  BY RowTyped DEF BuildInv, SmoothInv
<1>2. /\ UNCHANGED <<cp, live, job, secret, ct>>
      /\ rt.pc \in {"log", "manifest", "sbom", "report", "provenance"}
  BY DEF UploadLog, PublishStatic, UploadScanEvidence, UploadProvenance, Upload, cluster
<1>3. rt.status \in {"running", "result_pending"}
  BY <1>1, <1>2 DEF SnapshotKnown, PlaceKnown, Reconciler
<1>4. CASE Defer /\ UNCHANGED op
  <2>1. rt'.status = "none" /\ rt'.pc = "idle"
    BY <1>4 DEF Defer, RtIdle
  <2> QED BY <1>2, <1>4, <2>1, SmoothMoves
<1>5. ASSUME NEW p \in {"send", "report"}, rt' = [rt EXCEPT !.pc = p], UNCHANGED op
      PROVE  SmoothInv'
  <2>1. rt'.pc = p /\ rt'.status = rt.status /\ rt'.cred = rt.cred
    BY <1>1, <1>5 DEF Reconciler
  <2> QED BY <1>1, <1>2, <1>3, <1>5, <2>1, SmoothMoves DEF CredentialsKnown
<1>6. ASSUME NEW k \in Checkpoints, Checkpoint([rt EXCEPT !.done = @ \cup {k}])
      PROVE  SmoothInv'
  <2>1. PICK r : r = [rt EXCEPT !.done = @ \cup {k}]
    OBVIOUS
  <2>2. r \in Reconciler /\ r.status = rt.status /\ r.cred = rt.cred
    BY <1>1, <2>1 DEF Reconciler
  <2>3. Checkpoint(r)
    BY <1>6, <2>1
  <2> QED BY <1>2, <1>3, <2>2, <2>3, SmoothCheckpoint
<1>7. {"log", "manifest", "evidence", "provenance"} = Checkpoints
  BY DEF Checkpoints
<1>8. CASE UploadLog
  BY <1>4, <1>5, <1>6, <1>7, <1>8, CallsFacts DEF UploadLog, Call
<1>9. CASE PublishStatic \/ UploadScanEvidence \/ UploadProvenance
  BY <1>4, <1>5, <1>6, <1>7, <1>9, CallsFacts
  DEF PublishStatic, UploadScanEvidence, UploadProvenance, Upload, Call
<1> QED BY <1>8, <1>9

\* A scan registers a credential of its own and revokes it.
LEMMA SmoothScans ==
    ASSUME BuildAssumption, CallsSucceed', BuildInv, SmoothInv, ScanCredential \/ Scan \/ ScanDone
    PROVE  SmoothInv'
<1>1. /\ SnapshotKnown /\ PlaceKnown /\ CredentialsKnown /\ HeldKnown /\ rt \in Reconciler
      /\ rt.status = "result_pending" /\ op.status \notin {"completed", "failed"}
      /\ rt.cred = op.cred /\ op.cred # 0
  BY RowTyped DEF BuildInv, SmoothInv, PlaceKnown, SnapshotKnown, CredentialsKnown,
                  ScanCredential, Scan, ScanDone
<1>2. UNCHANGED <<cp, job, secret, ct>>
  BY DEF ScanCredential, Scan, ScanDone, cluster
<1>3. CASE ScanCredential
  <2>1. PICK c \in CredIds : live' = live \cup {c} /\ rt' = [rt EXCEPT !.pc = "scan", !.scanCred = c]
    BY <1>3, CallsFacts DEF ScanCredential, Call, NewCreds
  <2>2. rt.pc = "scan_credential" /\ Workload # "static" /\ UNCHANGED op
    BY <1>1, <1>3 DEF ScanCredential, HeldKnown
  <2>3. rt'.pc = "scan" /\ rt'.scanCred = c /\ rt'.status = rt.status /\ rt'.cred = rt.cred
    BY <1>1, <2>1 DEF Reconciler
  <2> QED BY <1>1, <1>2, <2>1, <2>2, <2>3, SmoothReconciles
<1>4. CASE Scan
  <2>1. UNCHANGED live /\ rt.pc = "scan"
    BY <1>4 DEF Scan
  <2>2. PICK s \in Scans : \/ Workload = "static" /\ Checkpoint([rt EXCEPT !.scan = s])
                           \/ /\ Workload # "static" /\ UNCHANGED op
                              /\ rt' = [rt EXCEPT !.pc = "unscan", !.scan = s]
    <3>1. {"passed", "rejected"} \subseteq Scans
      BY DEF Scans
    <3> QED BY <1>4, <3>1, CallsFacts DEF Scan
  <2>3. CASE Workload = "static"
    <3>1. PICK r : r = [rt EXCEPT !.scan = s]
      OBVIOUS
    <3>2. r \in Reconciler /\ r.status = rt.status /\ r.cred = rt.cred
      BY <1>1, <3>1 DEF Reconciler
    <3>3. Checkpoint(r)
      BY <2>2, <2>3, <3>1
    <3> QED BY <1>1, <1>2, <2>1, <2>3, <3>2, <3>3, SmoothCheckpoint
  <2>4. CASE Workload # "static"
    <3>1. /\ UNCHANGED op /\ rt'.pc = "unscan" /\ rt'.status = rt.status
          /\ rt'.cred = rt.cred /\ rt'.scanCred = rt.scanCred
      BY <1>1, <2>2, <2>4 DEF Reconciler
    <3> QED BY <1>1, <1>2, <2>1, <2>4, <3>1, SmoothReconciles
  <2> QED BY <2>3, <2>4
<1>5. CASE ScanDone
  <2>1. live' = live \ {rt.scanCred} /\ rt.pc = "unscan"
    BY <1>5, CallsFacts DEF ScanDone, RevokeCredential, Call
  <2>2. CASE Defer /\ UNCHANGED op
    <3>1. rt'.status = "none" /\ rt'.pc = "idle"
      BY <2>2 DEF Defer, RtIdle
    <3> QED BY <1>2, <2>1, <2>2, <3>1, SmoothReconciles
  <2>3. CASE Checkpoint([rt EXCEPT !.scanCred = 0])
    <3>1. PICK r : r = [rt EXCEPT !.scanCred = 0]
      OBVIOUS
    <3>2. r \in Reconciler /\ r.status = rt.status /\ r.cred = rt.cred
      BY <1>1, <3>1 DEF Reconciler, Creds
    <3>3. Checkpoint(r)
      BY <2>3, <3>1
    <3> QED BY <1>1, <1>2, <2>1, <3>2, <3>3, SmoothCheckpoint
  <2> QED BY <1>5, <2>2, <2>3, CallsFacts DEF ScanDone, RevokeCredential, Call
<1> QED BY <1>3, <1>4, <1>5

LEMMA SmoothSends ==
    ASSUME CallsSucceed', BuildInv, SmoothInv, SendBuildEvent
    PROVE  SmoothInv'
<1>1. CredentialsKnown /\ rt \in Reconciler /\ cp \in Build
  BY RowTyped DEF BuildInv, BuildTypeOK, SmoothInv
<1>2. /\ UNCHANGED <<op, live, job, secret, ct>> /\ rt.pc = "send"
      /\ rt' = [rt EXCEPT !.pc = "remove"]
      /\ \E s \in {"failed", "succeeded"} : cp' = Consumed(s, rt.result, rt.scan)
  BY CallsFacts DEF SendBuildEvent, Call, cluster
<1>3. cp'.start = cp.start
  BY <1>1, <1>2 DEF Consumed, Build
<1>4. rt'.pc = "remove" /\ rt'.status = rt.status /\ rt'.cred = rt.cred
  BY <1>1, <1>2 DEF Reconciler
<1> QED BY <1>1, <1>2, <1>3, <1>4, SmoothMoves DEF CredentialsKnown

\* The cleanup: the sandbox, the Secret and the credential go, and only then
\* is the row settled.
LEMMA SmoothCleanup ==
    ASSUME CallsSucceed', BuildInv, SmoothInv, CleanupRemoves \/ CleanupRevokes
    PROVE  SmoothInv'
<1>1. /\ SnapshotKnown /\ DispatchKnown /\ CredentialsKnown /\ HeldKnown
      /\ rt \in Reconciler /\ op \in Operation /\ rt.cred = op.cred
      /\ rt.pc \in {"remove", "revoke"}
      /\ rt.status \in {"running", "result_pending", "canceling"}
  BY RowTyped DEF BuildInv, SmoothInv, CleanupRemoves, CleanupRevokes, SnapshotKnown,
                  CredentialsKnown, Reconciler
<1>2. UNCHANGED <<cp, ct>>
  BY DEF CleanupRemoves, CleanupRevokes, cluster
<1>3. op.status # "preparing" /\ op.status # "none"
  BY <1>1 DEF SnapshotKnown
<1>4. ct.pc \notin {"registry", "job", "secret", "create"}
  BY <1>1, <1>3 DEF DispatchKnown
<1>5. \A c \in live : c = op.cred
  BY <1>1, <1>4 DEF HeldKnown
<1>6. Mark => /\ rt'.pc = "idle" /\ rt'.status = "none" /\ op'.cred = op.cred
              /\ \/ op' = op /\ op.status = "canceling"
                 \/ op'.status \in {"completed", "failed"} /\ op.cred # 0
  <2> SUFFICES ASSUME Mark
               PROVE  /\ rt'.pc = "idle" /\ rt'.status = "none" /\ op'.cred = op.cred
                      /\ \/ op' = op /\ op.status = "canceling"
                         \/ op'.status \in {"completed", "failed"} /\ op.cred # 0
    OBVIOUS
  <2>1. CASE rt.status = "canceling"
    BY <1>1, <2>1 DEF Mark, RtIdle, SnapshotKnown
  <2>2. CASE rt.status # "canceling"
    <3>1. Verdict(rt) \in {"completed", "failed"}
      BY DEF Verdict
    <3>2. op'.status = Verdict(rt) /\ op'.cred = op.cred
      BY <1>1, <2>2 DEF Mark, Operation
    <3> QED BY <1>1, <2>2, <3>1, <3>2 DEF Mark, RtIdle, CredentialsKnown
  <2> QED BY <2>1, <2>2
<1>7. CASE CleanupRemoves
  <2>1. job'.state = "none" /\ secret' = 0 /\ UNCHANGED live /\ rt.pc = "remove"
    BY <1>7, CallsFacts DEF CleanupRemoves, Remove, Call, NoJob
  <2>2. \/ rt.cred # 0 /\ rt' = [rt EXCEPT !.pc = "revoke"] /\ UNCHANGED op
        \/ rt.cred = 0 /\ Mark
    BY <1>7, CallsFacts DEF CleanupRemoves, Remove, Call
  <2>3. /\ UNCHANGED op
        /\ \/ rt'.pc = "revoke" /\ rt'.status = rt.status /\ rt'.cred = rt.cred
           \/ rt'.pc = "idle" /\ rt'.status = "none"
    BY <1>1, <1>6, <2>2 DEF Reconciler
  <2>4. DispatchKnown' /\ CredentialsKnown'
    BY <1>1, <1>2, <1>4, <2>1, <2>3 DEF DispatchKnown, CredentialsKnown
  <2>5. HeldKnown'
    BY <1>1, <1>2, <1>5, <2>1, <2>3 DEF HeldKnown
  <2> QED BY <2>4, <2>5 DEF SmoothInv
<1>8. CASE CleanupRevokes
  <2>1. UNCHANGED <<job, secret>> /\ live' = live \ {rt.cred} /\ Mark /\ rt.pc = "revoke"
    BY <1>8, CallsFacts DEF CleanupRevokes, RevokeCredential, Call, cluster
  <2>2. live' = {} /\ job.state = "none" /\ secret = 0
    BY <1>1, <1>5, <2>1 DEF HeldKnown
  <2>3. DispatchKnown' /\ CredentialsKnown'
    BY <1>1, <1>2, <1>6, <2>1 DEF DispatchKnown, CredentialsKnown
  <2>4. HeldKnown'
    BY <1>6, <2>1, <2>2 DEF HeldKnown
  <2> QED BY <2>3, <2>4 DEF SmoothInv
<1> QED BY <1>7, <1>8

LEMMA SmoothNext ==
    BuildAssumption /\ BuildInv /\ SmoothInv /\ [Next]_vars /\ CallsSucceed' => SmoothInv'
<1> SUFFICES ASSUME BuildAssumption, CallsSucceed', BuildInv, SmoothInv, [Next]_vars
             PROVE  SmoothInv'
  OBVIOUS
<1>1. CASE RequestCancel \/ Work \/ AcceptResult \/ DeadlineExceeded \/ Expire \/ SandboxLost
  BY <1>1, SmoothWork
<1>2. CASE Commands
  BY <1>2, SmoothClaim, SmoothDispatch, SmoothCancel, SmoothFinalize DEF Commands
<1>3. CASE Snapshot \/ Begin \/ Observe \/ ObserveNothing
  BY <1>3, SmoothObserves
<1>4. CASE Process
  BY <1>4, SmoothUploads, SmoothScans, SmoothSends, SmoothCleanup DEF Process
<1>5. CASE UNCHANGED vars
  BY <1>5 DEF vars, SmoothInv, DispatchKnown, CredentialsKnown, HeldKnown
<1> QED BY <1>1, <1>2, <1>3, <1>4, <1>5, CallsFacts DEF Next

\* Failures are not forgotten.
LEMMA CallsSucceeded == ASSUME [Next]_vars, CallsSucceed' PROVE CallsSucceed
<1>1. ASSUME NEW f, Fault(f) PROVE CallsSucceed
  <2>1. faults'.calls = (faults.calls \/ f \notin {"pod", "silent"})
    BY <1>1 DEF Fault
  <2> QED BY <2>1 DEF CallsSucceed
<1>2. UNCHANGED faults => CallsSucceed
  BY DEF CallsSucceed
<1>3. CASE Commands
  BY <1>1, <1>2, <1>3
  DEF Commands, Claim, CheckJob, CloneCredentials, RegisterCredential, FindJob, CreateSecret,
      CreateJob, UndoDispatch, CancelRemoves, CancelRevokes, FinalizeCommand, Call, Remove,
      RevokeCredential
<1>4. CASE Process
  BY <1>1, <1>2, <1>4
  DEF Process, UploadLog, ScanCredential, Scan, ScanDone, PublishStatic, UploadScanEvidence,
      UploadProvenance, Upload, SendBuildEvent, CleanupRemoves, CleanupRevokes, Call, Remove,
      RevokeCredential
<1>5. CASE Work \/ Observe \/ RequestCancel \/ AcceptResult \/ DeadlineExceeded \/ Expire
           \/ SandboxLost \/ Snapshot \/ Begin \/ ObserveNothing \/ Crash
  BY <1>1, <1>2, <1>5
  DEF Work, PodStarts, WorkerPhase, BuildArtifact, SendResult, Observe, ObserveLost,
      ObserveFailed, ReadLogs, ObserveComplete, RequestCancel, AcceptResult, DeadlineExceeded,
      Expire, SandboxLost, Snapshot, Begin, ObserveNothing, Crash
<1>6. CASE UNCHANGED vars
  BY <1>2, <1>6 DEF vars
<1> QED BY <1>3, <1>4, <1>5, <1>6 DEF Next

\* As long as no call to another service has failed and the process has not
\* died, a row that is settled leaves no Job, no Secret and no registered
\* credential, whatever becomes of the pods and whenever the build is canceled.
THEOREM SettledHoldsNone == BuildAssumption => (Spec => []SettledHoldsNothing)
<1> SUFFICES ASSUME BuildAssumption PROVE Spec => []SettledHoldsNothing
  OBVIOUS
<1> DEFINE Inv == CallsSucceed => SmoothInv
<1>1. Init => Inv
  BY SmoothInit
<1>2. BuildInv /\ Inv /\ [Next]_vars => Inv'
  BY SmoothNext, CallsSucceeded
<1>3. Inv => SettledHoldsNothing
  BY DEF SmoothInv, HeldKnown, SettledHoldsNothing
<1>4. Spec => []BuildInv
  BY BuildInvariant
<1> HIDE DEF Inv
<1> QED BY <1>1, <1>2, <1>3, <1>4, PTL DEF Spec

-----------------------------------------------------------------------------
(***************************************************************************)
(* The registry.  The invariant ties a token to the row it was issued      *)
(* under.                                                                  *)
(***************************************************************************)
\* What issuing establishes and no later call undoes: the row is there, the
\* token is younger than the row's revocation, and expires by both lifetimes.
Issued ==
  \A t \in tokens :
    LET c == credentials[t.id] IN
    /\ c # NoRow
    /\ t.issued <= now /\ now < t.expires
    /\ t.expires <= t.issued + Ttl /\ t.expires <= c.expires
    /\ c.revoked # 0 => t.issued <= c.revoked

RInv == RegistryTypeOK /\ Issued /\ TokenIsScoped /\ UsersUnique

\* No row of the table is the absence of one.
LEMMA NoRowApart == ASSUME NEW row \in Rows PROVE row # NoRow
<1>1. row.user \in Users
  BY DEF Rows
<1>2. NoRow.user = ""
  BY DEF NoRow
<1> QED BY <1>1, <1>2, RegistryAssumption

\* The times of a row are numbers.
LEMMA RowTimes ==
  ASSUME NEW row \in Rows PROVE row.expires \in Nat /\ row.revoked \in Nat
<1>1. row.expires \in 1..MaxTime + MaxLife /\ row.revoked \in 0..MaxTime
  BY DEF Rows
<1>2. MaxTime \in Nat /\ MaxLife \in Nat
  BY RegistryAssumption
<1> QED BY <1>1, <1>2

\* What a registration does not touch stays: a row is only written where none was.
LEMMA RegisterKeeps ==
  ASSUME RInv, NEW i \in Ids, NEW row \in Rows, row.revoked = 0, Register(i, row)
  PROVE  /\ credentials[i] = NoRow
         /\ credentials'[i] = row
         /\ \A j \in Ids : j # i => credentials'[j] = credentials[j]
         /\ \A j \in Ids : credentials[j] # NoRow => credentials[j].user # row.user
  BY DEF RInv, RegistryTypeOK, Register, Existing

LEMMA RegisterInv ==
  ASSUME RInv, NEW i \in Ids, NEW row \in Rows, row.revoked = 0, Register(i, row)
  PROVE  RInv'
<1>1. /\ credentials[i] = NoRow /\ credentials'[i] = row
      /\ \A j \in Ids : j # i => credentials'[j] = credentials[j]
      /\ \A j \in Ids : credentials[j] # NoRow => credentials[j].user # row.user
  BY RegisterKeeps
<1>2. tokens' = tokens /\ now' = now
  BY DEF Register
<1>3. RegistryTypeOK'
  BY <1>2 DEF RInv, RegistryTypeOK, Register
<1>4. \A t \in tokens : t.id \in Ids /\ t.id # i /\ credentials'[t.id] = credentials[t.id]
  <2> SUFFICES ASSUME NEW t \in tokens
               PROVE  t.id \in Ids /\ t.id # i /\ credentials'[t.id] = credentials[t.id]
    OBVIOUS
  <2>1. t.id \in Ids
    BY DEF RInv, RegistryTypeOK
  <2>2. credentials[t.id] # NoRow
    BY DEF RInv, Issued
  <2> QED BY <2>1, <2>2, <1>1
<1>5. Issued'
  BY <1>2, <1>4 DEF RInv, Issued
<1>6. TokenIsScoped'
  BY <1>2, <1>4 DEF RInv, TokenIsScoped, Allowed
<1>7. UsersUnique'
  <2> SUFFICES ASSUME NEW j \in Ids, NEW k \in Ids, credentials'[j] # NoRow,
                      credentials'[k] # NoRow, credentials'[j].user = credentials'[k].user
               PROVE  j = k
    BY DEF UsersUnique
  <2>1. CASE j # i /\ k # i
    BY <2>1, <1>1 DEF RInv, UsersUnique
  <2>2. CASE j = i /\ k # i
    BY <2>2, <1>1
  <2>3. CASE j # i /\ k = i
    BY <2>3, <1>1
  <2> QED BY <2>1, <2>2, <2>3
<1> QED BY <1>3, <1>5, <1>6, <1>7 DEF RInv

LEMMA RevokeInv == ASSUME RInv, NEW i \in Ids, Revoke(i) PROVE RInv'
<1> DEFINE c == credentials[i]
           d == [c EXCEPT !.revoked = IF @ = 0 THEN now ELSE @]
<1>1. /\ c \in Rows /\ credentials' = [credentials EXCEPT ![i] = d]
      /\ tokens' = tokens /\ now' = now /\ now \in 1..MaxTime
      /\ credentials \in [Ids -> Rows \cup {NoRow}]
  BY DEF RInv, RegistryTypeOK, Revoke
<1>2. /\ d.user = c.user /\ d.prefix = c.prefix /\ d.actions = c.actions /\ d.expires = c.expires
      /\ d.revoked = (IF c.revoked = 0 THEN now ELSE c.revoked)
      /\ d \in Rows
  BY <1>1 DEF Rows
<1>3. /\ credentials'[i] = d /\ d # NoRow /\ c # NoRow
      /\ \A j \in Ids : j # i => credentials'[j] = credentials[j]
  BY <1>1, <1>2, NoRowApart
<1> HIDE DEF d
<1>4. RegistryTypeOK'
  BY <1>1, <1>2 DEF RInv, RegistryTypeOK
<1>5. \A t \in tokens : t.id \in Ids
  BY DEF RInv, RegistryTypeOK
<1>6. Issued'
  <2> SUFFICES ASSUME NEW t \in tokens
               PROVE  /\ credentials'[t.id] # NoRow
                      /\ t.issued <= now /\ now < t.expires
                      /\ t.expires <= t.issued + Ttl /\ t.expires <= credentials'[t.id].expires
                      /\ credentials'[t.id].revoked # 0 => t.issued <= credentials'[t.id].revoked
    BY <1>1 DEF Issued
  <2>1. CASE t.id = i
    BY <2>1, <1>1, <1>2, <1>3 DEF RInv, Issued
  <2>2. CASE t.id # i
    BY <2>2, <1>3, <1>5 DEF RInv, Issued
  <2> QED BY <2>1, <2>2
<1>7. TokenIsScoped'
  <2> SUFFICES ASSUME NEW t \in tokens
               PROVE  /\ credentials'[t.id].user = t.user
                      /\ Allowed(t.repository, credentials'[t.id].prefix)
                      /\ t.actions \subseteq credentials'[t.id].actions
    BY <1>1 DEF TokenIsScoped, Allowed
  <2>1. CASE t.id = i
    BY <2>1, <1>2, <1>3 DEF RInv, TokenIsScoped
  <2>2. CASE t.id # i
    BY <2>2, <1>3, <1>5 DEF RInv, TokenIsScoped
  <2> QED BY <2>1, <2>2
<1>8. UsersUnique'
  <2> SUFFICES ASSUME NEW j \in Ids, NEW k \in Ids, credentials'[j] # NoRow,
                      credentials'[k] # NoRow, credentials'[j].user = credentials'[k].user
               PROVE  j = k
    BY DEF UsersUnique
  <2>1. \A l \in Ids : credentials'[l] # NoRow =>
          credentials[l] # NoRow /\ credentials'[l].user = credentials[l].user
    BY <1>2, <1>3
  <2> QED BY <2>1 DEF RInv, UsersUnique
<1> QED BY <1>4, <1>6, <1>7, <1>8 DEF RInv

LEMMA TokenInv ==
  ASSUME RInv, NEW i \in Ids, NEW u \in Users, NEW s \in Secrets, NEW r \in Repositories,
         NEW a \in SUBSET Actions, Token(i, u, s, r, a)
  PROVE  RInv'
<1> DEFINE n == [id |-> i, user |-> u, repository |-> r, actions |-> a,
                 issued |-> now, expires |-> Expiry(i)]
           c == credentials[i]
<1>1. /\ tokens' = tokens \cup {n} /\ credentials' = credentials /\ now' = now
      /\ c # NoRow /\ c \in Rows /\ now \in Nat /\ now < c.expires /\ c.revoked = 0
      /\ c.user = u /\ Allowed(r, c.prefix) /\ a \subseteq c.actions
  BY DEF Token, Authenticate, RInv, RegistryTypeOK
<1>2. /\ Expiry(i) \in Nat /\ now < Expiry(i)
      /\ Expiry(i) <= now + Ttl /\ Expiry(i) <= c.expires
  <2>1. c.expires \in Nat
    BY <1>1, RowTimes
  <2>2. Ttl \in Nat /\ Ttl # 0
    BY RegistryAssumption
  <2>3. now \in Nat /\ now < c.expires
    BY <1>1
  <2> HIDE DEF c
  <2>4. Expiry(i) = IF now + Ttl < c.expires THEN now + Ttl ELSE c.expires
    BY DEF Expiry, c
  <2> QED BY <2>1, <2>2, <2>3, <2>4
<1>3. RegistryTypeOK'
  BY <1>1, <1>2 DEF RInv, RegistryTypeOK
<1>4. Issued'
  BY <1>1, <1>2 DEF RInv, Issued
<1>5. TokenIsScoped'
  BY <1>1 DEF RInv, TokenIsScoped, Allowed
<1>6. UsersUnique'
  BY <1>1 DEF RInv, UsersUnique
<1> QED BY <1>3, <1>4, <1>5, <1>6 DEF RInv

LEMMA TickInv == ASSUME RInv, Tick PROVE RInv'
<1>1. /\ credentials' = credentials /\ now' = now + 1 /\ now < MaxTime
      /\ tokens' = {t \in tokens : now + 1 < t.expires}
  BY DEF Tick
<1>2. RegistryTypeOK'
  <2>1. now' \in 1..MaxTime
    <3>1. MaxTime \in Nat
      BY RegistryAssumption
    <3> QED BY <3>1, <1>1 DEF RInv, RegistryTypeOK
  <2> QED BY <2>1, <1>1 DEF RInv, RegistryTypeOK
<1>3. Issued'
  <2> SUFFICES ASSUME NEW t \in tokens, now + 1 < t.expires
               PROVE  t.issued <= now + 1
    BY <1>1 DEF RInv, Issued
  <2>1. t.issued \in Nat /\ now \in Nat /\ t.issued <= now
    BY DEF RInv, Issued, RegistryTypeOK
  <2> QED BY <2>1
<1>4. TokenIsScoped' /\ UsersUnique'
  BY <1>1 DEF RInv, TokenIsScoped, UsersUnique, Allowed
<1> QED BY <1>2, <1>3, <1>4 DEF RInv

LEMMA RegistryNextInv == RInv /\ [RegistryNext]_registryVars => RInv'
<1> SUFFICES ASSUME RInv, [RegistryNext]_registryVars PROVE RInv'
  OBVIOUS
<1>1. CASE \E i \in Ids, row \in Rows : row.revoked = 0 /\ Register(i, row)
  BY <1>1, RegisterInv
<1>2. CASE \E i \in Ids : Revoke(i)
  BY <1>2, RevokeInv
<1>3. CASE \E i \in Ids, u \in Users, s \in Secrets, r \in Repositories, a \in SUBSET Actions :
             Token(i, u, s, r, a)
  BY <1>3, TokenInv
<1>4. CASE Tick
  BY <1>4, TickInv
<1>5. CASE UNCHANGED registryVars
  BY <1>5 DEF registryVars, RInv, RegistryTypeOK, Issued, TokenIsScoped, UsersUnique, Allowed
<1> QED BY <1>1, <1>2, <1>3, <1>4, <1>5 DEF RegistryNext

LEMMA RegistryInitInv == RegistryInit => RInv
<1> SUFFICES ASSUME RegistryInit PROVE RInv
  OBVIOUS
<1>1. RegistryTypeOK
  <2>1. 1 \in 1..MaxTime
    <3>1. MaxTime \in Nat /\ MaxTime # 0
      BY RegistryAssumption
    <3> QED BY <3>1
  <2> QED BY <2>1 DEF RegistryInit, RegistryTypeOK
<1>2. Issued /\ TokenIsScoped
  BY DEF RegistryInit, Issued, TokenIsScoped
<1>3. UsersUnique
  BY DEF RegistryInit, UsersUnique
<1> QED BY <1>1, <1>2, <1>3 DEF RInv

LEMMA RegistryInvariant == RegistrySpec => []RInv
  BY RegistryInitInv, RegistryNextInv, PTL DEF RegistrySpec

\* What the rows and the tokens hold: the type invariant of the registry.
THEOREM TypesHold == RegistrySpec => []RegistryTypeOK
  BY RegistryInvariant, PTL DEF RInv

\* No token is valid when its credential has expired, nor one lifetime of a
\* token after its revocation: the token is younger than the revocation, and
\* expires one lifetime after it was issued at the latest.
THEOREM AccessDoesEnd == RegistrySpec => []AccessEnds
<1>1. RInv => AccessEnds
  <2> SUFFICES ASSUME RInv, NEW t \in tokens
               PROVE  /\ now < credentials[t.id].expires
                      /\ credentials[t.id].revoked # 0 => now < credentials[t.id].revoked + Ttl
    BY DEF AccessEnds
  <2> DEFINE c == credentials[t.id]
  <2>1. /\ c \in Rows /\ t.issued \in Nat /\ t.expires \in Nat /\ now \in Nat
        /\ now < t.expires /\ t.expires <= t.issued + Ttl /\ t.expires <= c.expires
        /\ c.revoked # 0 => t.issued <= c.revoked
    BY DEF RInv, RegistryTypeOK, Issued
  <2>2. c.expires \in Nat /\ c.revoked \in Nat
    BY <2>1, RowTimes
  <2>3. Ttl \in Nat
    BY RegistryAssumption
  <2> HIDE DEF c
  <2>4. now < c.expires /\ (c.revoked # 0 => now < c.revoked + Ttl)
    BY <2>1, <2>2, <2>3
  <2> QED BY <2>4 DEF c
<1> QED BY <1>1, RegistryInvariant, PTL

\* A token is good for no more than its credential was registered for.
THEOREM TokensAreScoped == RegistrySpec => []TokenIsScoped
  BY RegistryInvariant, PTL DEF RInv

\* Registering never gives a user name to a second credential.
THEOREM UsersAreUnique == RegistrySpec => []UsersUnique
  BY RegistryInvariant, PTL DEF RInv

\* CredentialsHold: for every lifetime, user and repository the registry's
\* answers end, stay within their scope and ask for one password.
THEOREM CredentialsDoHold == RegistrySpec => []CredentialsHold
  BY TypesHold, AccessDoesEnd, TokensAreScoped, UsersAreUnique, PTL DEF CredentialsHold

-----------------------------------------------------------------------------
(***************************************************************************)
(* The artifact gateway.                                                   *)
(***************************************************************************)
\* Requests by their kinds.
LEMMA ServingFacts ==
    ASSUME ArtifactTypeOK
    PROVE  /\ serving.kind = "publish" => serving \in PublishRequests
           /\ serving.kind = "reconcile" => serving \in ReconcileRequests
           /\ serving.kind \notin {"publish", "reconcile"} => serving = Idle
           /\ Idle.kind = "idle"
  BY DEF ArtifactTypeOK, Idle, PublishRequests, ReconcileRequests

LEMMA GatewayTypes ==
    ASSUME ArtifactAssumption, ArtifactTypeOK
    PROVE  /\ files \in [Revisions -> [Files -> [body : Bodies \cup {"none"}, at : 0..LastTime]]]
           /\ manifest \in [Revisions -> [archive : Archives \cup {NoArchive}, at : 0..LastTime]]
           /\ retention \in [Reconciliations -> [request : Requests \cup {NoRequest},
                                                 deleted : SUBSET Revisions]]
           /\ clock \in 1..LastTime /\ clock \in 0..LastTime /\ clock > 0
           /\ acked \in [Revisions -> Archives \cup {NoArchive}]
           /\ nominated \subseteq Revisions /\ emptied \in [Reconciliations -> SUBSET Revisions]
           /\ NoFile \in [body : Bodies \cup {"none"}, at : 0..LastTime]
           /\ NoManifest \in [archive : Archives \cup {NoArchive}, at : 0..LastTime]
           /\ breaks \in 0..MaxBreaks
           /\ LastTime \in Nat \ {0} /\ MaxBreaks \in Nat
           /\ \A a \in Archives : DOMAIN a \subseteq Files /\ \A f \in DOMAIN a : a[f] \in Bodies
  BY DEF ArtifactAssumption, ArtifactTypeOK, NoFile, NoManifest

LEMMA SitesInitInv ==
    ASSUME ArtifactAssumption, SitesInit
    PROVE  SitesInv
<1>1. serving.kind = "idle"
  BY DEF SitesInit, Idle
<1>2. ArtifactTypeOK
  <2>1. /\ NoFile \in [body : Bodies \cup {"none"}, at : 0..LastTime]
        /\ NoManifest \in [archive : Archives \cup {NoArchive}, at : 0..LastTime]
        /\ NoRecord \in [request : Requests \cup {NoRequest}, deleted : SUBSET Revisions]
    BY DEF ArtifactAssumption, NoFile, NoManifest, NoRecord
  <2> HIDE DEF NoFile, NoManifest, NoRecord
  <2> QED BY <2>1 DEF ArtifactTypeOK, SitesInit, ArtifactAssumption
<1>3. ManifestsHold /\ PutsAreDated
  BY DEF ManifestsHold, PutsAreDated, SitesInit
<1>4. PublicationKnown /\ RetentionKnown
  BY <1>1 DEF PublicationKnown, RetentionKnown, Publishes, Reconciles
<1>5. DeletionsKnown
  BY <1>1 DEF DeletionsKnown, SitesInit, Reconciles, NoRecord
<1> QED BY <1>2, <1>3, <1>4, <1>5 DEF SitesInv

\* What depends on the objects only.
LEMMA ObjectsKept ==
    ASSUME UNCHANGED <<files, manifest, acked>>, nominated \subseteq nominated'
    PROVE  /\ ManifestsHold => ManifestsHold'
           /\ PutsAreDated => PutsAreDated'
  BY DEF ManifestsHold, PutsAreDated

LEMMA BeginPublishStep ==
    ASSUME ArtifactAssumption, SitesInv, NEW r \in Revisions, NEW a \in Archives, BeginPublish(r, a)
    PROVE  SitesInv'
<1>1. /\ serving = Idle /\ Index \in DOMAIN a
      /\ UNCHANGED <<files, manifest, retention, clock, breaks, nominated, emptied>>
  BY DEF BeginPublish, Extract, objects, history, Published
<1>2. ArtifactTypeOK /\ ~Reconciles /\ ~Publishes
  BY <1>1, ServingFacts DEF SitesInv, Reconciles, Publishes
<1>3. CASE manifest[r] = NoManifest
  <2> DEFINE p == [kind |-> "publish", rev |-> r, archive |-> a, left |-> DOMAIN a]
  <2>1. serving' = p /\ acked' = acked
    BY <1>3 DEF BeginPublish, history
  <2>2. p \in PublishRequests
    BY GatewayTypes, <1>2 DEF PublishRequests
  <2>3. p.kind = "publish" /\ p.rev = r /\ p.archive = a /\ p.left = DOMAIN a
    OBVIOUS
  <2> HIDE DEF p
  <2>4. ArtifactTypeOK'
    BY <1>1, <1>2, <2>1, <2>2 DEF ArtifactTypeOK
  <2>5. ManifestsHold' /\ PutsAreDated'
    BY <1>1, <2>1, ObjectsKept DEF SitesInv
  <2>6. PublicationKnown'
    BY <1>1, <1>3, <2>1, <2>3 DEF PublicationKnown
  <2>7. RetentionKnown' /\ DeletionsKnown'
    BY <1>1, <1>2, <2>1, <2>3 DEF SitesInv, RetentionKnown, DeletionsKnown, Reconciles
  <2> QED BY <2>4, <2>5, <2>6, <2>7 DEF SitesInv
<1>4. CASE manifest[r] # NoManifest
  <2>1. /\ serving' = serving
        /\ \/ acked' = acked
           \/ manifest[r].archive = a /\ acked' = [acked EXCEPT ![r] = a]
    BY <1>4 DEF BeginPublish, Published, history
  <2>2. ArtifactTypeOK'
    BY <1>1, <1>2, <2>1 DEF ArtifactTypeOK
  <2>3. ManifestsHold'
    BY <1>1, <1>2, <1>4, <2>1, GatewayTypes DEF SitesInv, ManifestsHold
  <2>4. PutsAreDated' /\ PublicationKnown' /\ RetentionKnown' /\ DeletionsKnown'
    BY <1>1, <1>2, <2>1 DEF SitesInv, PutsAreDated, PublicationKnown, RetentionKnown, DeletionsKnown,
                            Reconciles, Publishes
  <2> QED BY <2>2, <2>3, <2>4 DEF SitesInv
<1> QED BY <1>3, <1>4

LEMMA PutFileStep ==
    ASSUME ArtifactAssumption, SitesInv, NEW f \in Files, PutFile(f)
    PROVE  SitesInv'
<1> DEFINE p == serving.rev
           q == [serving EXCEPT !.left = @ \ {f}]
<1>1. /\ serving.kind = "publish" /\ f \in serving.left /\ ArtifactTypeOK
      /\ UNCHANGED <<manifest, retention, clock, breaks, acked, nominated, emptied>>
  BY DEF PutFile, history, SitesInv
<1>2. /\ serving \in PublishRequests /\ p \in Revisions /\ serving.archive \in Archives
      /\ Publishes /\ ~Reconciles
  BY <1>1, ServingFacts DEF PublishRequests, Publishes, Reconciles
<1>3. /\ manifest[p] = NoManifest /\ Index \in DOMAIN serving.archive
      /\ serving.left \subseteq DOMAIN serving.archive
      /\ \A g \in DOMAIN serving.archive \ serving.left : files[p][g].body = serving.archive[g]
  BY <1>2 DEF SitesInv, PublicationKnown
<1>4. /\ q \in PublishRequests /\ q.kind = "publish" /\ q.rev = p /\ q.archive = serving.archive
      /\ q.left = serving.left \ {f}
  BY <1>2 DEF PublishRequests
<1>5. /\ serving.archive[f] \in Bodies
      /\ [body |-> serving.archive[f], at |-> clock] \in [body : Bodies \cup {"none"}, at : 0..LastTime]
      /\ [body |-> serving.archive[f], at |-> clock].body = serving.archive[f]
      /\ [body |-> serving.archive[f], at |-> clock].at = clock
  BY <1>1, <1>2, <1>3, GatewayTypes
<1>6. \/ /\ files[p][f] = NoFile /\ serving' = q
         /\ files' = [files EXCEPT ![p][f] = [body |-> serving.archive[f], at |-> clock]]
      \/ files' = files /\ files[p][f].body = serving.archive[f] /\ serving' = q
      \/ files' = files /\ serving' = Idle
  BY DEF PutFile
<1> HIDE DEF p, q
<1>7. \A r \in Revisions, g \in Files :
        \/ files'[r][g] = files[r][g]
        \/ /\ r = p /\ g = f /\ files'[r][g].body = serving.archive[f]
           /\ files'[r][g].at = clock
  BY <1>1, <1>2, <1>5, <1>6, GatewayTypes
<1>8. files' \in [Revisions -> [Files -> [body : Bodies \cup {"none"}, at : 0..LastTime]]]
  <2> DEFINE File == [body : Bodies \cup {"none"}, at : 0..LastTime]
             x == [body |-> serving.archive[f], at |-> clock]
  <2>1. x \in File /\ files \in [Revisions -> [Files -> File]]
    BY <1>1, <1>5, GatewayTypes
  <2>2. files' = files \/ files' = [files EXCEPT ![p][f] = x]
    BY <1>6
  <2> HIDE DEF File, x
  <2>3. [files EXCEPT ![p][f] = x] \in [Revisions -> [Files -> File]]
    BY <1>2, <2>1
  <2>4. files' \in [Revisions -> [Files -> File]]
    BY <2>1, <2>2, <2>3
  <2> QED BY <2>4 DEF File
<1>9. ArtifactTypeOK'
  BY <1>1, <1>4, <1>6, <1>8 DEF ArtifactTypeOK
<1>10. ManifestsHold'
  <2>1. \A r \in Revisions : manifest[r] # NoManifest => \A g \in Files : files'[r][g] = files[r][g]
    BY <1>3, <1>7
  <2>2. \A r \in Revisions : manifest[r] # NoManifest => DOMAIN manifest[r].archive \subseteq Files
    BY <1>1, GatewayTypes DEF SitesInv, ManifestsHold
  <2>3. manifest' = manifest /\ acked' = acked /\ nominated' = nominated /\ ManifestsHold
    BY <1>1 DEF SitesInv
  <2> QED BY <2>1, <2>2, <2>3 DEF ManifestsHold
<1>11. PutsAreDated'
  BY <1>1, <1>7, GatewayTypes DEF SitesInv, PutsAreDated
<1>12. PublicationKnown'
  <2>1. CASE serving' = Idle
    BY <2>1, ServingFacts, <1>1 DEF PublicationKnown, Publishes
  <2>2. CASE serving' = q
    <3>1. files'[p][f].body = serving.archive[f]
      BY <1>1, <1>2, <1>5, <1>6, <2>2, <1>7, GatewayTypes, ServingFacts, <1>4
    <3>2. DOMAIN serving.archive \subseteq Files
      BY <1>1, <1>2, GatewayTypes
    <3> QED BY <1>1, <1>2, <1>3, <1>4, <1>7, <2>2, <3>1, <3>2 DEF PublicationKnown
  <2> QED BY <1>6, <2>1, <2>2
<1>13. RetentionKnown' /\ DeletionsKnown'
  <2>1. ~Reconciles'
    BY <1>1, <1>4, <1>6, ServingFacts DEF Reconciles
  <2> QED BY <1>1, <1>2, <2>1 DEF SitesInv, RetentionKnown, DeletionsKnown
<1> QED BY <1>9, <1>10, <1>11, <1>12, <1>13 DEF SitesInv

LEMMA PutManifestStep ==
    ASSUME ArtifactAssumption, SitesInv, PutManifest
    PROVE  SitesInv'
<1> DEFINE p == serving.rev
           n == [archive |-> serving.archive, at |-> clock]
<1>1. /\ serving.kind = "publish" /\ serving.left = {} /\ ArtifactTypeOK /\ serving' = Idle
      /\ UNCHANGED <<files, retention, clock, breaks, nominated, emptied>>
      /\ manifest' = [manifest EXCEPT ![p] = n] /\ acked' = [acked EXCEPT ![p] = serving.archive]
  BY DEF PutManifest, Published, SitesInv
<1>2. /\ p \in Revisions /\ serving.archive \in Archives /\ Publishes /\ ~Reconciles
      /\ ~Publishes' /\ ~Reconciles'
  BY <1>1, ServingFacts DEF PublishRequests, Publishes, Reconciles
<1>3. \A f \in DOMAIN serving.archive : files[p][f].body = serving.archive[f]
  BY <1>1, <1>2 DEF SitesInv, PublicationKnown
<1>4. /\ n \in [archive : Archives \cup {NoArchive}, at : 0..LastTime]
      /\ n.archive = serving.archive /\ n.at > 0
  BY <1>1, <1>2, GatewayTypes
<1> HIDE DEF p, n
<1>5. ArtifactTypeOK'
  BY <1>1, <1>2, <1>4 DEF ArtifactTypeOK
<1>6. /\ manifest'[p] = n /\ acked'[p] = serving.archive
      /\ \A r \in Revisions : r # p => manifest'[r] = manifest[r] /\ acked'[r] = acked[r]
  BY <1>1, <1>2, GatewayTypes
<1>7. ManifestsHold'
  BY <1>1, <1>2, <1>3, <1>4, <1>6 DEF SitesInv, ManifestsHold
<1>8. PutsAreDated' /\ PublicationKnown' /\ RetentionKnown' /\ DeletionsKnown'
  BY <1>1, <1>2 DEF SitesInv, PutsAreDated, PublicationKnown, RetentionKnown, DeletionsKnown
<1> QED BY <1>5, <1>7, <1>8 DEF SitesInv

LEMMA BeginReconcileStep ==
    ASSUME ArtifactAssumption, SitesInv, NEW i \in Reconciliations, NEW q \in Requests,
           BeginReconcile(i, q)
    PROVE  SitesInv'
<1> DEFINE n == [kind |-> "reconcile", id |-> i, request |-> q, deleted |-> {},
                 left |-> {r \in q.candidates : Expired(r, q.cutoff)}]
<1>1. /\ serving = Idle /\ retention[i] = NoRecord /\ q.retained \cap q.candidates = {}
      /\ serving' = n /\ ArtifactTypeOK
      /\ UNCHANGED <<files, manifest, retention, clock, breaks, acked, nominated, emptied>>
  BY DEF BeginReconcile, objects, history, SitesInv
<1>2. /\ n \in ReconcileRequests /\ n.kind = "reconcile" /\ n.id = i /\ n.request = q
      /\ n.deleted = {} /\ n.left = {r \in q.candidates : Expired(r, q.cutoff)}
      /\ q.candidates \subseteq Revisions
  BY DEF ReconcileRequests, Requests
<1> HIDE DEF n
<1>3. ~Reconciles /\ Reconciles' /\ ~Publishes'
  BY <1>1, <1>2, ServingFacts DEF Reconciles, Publishes
<1>4. ArtifactTypeOK'
  BY <1>1, <1>2 DEF ArtifactTypeOK
<1>5. ManifestsHold' /\ PutsAreDated' /\ PublicationKnown'
  BY <1>1, <1>3, ObjectsKept DEF SitesInv, PublicationKnown
<1>6. RetentionKnown'
  <2>1. /\ n.left \subseteq q.candidates \ q.retained
        /\ \A r \in n.left : \A t \in Times(r) : t < q.cutoff
    BY <1>1, <1>2 DEF Expired
  <2>2. \A r : Times(r)' = Times(r)
    BY <1>1 DEF Times, Stored
  <2> QED BY <1>1, <1>2, <2>1, <2>2 DEF RetentionKnown
<1>7. DeletionsKnown'
  <2>1. NoRecord.deleted = {}
    BY DEF NoRecord
  <2> QED BY <1>1, <1>2, <1>3, <2>1 DEF SitesInv, DeletionsKnown
<1> QED BY <1>4, <1>5, <1>6, <1>7 DEF SitesInv

\* What is deleted leaves the other revisions as they are, and nothing of its own
\* that was not there.
LEMMA DeleteFacts ==
    ASSUME ArtifactAssumption, ArtifactTypeOK, NEW r \in Revisions, DeleteObject(r)
    PROVE  /\ serving \in ReconcileRequests /\ Reconciles /\ r \in serving.left
           /\ \A s \in Revisions \ {r} : files'[s] = files[s] /\ manifest'[s] = manifest[s]
           /\ \A f \in Files : files'[r][f] \in {files[r][f], NoFile}
           /\ manifest'[r] \in {manifest[r], NoManifest}
           /\ \A s \in Revisions : Times(s)' \subseteq Times(s)
           /\ files' \in [Revisions -> [Files -> [body : Bodies \cup {"none"}, at : 0..LastTime]]]
           /\ manifest' \in [Revisions -> [archive : Archives \cup {NoArchive}, at : 0..LastTime]]
           /\ serving' \in ReconcileRequests /\ serving'.id = serving.id
           /\ serving'.request = serving.request /\ serving'.left \subseteq serving.left
           /\ \/ serving' = serving
              \/ serving'.left = serving.left \ {r} /\ serving'.deleted = serving.deleted \cup {r}
           /\ nominated' = nominated \cup {r}
           /\ emptied' = [emptied EXCEPT ![serving.id] = @ \cup {r}]
           /\ UNCHANGED <<retention, clock, breaks, acked>>
<1>1. /\ serving \in ReconcileRequests /\ Reconciles /\ r \in serving.left
      /\ nominated' = nominated \cup {r}
      /\ emptied' = [emptied EXCEPT ![serving.id] = @ \cup {r}]
      /\ UNCHANGED <<retention, clock, breaks, acked>>
  BY ServingFacts DEF DeleteObject, Reconciles
<1> DEFINE n == [serving EXCEPT !.left = @ \ {r}, !.deleted = @ \cup {r}]
           File == [body : Bodies \cup {"none"}, at : 0..LastTime]
           Manifest == [archive : Archives \cup {NoArchive}, at : 0..LastTime]
<1>2. /\ n \in ReconcileRequests /\ n.id = serving.id /\ n.request = serving.request
      /\ n.left = serving.left \ {r} /\ n.deleted = serving.deleted \cup {r}
  BY <1>1 DEF ReconcileRequests
<1>3. serving' = serving \/ serving' = n
  BY DEF DeleteObject
<1>4. \/ manifest' = manifest /\ \E f \in Files : files' = [files EXCEPT ![r][f] = NoFile]
      \/ files' = files /\ manifest' = [manifest EXCEPT ![r] = NoManifest]
  BY DEF DeleteObject, Stored
<1>5. /\ files \in [Revisions -> [Files -> File]] /\ manifest \in [Revisions -> Manifest]
      /\ NoFile \in File /\ NoManifest \in Manifest
  BY GatewayTypes
<1>6. /\ files' \in [Revisions -> [Files -> File]] /\ manifest' \in [Revisions -> Manifest]
      /\ \A s \in Revisions \ {r} : files'[s] = files[s] /\ manifest'[s] = manifest[s]
      /\ \A f \in Files : files'[r][f] \in {files[r][f], NoFile}
      /\ manifest'[r] \in {manifest[r], NoManifest}
  <2> HIDE DEF File, Manifest
  <2>1. ASSUME NEW f \in Files, files' = [files EXCEPT ![r][f] = NoFile]
        PROVE  /\ files' \in [Revisions -> [Files -> File]]
               /\ \A s \in Revisions \ {r} : files'[s] = files[s]
               /\ \A g \in Files : files'[r][g] \in {files[r][g], NoFile}
    BY <1>5, <2>1
  <2>2. ASSUME manifest' = [manifest EXCEPT ![r] = NoManifest]
        PROVE  /\ manifest' \in [Revisions -> Manifest]
               /\ \A s \in Revisions \ {r} : manifest'[s] = manifest[s]
               /\ manifest'[r] = NoManifest
    BY <1>5, <2>2
  <2> QED BY <1>4, <1>5, <2>1, <2>2
<1>7. \A s \in Revisions : Times(s)' \subseteq Times(s)
  BY <1>6 DEF Times, Stored
<1> QED BY <1>1, <1>2, <1>3, <1>6, <1>7

LEMMA DeleteObjectStep ==
    ASSUME ArtifactAssumption, SitesInv, NEW r \in Revisions, DeleteObject(r)
    PROVE  SitesInv'
<1>1. ArtifactTypeOK
  BY DEF SitesInv
<1>2. /\ serving \in ReconcileRequests /\ Reconciles /\ r \in serving.left
      /\ serving' \in ReconcileRequests /\ serving'.id = serving.id
      /\ serving'.request = serving.request /\ serving'.left \subseteq serving.left
      /\ \/ serving' = serving
         \/ serving'.left = serving.left \ {r} /\ serving'.deleted = serving.deleted \cup {r}
      /\ nominated' = nominated \cup {r} /\ emptied' = [emptied EXCEPT ![serving.id] = @ \cup {r}]
      /\ UNCHANGED <<retention, clock, breaks, acked>>
  BY <1>1, DeleteFacts
<1>3. /\ \A s \in Revisions \ {r} : files'[s] = files[s] /\ manifest'[s] = manifest[s]
      /\ \A f \in Files : files'[r][f] \in {files[r][f], NoFile}
      /\ manifest'[r] \in {manifest[r], NoManifest}
      /\ \A s \in Revisions : Times(s)' \subseteq Times(s)
  BY <1>1, DeleteFacts
<1>4. serving.id \in Reconciliations /\ Reconciles' /\ ~Publishes' /\ serving.left \subseteq Revisions
  BY <1>2 DEF ReconcileRequests, Reconciles, Publishes
<1>5. ArtifactTypeOK'
  BY <1>1, <1>2, <1>4, DeleteFacts DEF ArtifactTypeOK
<1>6. ManifestsHold' /\ PutsAreDated'
  <2>1. PutsAreDated'
    BY <1>2, <1>3, <1>4 DEF SitesInv, PutsAreDated
  <2>2. ASSUME NEW s \in Revisions, s # r
        PROVE  /\ manifest'[s] = manifest[s] /\ files'[s] = files[s] /\ acked'[s] = acked[s]
               /\ s \notin nominated' => s \notin nominated
    BY <1>2, <1>3, <2>2
  <2>3. r \in nominated' /\ acked'[r] = acked[r]
    BY <1>2
  <2> QED BY <1>3, <2>1, <2>2, <2>3 DEF SitesInv, ManifestsHold
<1>7. PublicationKnown'
  BY <1>4 DEF PublicationKnown
<1>8. RetentionKnown
  BY DEF SitesInv
<1>9. RetentionKnown'
  BY <1>2, <1>3, <1>4, <1>8 DEF RetentionKnown
<1>10. DeletionsKnown'
  <2>1. \A i \in Reconciliations : emptied'[i] = IF i = serving.id THEN emptied[i] \cup {r} ELSE emptied[i]
    BY <1>1, <1>2, <1>4, GatewayTypes
  <2>2. serving'.deleted \cup serving'.left = serving.deleted \cup serving.left
    BY <1>2
  <2> QED BY <1>2, <1>4, <2>1, <2>2 DEF SitesInv, DeletionsKnown
<1> QED BY <1>5, <1>6, <1>7, <1>9, <1>10 DEF SitesInv

LEMMA RecordStep ==
    ASSUME ArtifactAssumption, SitesInv, Record
    PROVE  SitesInv'
<1> DEFINE n == [request |-> serving.request, deleted |-> serving.deleted]
<1>1. /\ serving.kind = "reconcile" /\ serving.left = {} /\ serving' = Idle /\ ArtifactTypeOK
      /\ retention' = [retention EXCEPT ![serving.id] = n]
      /\ UNCHANGED <<files, manifest, clock, breaks, acked, nominated, emptied>>
  BY DEF Record, history, SitesInv
<1>2. /\ serving \in ReconcileRequests /\ Reconciles /\ ~Publishes' /\ ~Reconciles'
      /\ serving.id \in Reconciliations
  BY <1>1, ServingFacts DEF ReconcileRequests, Reconciles, Publishes
<1>3. /\ n \in [request : Requests \cup {NoRequest}, deleted : SUBSET Revisions]
      /\ n.request = serving.request /\ n.deleted = serving.deleted
  BY <1>2 DEF ReconcileRequests
<1> HIDE DEF n
<1>4. ArtifactTypeOK'
  BY <1>1, <1>2, <1>3 DEF ArtifactTypeOK
<1>5. ManifestsHold' /\ PutsAreDated' /\ PublicationKnown' /\ RetentionKnown'
  BY <1>1, <1>2, ObjectsKept DEF SitesInv, PublicationKnown, RetentionKnown
<1>6. DeletionsKnown'
  <2>1. \A i \in Reconciliations : retention'[i] = IF i = serving.id THEN n ELSE retention[i]
    BY <1>1, <1>2, GatewayTypes
  <2>2. serving.deleted \subseteq serving.request.candidates
    BY <1>2 DEF SitesInv, RetentionKnown
  <2> QED BY <1>1, <1>2, <1>3, <2>1, <2>2 DEF SitesInv, DeletionsKnown
<1> QED BY <1>4, <1>5, <1>6 DEF SitesInv

LEMMA BreakStep ==
    ASSUME ArtifactAssumption, SitesInv, Break \/ SitesTick
    PROVE  SitesInv'
<1>1. ArtifactTypeOK
  BY DEF SitesInv
<1>2. UNCHANGED <<files, manifest, retention, acked, nominated, emptied>>
  BY DEF Break, SitesTick, objects, history
<1>3. CASE Break
  <2>1. /\ serving' = Idle /\ breaks' = breaks + 1 /\ breaks < MaxBreaks /\ clock' = clock
        /\ breaks \in Nat /\ breaks' \in 0..MaxBreaks
    BY <1>1, <1>3, GatewayTypes DEF Break
  <2>2. ~Publishes' /\ ~Reconciles'
    BY <1>1, <2>1, ServingFacts DEF Publishes, Reconciles
  <2>3. ArtifactTypeOK'
    BY <1>1, <1>2, <2>1 DEF ArtifactTypeOK
  <2>4. ManifestsHold' /\ PutsAreDated' /\ PublicationKnown' /\ RetentionKnown'
    BY <1>2, <2>2, ObjectsKept DEF SitesInv, PublicationKnown, RetentionKnown
  <2>5. DeletionsKnown'
    BY <1>2, <2>1 DEF SitesInv, DeletionsKnown
  <2> QED BY <2>3, <2>4, <2>5 DEF SitesInv
<1>4. CASE SitesTick
  <2>1. serving' = serving /\ breaks' = breaks /\ clock' \in 1..LastTime
    BY <1>1, <1>4, GatewayTypes DEF SitesTick
  <2>2. ArtifactTypeOK'
    BY <1>1, <1>2, <2>1 DEF ArtifactTypeOK
  <2>3. ManifestsHold' /\ PutsAreDated'
    BY <1>2, ObjectsKept DEF SitesInv
  <2>4. PublicationKnown' /\ RetentionKnown' /\ DeletionsKnown'
    BY <1>2, <2>1 DEF SitesInv, PublicationKnown, RetentionKnown, DeletionsKnown, Publishes,
                      Reconciles, Times, Stored
  <2> QED BY <2>2, <2>3, <2>4 DEF SitesInv
<1> QED BY <1>3, <1>4

\* The inductive invariant of the gateway.
THEOREM SitesInvariant == ArtifactAssumption => (SitesSpec => []SitesInv)
<1> SUFFICES ASSUME ArtifactAssumption PROVE SitesSpec => []SitesInv
  OBVIOUS
<1>1. SitesInit => SitesInv
  BY SitesInitInv
<1>2. SitesInv /\ [SitesNext]_siteVars => SitesInv'
  <2>1. ASSUME UNCHANGED siteVars, SitesInv PROVE SitesInv'
    BY <2>1 DEF siteVars, SitesInv, ArtifactTypeOK, ManifestsHold, PutsAreDated, PublicationKnown,
                RetentionKnown, DeletionsKnown, Publishes, Reconciles, Times, Stored
  <2> QED BY <2>1, BeginPublishStep, BeginReconcileStep, PutFileStep, PutManifestStep,
             DeleteObjectStep, RecordStep, BreakStep DEF SitesNext, Serve
<1> QED BY <1>1, <1>2, PTL DEF SitesSpec

\* A site that has a manifest is whole, and the one that was confirmed, however
\* many publications broke off before (ArtifactService.publish_static).
THEOREM SitesStayWhole == ArtifactAssumption => (SitesSpec => [](ArtifactTypeOK /\ SitesAreWhole))
<1>1. SitesInv => PublishedIsWhole
  BY DEF SitesInv, ManifestsHold, PublishedIsWhole, Served
<1>2. SitesInv => (breaks = 0 => DeletedIsRecorded)
  BY DEF SitesInv, DeletionsKnown, RetentionKnown, DeletedIsRecorded
<1>3. SitesInv => ArtifactTypeOK /\ SitesAreWhole
  BY <1>1, <1>2 DEF SitesInv, SitesAreWhole
<1> QED BY <1>3, SitesInvariant, PTL

\* Retention takes nothing that it was told to keep or that is too young, from
\* whatever it finds (ArtifactService.reconcile).
THEOREM RecentStaysKept == ArtifactAssumption => (SitesSpec => [][RecentIsKept]_siteVars)
<1> SUFFICES ASSUME ArtifactAssumption PROVE SitesSpec => [][RecentIsKept]_siteVars
  OBVIOUS
<1>1. SitesInv /\ [SitesNext]_siteVars => [RecentIsKept]_siteVars
  <2> SUFFICES ASSUME SitesInv, SitesNext, NEW r \in Revisions,
                      \/ \E f \in Files : files[r][f] # NoFile /\ files'[r][f] = NoFile
                      \/ manifest[r] # NoManifest /\ manifest'[r] = NoManifest
               PROVE  /\ r \in serving.request.candidates \ serving.request.retained
                      /\ \A t \in Times(r) : t < serving.request.cutoff
    BY DEF RecentIsKept
  <2>1. ArtifactTypeOK
    BY DEF SitesInv
  <2>2. ASSUME NEW s \in Revisions, DeleteObject(s)
        PROVE  /\ r \in serving.request.candidates \ serving.request.retained
               /\ \A t \in Times(r) : t < serving.request.cutoff
    <3>1. r = s /\ r \in serving.left /\ Reconciles
      BY <2>1, <2>2, DeleteFacts
    <3> QED BY <3>1 DEF SitesInv, RetentionKnown
  <2>3. ~\E f \in Files : PutFile(f)
    <3> SUFFICES ASSUME NEW g \in Files, PutFile(g) PROVE FALSE
      OBVIOUS
    <3>1. manifest' = manifest /\ serving \in PublishRequests /\ g \in serving.left /\ clock > 0
      BY <2>1, ServingFacts, GatewayTypes DEF PutFile
    <3>2. serving.rev \in Revisions
      BY <3>1 DEF PublishRequests
    <3> DEFINE x == [body |-> serving.archive[g], at |-> clock]
    <3>3. x.at = clock /\ NoFile.at = 0
      BY DEF NoFile
    <3>4. files' = files \/ files' = [files EXCEPT ![serving.rev][g] = x]
      BY DEF PutFile
    <3> HIDE DEF x
    <3>5. g \in Files /\ files \in [Revisions -> [Files -> [body : Bodies \cup {"none"}, at : 0..LastTime]]]
      BY <2>1, GatewayTypes
    <3>6. \A s \in Revisions, f \in Files : files'[s][f] \in {files[s][f], x}
      <4>1. CASE files' = files
        BY <4>1
      <4>2. CASE files' = [files EXCEPT ![serving.rev][g] = x]
        <5>1. \A s \in Revisions : files'[s] = IF s = serving.rev THEN [files[s] EXCEPT ![g] = x]
                                                                 ELSE files[s]
          BY <3>2, <3>5, <4>2
        <5>2. \A f \in Files : files'[serving.rev][f] = IF f = g THEN x ELSE files[serving.rev][f]
          BY <3>2, <3>5, <5>1
        <5> QED BY <5>1, <5>2
      <4> QED BY <3>4, <4>1, <4>2
    <3> QED BY <3>1, <3>3, <3>6
  <2>4. ~PutManifest
    <3> SUFFICES ASSUME PutManifest PROVE FALSE
      OBVIOUS
    <3> DEFINE x == [archive |-> serving.archive, at |-> clock]
    <3>1. files' = files /\ manifest' = [manifest EXCEPT ![serving.rev] = x]
      BY DEF PutManifest
    <3>2. x.at = clock /\ NoManifest.at = 0 /\ clock > 0
      BY <2>1, GatewayTypes DEF NoManifest
    <3>3. x # NoManifest
      BY <3>2
    <3> HIDE DEF x
    <3>4. manifest'[r] \in {manifest[r], x}
      BY <2>1, <3>1, GatewayTypes
    <3> QED BY <3>1, <3>3, <3>4
  <2>5. (files' = files /\ manifest' = manifest) \/ \E s \in Revisions : DeleteObject(s)
    BY <2>3, <2>4 DEF SitesNext, Serve, BeginPublish, BeginReconcile, Record, Break, SitesTick, objects
  <2> QED BY <2>2, <2>5
<1> QED BY <1>1, SitesInvariant, PTL DEF SitesSpec

\* SitesKept: a site that is served is whole, and stays while it is kept or young.
THEOREM SitesAreKept == ArtifactAssumption => (SitesSpec => SitesKept)
<1> QED BY SitesStayWhole, RecentStaysKept, PTL DEF SitesKept

\* As long as no request breaks off, what a reconciliation deleted had been
\* nominated by the request that is recorded.
THEOREM RequestsAreFixed ==
    ArtifactAssumption => (SitesSpec => [](breaks = 0 => RequestIsFixed))
<1>1. SitesInv => (breaks = 0 => RequestIsFixed)
  BY DEF SitesInv, DeletionsKnown, RetentionKnown, DeletedIsRecorded, RequestIsFixed
<1> QED BY <1>1, SitesInvariant, PTL

-----------------------------------------------------------------------------
(***************************************************************************)
(* The plans and the reports.                                              *)
(***************************************************************************)
\* A manager that is found is the declared one, or has the only lockfile.
LEMMA ManagerFacts ==
    ASSUME NEW p \in Projects, NEW m \in PackageManager(p)
    PROVE  /\ m \in Managers /\ m \in p.locks
           /\ p.locks = {m} \/ p.declared = m
<1>1. p.locks \subseteq Managers
  BY DEF Projects
<1>2. CASE p.declared # ""
  BY <1>1, <1>2 DEF PackageManager
<1>3. CASE p.declared = ""
  <2>1. Cardinality(p.locks) = 1 /\ m \in p.locks
    BY <1>3 DEF PackageManager
  <2>2. IsFiniteSet(Managers)
    <3>1. IsFiniteSet({}) /\ Managers = (({} \cup {"npm"}) \cup {"pnpm"}) \cup {"yarn"}
      BY FS_EmptySet DEF Managers
    <3> QED
      BY <3>1, FS_AddElement
  <2>3. IsFiniteSet(p.locks)
    BY <1>1, <2>2, FS_Subset
  <2>4. PICK x : p.locks = {x}
    BY <2>1, <2>3, FS_Singleton
  <2> QED
    BY <1>1, <2>1, <2>4
<1> QED
  BY <1>2, <1>3

\* What detect_plan makes of a project: a plan of its workload, of the kind its
\* type stands for, that installs what is locked.
LEMMA PlanFacts ==
    ASSUME NEW p \in Projects, NEW q \in DetectPlan(p)
    PROVE  /\ q.type \in Expected(p.workload)
           /\ q.type \in DOMAIN KindOf /\ KindOf[q.type] = q.kind
           /\ q.kind \in {"oci", "static"} /\ q.manager \in Managers \cup {"none"}
           /\ q.kind = "static" <=> p.workload = "static"
           /\ q.manager # "none" =>
                /\ q.manager \in p.locks
                /\ p.locks = {q.manager} \/ p.declared = q.manager
<1> DEFINE M == PackageManager(p)
<1>1. /\ p.workload \in {"web", "static"}
      /\ \A m \in M : m \in Managers /\ m \in p.locks /\ (p.locks = {m} \/ p.declared = m)
  BY ManagerFacts DEF Projects
<1>2. \/ p.workload = "web" /\ q = Plan("dockerfile_web", "oci", "none")
      \/ p.workload = "web" /\ \E m \in M : q = Plan("node_web", "oci", m)
      \/ p.workload = "static" /\ \E m \in M : q = Plan("node_static", "static", m)
      \/ p.workload = "static" /\ q = Plan("plain_static", "static", "none")
  BY <1>1 DEF DetectPlan
<1> HIDE DEF M
<1>3. DOMAIN KindOf = {"dockerfile_web", "node_web", "plain_static", "node_static"}
  BY DEF KindOf
<1>4. /\ KindOf["dockerfile_web"] = "oci" /\ KindOf["node_web"] = "oci"
      /\ KindOf["plain_static"] = "static" /\ KindOf["node_static"] = "static"
  BY DEF KindOf
<1>5. CASE p.workload = "web" /\ q = Plan("dockerfile_web", "oci", "none")
  BY <1>3, <1>4, <1>5 DEF Plan, Expected
<1>6. CASE p.workload = "web" /\ \E m \in M : q = Plan("node_web", "oci", m)
  BY <1>1, <1>3, <1>4, <1>6 DEF Plan, Expected
<1>7. CASE p.workload = "static" /\ \E m \in M : q = Plan("node_static", "static", m)
  BY <1>1, <1>3, <1>4, <1>7 DEF Plan, Expected
<1>8. CASE p.workload = "static" /\ q = Plan("plain_static", "static", "none")
  BY <1>3, <1>4, <1>8 DEF Plan, Expected
<1> QED
  BY <1>2, <1>5, <1>6, <1>7, <1>8

\* What a project prints, and what the log keeps of it.
LEMMA ProjectFacts ==
    ASSUME PlansAssumption, NEW p \in Projects
    PROVE  /\ p.chars \in Nat /\ p.width \in Nat \ {0} /\ p.printed \in Nat \ {0}
           /\ p.allowed \in Nat \ {0}
           /\ AtMost(p.printed, KeptLines) \in Nat /\ AtMost(p.printed, KeptLines) <= KeptLines
           /\ Cut(p.chars) \in Nat /\ Cut(p.chars) <= p.chars /\ Cut(p.chars) <= LineLimit
<1>1. /\ p.chars \in Nat /\ p.width \in Nat \ {0} /\ p.printed \in Nat \ {0} /\ p.allowed \in Nat \ {0}
      /\ KeptLines \in Nat /\ LineLimit \in Nat
  <2>1. p.chars \in Lengths /\ p.width \in Widths /\ p.printed \in Counts /\ p.allowed \in MaxLines
    BY Zenon DEF Projects
  <2> QED
    BY <2>1 DEF PlansAssumption
<1> QED
  BY <1>1 DEF AtMost, Cut

\* Products of naturals grow with their factors.
LEMMA ProductGrows ==
    ASSUME NEW a \in Nat, NEW b \in Nat, NEW c \in Nat, NEW d \in Nat, a <= c, b <= d
    PROVE  a * b \in Nat /\ a * b <= c * d
<1>1. PICK x \in Nat, y \in Nat : c = a + x /\ d = b + y
  <2>1. c - a \in Nat /\ d - b \in Nat /\ c = a + (c - a) /\ d = b + (d - b)
    OBVIOUS
  <2> QED
    BY <2>1
<1>2. c * d = a * b + (a * y + x * b + x * y)
  BY <1>1
<1>3. a * b \in Nat /\ a * y \in Nat /\ x * b \in Nat /\ x * y \in Nat
  BY <1>1
<1> DEFINE ab == a * b
           ay == a * y
           xb == x * b
           xy == x * y
           cd == c * d
<1> HIDE DEF ab, ay, xb, xy, cd
<1>4. cd = ab + (ay + xb + xy) /\ ab \in Nat /\ ay \in Nat /\ xb \in Nat /\ xy \in Nat
  BY <1>2, <1>3 DEF ab, ay, xb, xy, cd
<1>5. ab \in Nat /\ ab <= cd
  BY <1>4
<1> QED
  BY <1>5 DEF ab, cd

\* The cut saves no line: what does not fit as it was printed is still too long
\* when it has been cut and has its timestamp.
LEMMA CutSavesNone ==
    ASSUME PlansAssumption, NEW p \in Projects
    PROVE  /\ Prefix + p.width * Cut(p.chars) \in Nat \ {0}
           /\ Prefix + p.width * Cut(p.chars) <= Prefix + p.width * p.chars
           /\ Prefix + p.width * Cut(p.chars) <= LineLimit <=> LineFits(p)
<1>1. /\ p.chars \in Nat /\ p.width \in Nat \ {0} /\ Cut(p.chars) \in Nat /\ Cut(p.chars) <= p.chars
      /\ Prefix \in Nat \ {0} /\ LineLimit \in Nat
  BY ProjectFacts DEF PlansAssumption
<1>2. /\ p.width * Cut(p.chars) \in Nat
      /\ p.width * Cut(p.chars) <= p.width * p.chars
  BY <1>1, ProductGrows
<1>3. 1 * Cut(p.chars) <= p.width * Cut(p.chars)
  BY <1>1, ProductGrows
<1>4. p.width * p.chars \in Nat /\ 1 * Cut(p.chars) = Cut(p.chars)
  BY <1>1
<1> DEFINE short == p.width * Cut(p.chars)
           long == p.width * p.chars
<1>5. /\ short \in Nat /\ long \in Nat /\ short <= long /\ Cut(p.chars) <= short
      /\ LineFits(p) <=> Prefix + long <= LineLimit
      /\ Cut(p.chars) = p.chars => short = long
  BY <1>2, <1>3, <1>4 DEF LineFits
<1>6. Cut(p.chars) = p.chars \/ Cut(p.chars) = LineLimit
  BY <1>1 DEF Cut, AtMost
<1> HIDE DEF short, long
<1>7. /\ Prefix + short \in Nat \ {0} /\ Prefix + short <= Prefix + long
      /\ Prefix + short <= LineLimit <=> LineFits(p)
  BY <1>1, <1>5, <1>6
<1> QED
  BY <1>7 DEF short, long

\* The bytes and lines of a first report.
LEMMA ReportFacts ==
    ASSUME PlansAssumption, project \in Projects, NEW r, LogOf(r)
    PROVE  /\ r.head = Prefix /\ r.text \in Nat /\ r.lines \in Nat /\ r.lines <= KeptLines
           /\ r.lines <= project.allowed <=> LogFits(project)
           /\ Written(r) \in Nat \ {0}
           /\ Written(r) <= Prefix + project.width * project.chars
           /\ DetectPlan(project) # {} => (Written(r) <= LineLimit <=> LineFits(project))
<1>1. /\ project.width \in Nat /\ project.chars \in Nat /\ Prefix \in Nat \ {0}
      /\ Cut(project.chars) \in Nat
      /\ r.head = Prefix /\ r.lines = AtMost(project.printed, KeptLines)
      /\ r.lines \in Nat /\ r.lines <= KeptLines
  BY ProjectFacts DEF PlansAssumption, LogOf
<1>2. r.lines <= project.allowed <=> LogFits(project)
  BY <1>1 DEF LogFits
<1>3. CASE r.text = Cut(project.chars)
  <2>1. Written(r) = Prefix + project.width * Cut(project.chars)
    BY <1>1, <1>3 DEF Written
  <2> QED
    BY <1>1, <1>2, <1>3, <2>1, CutSavesNone
<1>4. CASE r.text = 0 /\ DetectPlan(project) = {}
  <2>1. project.width * r.text = 0 /\ project.width * project.chars \in Nat
    BY <1>1, <1>4
  <2>2. Written(r) = Prefix
    BY <1>1, <2>1 DEF Written
  <2>3. Prefix <= Prefix + project.width * project.chars
    BY <1>1, <2>1
  <2> QED
    BY <1>1, <1>2, <1>4, <2>2, <2>3
<1> QED
  BY <1>3, <1>4 DEF LogOf

LEMMA PlansStart == PlansInit => PlansInv
<1> SUFFICES ASSUME PlansInit PROVE PlansInv
  OBVIOUS
<1>1. NoPlan.kind = "none" /\ NoPlan.manager = "none" /\ NoResult.status = "none"
  BY DEF NoPlan, NoResult
<1>2. project \in Projects /\ pc = "detect" /\ plan = NoPlan /\ result = NoResult /\ answer = 0 /\ event = 0
  BY Zenon DEF PlansInit
<1>3. PlansTypeOK
  BY <1>1, <1>2 DEF PlansTypeOK
<1> QED
  BY <1>2, <1>3 DEF PlansInv, FirstReport, GivenUp, FromOutside, Accepted,
                    OutcomeIsOfBuild, EventIsAccepted

LEMMA DetectKeepsPlans ==
    ASSUME PlansAssumption, PlansInv, Detect
    PROVE  PlansInv'
<1>1. /\ project \in Projects /\ UNCHANGED <<project, answer, event>> /\ pc = "detect" /\ answer = 0
      /\ event \in {0, 200, 422} /\ result.status \in {"none", "completed", "failed"}
      /\ plan = NoPlan /\ plan.kind \in {"none", "oci", "static"} /\ plan.manager \in Managers \cup {"none"}
  BY DEF Detect, PlansInv, PlansTypeOK
<1>2. CASE \E q \in DetectPlan(project) : plan' = q /\ pc' = "build" /\ UNCHANGED result
  <2>1. plan' \in DetectPlan(project) /\ pc' = "build" /\ UNCHANGED result
    BY <1>1, <1>2
  <2>2. plan'.kind \in {"oci", "static"} /\ plan'.manager \in Managers \cup {"none"}
    BY <1>1, <2>1, PlanFacts
  <2>3. PlansTypeOK'
    BY <1>1, <2>1, <2>2 DEF PlansTypeOK
  <2> QED
    BY <1>1, <2>1, <2>3 DEF PlansInv, FirstReport, GivenUp, FromOutside, Accepted,
                            OutcomeIsOfBuild, EventIsAccepted
<1>3. CASE /\ DetectPlan(project) = {} /\ pc' = "submit" /\ UNCHANGED plan
           /\ result' = Report("failed", NoPlan, Prefix, 0, AtMost(project.printed, KeptLines))
  <2>1. /\ result'.status = "failed" /\ result'.head = Prefix /\ result'.text = 0
        /\ result'.lines = AtMost(project.printed, KeptLines)
    BY <1>3 DEF Report
  <2>2. LogOf(result)'
    BY <1>1, <1>3, <2>1 DEF LogOf
  <2>3. PlansTypeOK'
    BY <1>1, <1>3, <2>1 DEF PlansTypeOK
  <2>4. FirstReport'
    BY <1>1, <1>3, <2>1, <2>2 DEF FirstReport, Builds
  <2> QED
    BY <1>1, <1>3, <2>3, <2>4 DEF PlansInv, GivenUp, FromOutside, Accepted, OutcomeIsOfBuild, EventIsAccepted
<1> QED
  BY <1>2, <1>3 DEF Detect

LEMMA BuildKeepsPlans ==
    ASSUME PlansAssumption, PlansInv, BuildProject
    PROVE  PlansInv'
<1>1. /\ project \in Projects /\ plan \in DetectPlan(project) /\ UNCHANGED <<project, plan, answer, event>>
      /\ pc' = "submit" /\ answer = 0 /\ project.output \in BOOLEAN
  <2>1. pc = "build" /\ project \in Projects
    BY DEF BuildProject, PlansInv, PlansTypeOK
  <2>2. plan \in DetectPlan(project) /\ answer = 0
    BY <2>1, ZenonT(60) DEF PlansInv
  <2>3. project.output \in BOOLEAN
    BY <2>1, Zenon DEF Projects
  <2> QED
    BY <2>1, <2>2, <2>3 DEF BuildProject
<1>2. result' = Report(IF project.output THEN "completed" ELSE "failed",
                       IF project.output THEN plan ELSE NoPlan,
                       Prefix, Cut(project.chars), AtMost(project.printed, KeptLines))
  BY DEF BuildProject
<1>3. /\ result'.status = IF project.output THEN "completed" ELSE "failed"
      /\ result'.plan = IF project.output THEN plan ELSE NoPlan
      /\ result'.head = Prefix /\ result'.text = Cut(project.chars)
      /\ result'.lines = AtMost(project.printed, KeptLines)
  BY <1>2 DEF Report
<1>4. LogOf(result)'
  BY <1>1, <1>3 DEF LogOf
<1>5. PlansTypeOK'
  BY <1>1, <1>3 DEF PlansInv, PlansTypeOK
<1>6. FirstReport'
  BY <1>1, <1>3, <1>4 DEF FirstReport, Builds
<1> QED
  BY <1>1, <1>5, <1>6 DEF PlansInv, GivenUp, FromOutside, Accepted, OutcomeIsOfBuild, EventIsAccepted

\* A first report is taken just when it fits; one that was refused is refused
\* again.
LEMMA SubmitKeepsPlans ==
    ASSUME PlansAssumption, PlansInv, SubmitReport
    PROVE  PlansInv'
<1>1. /\ project \in Projects /\ pc = "submit" /\ UNCHANGED <<project, plan, result, event>>
      /\ answer' \in {202, 409, 422} /\ LineLimit \in Nat /\ project.allowed \in Nat
      /\ pc' = IF answer' = 202 THEN "event" ELSE IF result.status = "completed" THEN "fail" ELSE "observe"
  BY ProjectFacts DEF SubmitReport, PlansInv, PlansTypeOK, PlansAssumption
<1>2. /\ ~Parses(result) => answer' = 422
      /\ Parses(result) /\ (result.status = "completed" => result.plan.type \in Expected(project.workload))
           => answer' = 202
  BY DEF SubmitReport
<1>3. PlansTypeOK'
  BY <1>1 DEF PlansInv, PlansTypeOK
<1>4. CASE answer = 0
  <2>1. /\ LogOf(result) /\ result.status \in {"completed", "failed"}
        /\ result.status = "completed" <=> Builds(project)
        /\ result.status = "completed" => result.plan \in DetectPlan(project)
    BY <1>1, <1>4 DEF PlansInv, FirstReport
  <2>2. result.status = "completed" =>
          /\ result.plan.type \in Expected(project.workload)
          /\ result.plan.type \in DOMAIN KindOf /\ KindOf[result.plan.type] = result.plan.kind
    BY <1>1, <2>1, PlanFacts
  <2>3. /\ result.head = Prefix /\ result.text \in Nat /\ result.lines \in Nat /\ result.lines <= KeptLines
        /\ result.lines <= project.allowed <=> LogFits(project)
        /\ Written(result) \in Nat \ {0}
        /\ DetectPlan(project) # {} => (Written(result) <= LineLimit <=> LineFits(project))
    BY <1>1, <2>1, ReportFacts
  <2>4. Parses(result) <=> result.lines <= project.allowed /\ Written(result) <= LineLimit
    BY <1>1, <2>2, <2>3 DEF Parses
  <2>5. answer' = IF Parses(result) THEN 202 ELSE 422
    BY <1>1, <1>2, <2>2
  <2>6. Builds(project) => (Parses(result) <=> Outcome(project))
    BY <2>3, <2>4 DEF Builds, Outcome
  <2>7. ~Parses(result) => TooLarge(result)
    BY <1>1, <2>3, <2>4 DEF TooLarge
  <2>8. Outcome(project) => Builds(project)
    BY DEF Outcome
  <2>9. CASE Parses(result)
    <3>1. answer' = 202 /\ pc' = "event"
      BY <1>1, <2>5, <2>9
    <3>2. Accepted'
      <4>1. result.status = "completed" <=> Outcome(project)
        BY <2>1, <2>6, <2>8, <2>9
      <4>2. LogOf(result)'
        BY <1>1, <2>1 DEF LogOf
      <4>3. Outcome(project)' = Outcome(project) /\ result'.status = result.status
        BY <1>1 DEF Outcome, Builds, LineFits, LogFits
      <4> QED
        BY <4>1, <4>2, <4>3 DEF Accepted
    <3> QED
      BY <1>1, <1>3, <3>1, <3>2 DEF PlansInv, FirstReport, GivenUp, FromOutside, OutcomeIsOfBuild, EventIsAccepted
  <2>10. CASE ~Parses(result)
    <3>1. answer' = 422 /\ pc' = IF result.status = "completed" THEN "fail" ELSE "observe"
      BY <1>1, <2>5, <2>10
    <3>2. ~Outcome(project) /\ TooLarge(result)
      BY <2>6, <2>7, <2>8, <2>10
    <3>3. (~Outcome(project) /\ TooLarge(result))'
      BY <1>1, <3>2 DEF Outcome, Builds, LineFits, LogFits, TooLarge, Written
    <3>4. GivenUp'
      BY <3>1, <3>3 DEF GivenUp
    <3>5. FromOutside'
      BY <1>1, <2>1, <3>1, <3>3 DEF FromOutside
    <3> QED
      BY <1>1, <1>3, <3>1, <3>4, <3>5 DEF PlansInv, FirstReport, Accepted, OutcomeIsOfBuild, EventIsAccepted
  <2> QED
    BY <2>9, <2>10
<1>5. CASE answer # 0
  <2>1. TooLarge(result) /\ ~Outcome(project) /\ result.status = "failed"
    BY <1>1, <1>5 DEF PlansInv, GivenUp
  <2>2. ~Parses(result)
    <3>1. CASE Written(result) > LineLimit
      <4>1. Written(result) \notin 1..LineLimit
        BY <1>1, <3>1
      <4> QED
        BY <4>1 DEF Parses
    <3>2. CASE result.lines > project.allowed
      <4>1. ~(result.lines <= project.allowed)
        BY <1>1, <2>1, <3>2 DEF TooLarge
      <4> QED
        BY <4>1 DEF Parses
    <3> QED
      BY <2>1, <3>1, <3>2 DEF TooLarge
  <2>3. answer' = 422 /\ pc' = "observe" /\ result'.status = "failed"
    BY <1>1, <1>2, <2>1, <2>2
  <2>4. ~Outcome(project)'
    BY <1>1, <2>1 DEF Outcome, Builds, LineFits, LogFits
  <2> QED
    BY <1>1, <1>3, <2>3, <2>4 DEF PlansInv, FirstReport, GivenUp, FromOutside, Accepted,
                                  OutcomeIsOfBuild, EventIsAccepted
<1> QED
  BY <1>4, <1>5

\* The failure takes the log with it that was refused.
LEMMA FailKeepsPlans ==
    ASSUME PlansAssumption, PlansInv, ReportFailure
    PROVE  PlansInv'
<1>1. /\ project \in Projects /\ pc' = "submit" /\ UNCHANGED <<project, plan, answer, event>>
      /\ answer = 422 /\ TooLarge(result) /\ ~Outcome(project)
  BY DEF ReportFailure, PlansInv, PlansTypeOK, GivenUp
<1>2. /\ result'.status = "failed" /\ result'.head = result.head /\ result'.text = result.text
      /\ result'.lines = AtMost(result.lines + 1, KeptLines)
  BY DEF ReportFailure, Report
<1>3. /\ result.lines \in Nat /\ result.lines <= KeptLines /\ KeptLines \in Nat
      /\ project.allowed \in Nat
  BY <1>1, ProjectFacts DEF TooLarge, PlansAssumption
<1>4. result'.lines \in Nat /\ result'.lines <= KeptLines /\ result.lines <= result'.lines
  BY <1>2, <1>3 DEF AtMost
<1>5. result.lines > project.allowed => result'.lines > project.allowed
  BY <1>3, <1>4
<1>6. TooLarge(result)'
  BY <1>1, <1>2, <1>4, <1>5 DEF TooLarge, Written
<1>7. ~Outcome(project)'
  BY <1>1 DEF Outcome, Builds, LineFits, LogFits
<1>8. PlansTypeOK'
  BY <1>1, <1>2 DEF PlansInv, PlansTypeOK
<1>9. GivenUp'
  BY <1>1, <1>2, <1>6, <1>7 DEF GivenUp
<1> QED
  BY <1>1, <1>8, <1>9 DEF PlansInv, FirstReport, FromOutside, Accepted, OutcomeIsOfBuild, EventIsAccepted

LEMMA ObserveKeepsPlans ==
    ASSUME PlansAssumption, PlansInv, ObserveJob
    PROVE  PlansInv'
<1>1. /\ pc' = "event" /\ UNCHANGED <<project, plan, answer, event>>
      /\ answer = 422 /\ ~Outcome(project)
  BY DEF ObserveJob, PlansInv, FromOutside
<1>2. result'.status = "failed"
  BY DEF ObserveJob, Report
<1>3. ~Outcome(project)'
  BY <1>1 DEF Outcome, Builds, LineFits, LogFits
<1>4. PlansTypeOK'
  BY <1>1, <1>2 DEF PlansInv, PlansTypeOK
<1>5. FromOutside'
  BY <1>1, <1>2, <1>3 DEF FromOutside
<1> QED
  BY <1>1, <1>4, <1>5 DEF PlansInv, FirstReport, GivenUp, Accepted, OutcomeIsOfBuild, EventIsAccepted

\* An event that is refused of a report carries more than fits.
LEMMA SendKeepsPlans ==
    ASSUME PlansAssumption, PlansInv, SendEvent
    PROVE  PlansInv'
<1>1. /\ pc = "event" /\ UNCHANGED <<project, plan, result, answer>> /\ project \in Projects
      /\ event' = IF Written(result) * LogTail(result.lines) > Evidence THEN 422 ELSE 200
      /\ pc' = IF event' = 422 /\ answer # 202 THEN "observe" ELSE "done"
  BY DEF SendEvent, PlansInv, PlansTypeOK
<1>2. PlansTypeOK'
  BY <1>1 DEF PlansInv, PlansTypeOK
<1>3. Outcome(project)' = Outcome(project)
  BY <1>1 DEF Outcome, Builds, LineFits, LogFits
<1>4. CASE answer = 202
  <2>1. LogOf(result) /\ (result.status = "completed" <=> Outcome(project)) /\ pc' = "done"
    BY <1>1, <1>4 DEF PlansInv, Accepted
  <2>2. OutcomeIsOfBuild'
    BY <1>1, <1>3, <1>4, <2>1 DEF OutcomeIsOfBuild, Outcome
  <2>3. event' # 200 => ~EndFits(project)
    <3> DEFINE most == Prefix + project.width * project.chars
               tail == AtMost(project.printed, TailLines)
    <3>1. /\ Written(result) \in Nat /\ Written(result) <= most
          /\ result.lines = AtMost(project.printed, KeptLines)
      BY <1>1, <2>1, ReportFacts DEF LogOf
    <3>2. /\ project.printed \in Nat /\ KeptLines \in Nat /\ TailLines \in Nat
          /\ Evidence \in Nat /\ Prefix \in Nat /\ project.width \in Nat /\ project.chars \in Nat
      BY <1>1, ProjectFacts DEF PlansAssumption
    <3>3. LogTail(result.lines) \in Nat /\ tail \in Nat /\ LogTail(result.lines) <= tail
      BY <3>1, <3>2 DEF LogTail, AtMost
    <3>4. most \in Nat
      <4>1. project.width * project.chars \in Nat
        BY <3>2
      <4> QED
        BY <3>2, <4>1
    <3> HIDE DEF most, tail
    <3>5. /\ LogTail(result.lines) * Written(result) \in Nat
          /\ LogTail(result.lines) * Written(result) <= tail * most
      BY <3>1, <3>3, <3>4, ProductGrows
    <3>6. Written(result) * LogTail(result.lines) = LogTail(result.lines) * Written(result)
      BY <3>1, <3>3
    <3>7. tail * most \in Nat
      BY <3>3, <3>4
    <3>8. event' # 200 => ~(tail * most <= Evidence)
      BY <1>1, <3>2, <3>5, <3>6, <3>7
    <3> QED
      BY <3>8 DEF EndFits, most, tail
  <2>4. EventIsAccepted'
    BY <1>1, <1>4, <2>3 DEF EventIsAccepted, EndFits
  <2> QED
    BY <1>1, <1>2, <1>4, <2>1, <2>2, <2>4 DEF PlansInv, FirstReport, GivenUp, FromOutside, Accepted
<1>5. CASE answer # 202
  <2>1. answer = 422 /\ result.status = "failed" /\ ~Outcome(project)
    BY <1>1, <1>5 DEF PlansInv, FromOutside
  <2>2. pc' \in {"observe", "done"} /\ (pc' = "done" => event' = 200)
    BY <1>1, <1>5
  <2>3. FromOutside' /\ OutcomeIsOfBuild' /\ EventIsAccepted'
    BY <1>1, <1>3, <2>1, <2>2 DEF FromOutside, OutcomeIsOfBuild, Outcome, EventIsAccepted
  <2> QED
    BY <1>1, <1>2, <2>1, <2>2, <2>3 DEF PlansInv, FirstReport, GivenUp, Accepted
<1> QED
  BY <1>4, <1>5

\* The plans stay what the projects ask for, and the reports what was built
\* (detect_plan of build_controller/plans.py, worker.py, accept_result and
\* _observe_job of build_controller/controller.py).
THEOREM PlansInvariant == PlansAssumption => (PlansSpec => []PlansInv)
<1> SUFFICES ASSUME PlansAssumption PROVE PlansSpec => []PlansInv
  OBVIOUS
<1>1. PlansInit => PlansInv
  BY PlansStart
<1>2. PlansInv /\ [PlansNext]_planVars => PlansInv'
  <2> SUFFICES ASSUME PlansInv, [PlansNext]_planVars PROVE PlansInv'
    OBVIOUS
  <2>1. CASE UNCHANGED planVars
    BY <2>1 DEF planVars, PlansInv, PlansTypeOK, FirstReport, GivenUp, FromOutside, Accepted,
                OutcomeIsOfBuild, EventIsAccepted, LogOf, TooLarge, Written, Outcome, Builds,
                LineFits, LogFits, EndFits
  <2> QED
    BY <2>1, DetectKeepsPlans, BuildKeepsPlans, SubmitKeepsPlans, FailKeepsPlans,
       ObserveKeepsPlans, SendKeepsPlans DEF PlansNext
<1> QED
  BY <1>1, <1>2, PTL DEF PlansSpec

\* ReportsAccepted: a plan installs what the project locked and makes what the
\* service serves; a build is told to have succeeded just when it has and its log
\* fits the controller to the byte; and only an end of the log too large for the
\* control plane has an event refused for ever; for every project and every
\* length, width, number and limit (contracts.py, application.py, controller.py
\* and BuildEvents::Consume).
THEOREM ReportsAreAccepted == PlansAssumption => (PlansSpec => []ReportsAccepted)
<1> SUFFICES ASSUME PlansAssumption PROVE PlansSpec => []ReportsAccepted
  OBVIOUS
<1>1. PlansInv => ReportsAccepted
  <2> SUFFICES ASSUME PlansInv PROVE PlanIsUnambiguous
    BY DEF PlansInv, ReportsAccepted
  <2> QED
    BY PlanFacts DEF PlansInv, PlansTypeOK, PlanIsUnambiguous
<1> QED
  BY <1>1, PlansInvariant, PTL
================================================================================
