-------------------------- MODULE LegacyDeployProofs --------------------------
(***************************************************************************)
(* Theorems about what the worker of the FastAPI application does with     *)
(* containers and directories: its deployment pipeline and its storages.   *)
(*                                                                         *)
(* What is routed has answered whatever happens: ServedInv is inductive    *)
(* with no more than the types.  The others hold when nobody cancels and   *)
(* nothing fails (Reliable), and follow from PipelineInv, which says at    *)
(* each status of a deployment what is queued, running and known of it.    *)
(* For each action, one lemma (...Fits) shows that the deployment it acts  *)
(* on is left in a stage that fits, and one (...Frames) that the stage of  *)
(* every other deployment is left alone.                                   *)
(*                                                                         *)
(* Storages: StorageInv says that rows, names, jobs and directories fit,   *)
(* whatever happens.  On it rest three invariants, each of the storages it *)
(* holds of: OwnInv (people wait, so a storage has one unfinished job),    *)
(* ActiveInv (no job fails and none meets the job of another storage) and  *)
(* MountInv (volumes).  One lemma per action (...Is) says what it does to  *)
(* rows, jobs and directories, and the invariants are shown from that.     *)
(***************************************************************************)
EXTENDS LegacyDeploy, StorageLifecycle, SequenceTheorems, FiniteSetTheorems, TLAPS

-----------------------------------------------------------------------------
(* Types.                                                                  *)

LEMMA JobNames ==
    ASSUME NEW kind \in Kinds, NEW d \in Deployments
    PROVE  <<kind, d>> \in Jobs
BY DEF Jobs

LEMMA KindNames ==
    \A s \in {"start", "finalize", "fail", "delete", "cancel", "request"} : s \in Kinds
BY DEF Kinds

LEMMA GotoTypes ==
    ASSUME task \in [Places -> Points], NEW kind \in Kinds, NEW d \in Deployments,
           NEW pc \in Points, Goto(kind, d, pc)
    PROVE  task' \in [Places -> Points]
BY JobNames DEF Goto, Places

LEMMA EnqueueTypes ==
    ASSUME queue \subseteq Jobs \cup {Cleanup}, NEW kind \in Kinds, NEW d \in Deployments,
           Enqueue(kind, d)
    PROVE  queue' \subseteq Jobs \cup {Cleanup}
BY JobNames DEF Enqueue

LEMMA TakeTypes ==
    ASSUME queue \subseteq Jobs \cup {Cleanup}, NEW kind \in Kinds, NEW d \in Deployments,
           Take(kind, d)
    PROVE  queue' \subseteq Jobs \cup {Cleanup}
BY DEF Take

LEMMA StopTypes ==
    ASSUME NEW b \in Boxes
    PROVE  Stop(b) \in Boxes
BY DEF Stop, Boxes

LEMMA StopSeenTypes ==
    ASSUME LDTypeOK, NEW who \in {"cancel", "fail"}, NEW d \in Deployments, StopSeen(who, d)
    PROVE  /\ row' \in [Deployments -> Rows] /\ box' \in [Deployments -> Boxes]
           /\ queue' \subseteq Jobs \cup {Cleanup}
  <1> DEFINE r == seen[<<who, d>>]
  <1>1. /\ row \in [Deployments -> Rows] /\ box \in [Deployments -> Boxes]
        /\ queue \subseteq Jobs \cup {Cleanup}
    BY DEF LDTypeOK
  <1>2. CASE /\ box' = [box EXCEPT ![d] = Stop(@)]
             /\ Enqueue("delete", d)
             /\ row' = [row EXCEPT ![d].container_status = "stopped"]
    <2>1. queue' \subseteq Jobs \cup {Cleanup}
      BY <1>1, <1>2, EnqueueTypes, KindNames
    <2>2. box' \in [Deployments -> Boxes]
      BY <1>1, <1>2, StopTypes
    <2>3. row' \in [Deployments -> Rows]
      BY <1>1, <1>2 DEF Rows
    <2> QED BY <2>1, <2>2, <2>3
  <1>3. CASE /\ row' = [row EXCEPT ![d].container_status = "removed"]
             /\ UNCHANGED <<box, queue>>
    BY <1>1, <1>3 DEF Rows
  <1>4. CASE UNCHANGED <<row, box, queue>>
    BY <1>1, <1>4
  <1> QED BY <1>2, <1>3, <1>4 DEF StopSeen

LEMMA AliasTypes ==
    ASSUME LDTypeOK
    PROVE  /\ \A d \in Deployments : SetupAliases(d) \in [Keys -> AliasRows]
           /\ \A S : TraefikConfig(S) \in Files
           /\ NoFile \in Files
           /\ Rollback \in Writers /\ \A d \in Deployments : <<"finalize", d>> \in Writers
BY DEF LDTypeOK, SetupAliases, TraefikConfig, Files, NoFile, AliasRows, Writers

LEMMA RowTypes ==
    ASSUME NEW r \in Rows
    PROVE  /\ \A s \in {"prepare", "deploy", "finalize", "fail", "completed"} :
                 [r EXCEPT !.status = s] \in Rows
           /\ \A c \in {"succeeded", "failed", "canceled"} : [r EXCEPT !.conclusion = c] \in Rows
           /\ \A s \in {"running", "stopped", "removed"} : [r EXCEPT !.container_status = s] \in Rows
           /\ \A n \in Nat : [r EXCEPT !.container_id = n] \in Rows
           /\ [r EXCEPT !.job_id = TRUE] \in Rows
           /\ r.container_id \in Nat
BY DEF Rows, Statuses


LEMMA AbsentTypes == Absent \in Rows
BY DEF Absent, Rows, Statuses

LEMMA RequestTypes ==
    ASSUME LDTypeOK, NEW d \in Deployments,
           Create(d) \/ Request(d) \/ CancelAsk(d)
    PROVE  LDTypeOK'
  <1>1. CASE Create(d)
    <2>1. row' \in [Deployments -> Rows]
      BY <1>1, RowTypes DEF LDTypeOK, Create
    <2>2. task' \in [Places -> Points]
      BY <1>1, GotoTypes, KindNames DEF LDTypeOK, Create, Points
    <2> QED BY <1>1, <2>1, <2>2 DEF LDTypeOK, Create
  <1>2. CASE EnqueueStart(d)
    <2>1. task' \in [Places -> Points]
      BY <1>2, GotoTypes, KindNames DEF LDTypeOK, EnqueueStart, Points
    <2>2. queue' \subseteq Jobs \cup {Cleanup}
      BY <1>2, EnqueueTypes, KindNames DEF LDTypeOK, EnqueueStart
    <2> QED BY <1>2, <2>1, <2>2 DEF LDTypeOK, EnqueueStart
  <1>3. CASE SaveJobId(d)
    <2>1. row' \in [Deployments -> Rows]
      BY <1>3, RowTypes DEF LDTypeOK, SaveJobId
    <2>2. task' \in [Places -> Points]
      BY <1>3, GotoTypes, KindNames DEF LDTypeOK, SaveJobId, Points
    <2> QED BY <1>3, <2>1, <2>2 DEF LDTypeOK, SaveJobId
  <1>4. CASE CancelCommit(d)
    <2>1. row' \in [Deployments -> Rows]
      <3>1. CASE UNCHANGED row
        BY <3>1 DEF LDTypeOK
      <3>2. CASE row' = [row EXCEPT ![d].status = "completed", ![d].conclusion = "canceled"]
        BY <3>2, RowTypes DEF LDTypeOK
      <3> QED BY <1>4, <3>1, <3>2 DEF CancelCommit
    <2>2. task' \in [Places -> Points]
      BY <1>4, GotoTypes, KindNames DEF LDTypeOK, CancelCommit, Points
    <2> QED BY <1>4, <2>1, <2>2 DEF LDTypeOK, CancelCommit
  <1>5. CASE CancelAbort(d)
    <2>1. task' \in [Places -> Points]
      BY <1>5, GotoTypes, KindNames DEF LDTypeOK, CancelAbort, Points
    <2> QED BY <1>5, <2>1 DEF LDTypeOK, CancelAbort
  <1>6. CASE CancelStop(d)
    <2>1. /\ row' \in [Deployments -> Rows] /\ box' \in [Deployments -> Boxes]
          /\ queue' \subseteq Jobs \cup {Cleanup}
      BY <1>6, StopSeenTypes DEF CancelStop
    <2>2. seen' \in [{"cancel", "fail"} \X Deployments -> Rows]
      BY <1>6, AbsentTypes DEF LDTypeOK, CancelStop
    <2>3. task' \in [Places -> Points]
      BY <1>6, GotoTypes, KindNames DEF LDTypeOK, CancelStop, Points
    <2> QED BY <1>6, <2>1, <2>2, <2>3 DEF LDTypeOK, CancelStop
  <1>7. CASE CancelAsk(d)
    <2>1. task' \in [Places -> Points]
      BY <1>7, GotoTypes, KindNames DEF LDTypeOK, CancelAsk, Points
    <2>2. seen' \in [{"cancel", "fail"} \X Deployments -> Rows]
      BY <1>7 DEF LDTypeOK, CancelAsk
    <2> QED BY <1>7, <2>1, <2>2 DEF LDTypeOK, CancelAsk
  <1> QED BY <1>1, <1>2, <1>3, <1>4, <1>5, <1>6, <1>7 DEF Request

LEMMA StartTypes ==
    ASSUME LDTypeOK, NEW d \in Deployments,
           \/ StartLoad(d) \/ StartCreate(d) \/ StartBoot(d) \/ StartRecord(d)
           \/ StartDropped(d) \/ StartAborted(d) \/ StartRaises(d)
    PROVE  LDTypeOK'
  <1>1. CASE StartLoad(d)
    <2>1. row' \in [Deployments -> Rows]
      BY <1>1, RowTypes DEF LDTypeOK, StartLoad
    <2>2. task' \in [Places -> Points]
      BY <1>1, GotoTypes, KindNames DEF LDTypeOK, StartLoad, Points
    <2>3. queue' \subseteq Jobs \cup {Cleanup}
      BY <1>1, TakeTypes, KindNames DEF LDTypeOK, StartLoad
    <2> QED BY <1>1, <2>1, <2>2, <2>3 DEF LDTypeOK, StartLoad
  <1>2. CASE StartCreate(d)
    <2>1. task' \in [Places -> Points]
      BY <1>2, GotoTypes, KindNames DEF LDTypeOK, StartCreate, Points
    <2>2. box' \in [Deployments -> Boxes]
      BY <1>2 DEF LDTypeOK, StartCreate, Boxes
    <2> QED BY <1>2, <2>1, <2>2 DEF LDTypeOK, StartCreate
  <1>3. CASE StartBoot(d)
    <2>1. task' \in [Places -> Points]
      BY <1>3, GotoTypes, KindNames DEF LDTypeOK, StartBoot, Points
    <2>2. box' \in [Deployments -> Boxes]
      BY <1>3 DEF LDTypeOK, StartBoot, Boxes
    <2> QED BY <1>3, <2>1, <2>2 DEF LDTypeOK, StartBoot
  <1>4. CASE StartRecord(d)
    <2>1. row' \in [Deployments -> Rows]
      BY <1>4, RowTypes DEF LDTypeOK, StartRecord, Boxes
    <2>2. task' \in [Places -> Points]
      BY <1>4, GotoTypes, KindNames DEF LDTypeOK, StartRecord, Points
    <2> QED BY <1>4, <2>1, <2>2 DEF LDTypeOK, StartRecord
  <1>5. CASE StartDropped(d)
    <2>1. queue' \subseteq Jobs \cup {Cleanup}
      BY <1>5, TakeTypes, KindNames DEF LDTypeOK, StartDropped
    <2> QED BY <1>5, <2>1 DEF LDTypeOK, StartDropped
  <1>6. CASE StartAborted(d)
    <2>1. row' \in [Deployments -> Rows]
      <3>1. CASE UNCHANGED row
        BY <3>1 DEF LDTypeOK
      <3>2. CASE row' = [row EXCEPT ![d].status = "completed",
                                ![d].conclusion = "canceled",
                                ![d].container_status = "stopped"]
        BY <3>2, RowTypes DEF LDTypeOK
      <3> QED BY <1>6, <3>1, <3>2 DEF StartAborted
    <2>2. task' \in [Places -> Points]
      BY <1>6, GotoTypes, KindNames DEF LDTypeOK, StartAborted, Points
    <2>3. queue' \subseteq Jobs \cup {Cleanup}
      BY <1>6, EnqueueTypes, KindNames DEF LDTypeOK, StartAborted
    <2>4. box' \in [Deployments -> Boxes]
      BY <1>6, StopTypes DEF LDTypeOK, StartAborted
    <2> QED BY <1>6, <2>1, <2>2, <2>3, <2>4 DEF LDTypeOK, StartAborted
  <1>7. CASE StartRaises(d)
    <2>1. task' \in [Places -> Points]
      BY <1>7, GotoTypes, KindNames DEF LDTypeOK, StartRaises, Points
    <2>2. queue' \subseteq Jobs \cup {Cleanup}
      BY <1>7, EnqueueTypes, KindNames DEF LDTypeOK, StartRaises
    <2> QED BY <1>7, <2>1, <2>2 DEF LDTypeOK, StartRaises
  <1> QED BY <1>1, <1>2, <1>3, <1>4, <1>5, <1>6, <1>7

LEMMA MonitorTypes ==
    ASSUME LDTypeOK, NEW d \in Deployments,
           Monitor(d) \/ MonitorAnswer(d)
    PROVE  LDTypeOK'
  <1>1. CASE MonitorGivesUp(d)
    <2>1. queue' \subseteq Jobs \cup {Cleanup}
      BY <1>1, EnqueueTypes, KindNames DEF LDTypeOK, MonitorGivesUp
    <2> QED BY <1>1, <2>1 DEF LDTypeOK, MonitorGivesUp
  <1>2. CASE MonitorProbe(d)
    <2>1. probe' \in [Deployments -> Nat]
      BY <1>2 DEF LDTypeOK, MonitorProbe, Rows
    <2> QED BY <1>2, <2>1 DEF LDTypeOK, MonitorProbe
  <1>3. CASE MonitorExited(d)
    <2>1. queue' \subseteq Jobs \cup {Cleanup}
      BY <1>3, EnqueueTypes, KindNames DEF LDTypeOK, MonitorExited
    <2>2. probe' \in [Deployments -> Nat]
      BY <1>3 DEF LDTypeOK, MonitorExited
    <2> QED BY <1>3, <2>1, <2>2 DEF LDTypeOK, MonitorExited
  <1>4. CASE MonitorNoAnswer(d)
    <2>1. probe' \in [Deployments -> Nat]
      BY <1>4 DEF LDTypeOK, MonitorNoAnswer
    <2> QED BY <1>4, <2>1 DEF LDTypeOK, MonitorNoAnswer
  <1>5. CASE MonitorReady(d)
    <2>1. row' \in [Deployments -> Rows]
      BY <1>5, RowTypes DEF LDTypeOK, MonitorReady
    <2>2. queue' \subseteq Jobs \cup {Cleanup}
      BY <1>5, EnqueueTypes, KindNames DEF LDTypeOK, MonitorReady
    <2>3. probe' \in [Deployments -> Nat]
      BY <1>5 DEF LDTypeOK, MonitorReady
    <2> QED BY <1>5, <2>1, <2>2, <2>3 DEF LDTypeOK, MonitorReady
  <1>6. CASE MonitorAnswer(d)
    <2> QED BY <1>6 DEF LDTypeOK, MonitorAnswer
  <1> QED BY <1>1, <1>2, <1>3, <1>4, <1>5, <1>6 DEF Monitor

LEMMA FinalizeTypes ==
    ASSUME LDTypeOK, NEW d \in Deployments,
           \/ FinalizeLoad(d) \/ FinalizeAliases(d) \/ FinalizeRead(d)
           \/ FinalizeWrite(d) \/ FinalizeConclude(d) \/ FinalizeRaises(d)
    PROVE  LDTypeOK'
  <1>1. CASE FinalizeLoad(d)
    <2>1. task' \in [Places -> Points]
      BY <1>1, GotoTypes, KindNames DEF LDTypeOK, FinalizeLoad, Points
    <2>2. queue' \subseteq Jobs \cup {Cleanup}
      BY <1>1, TakeTypes, KindNames DEF LDTypeOK, FinalizeLoad
    <2> QED BY <1>1, <2>1, <2>2 DEF LDTypeOK, FinalizeLoad
  <1>2. CASE FinalizeAliases(d)
    <2>1. task' \in [Places -> Points]
      BY <1>2, GotoTypes, KindNames DEF LDTypeOK, FinalizeAliases, Points
    <2>2. alias' \in [Keys -> AliasRows] /\ file' \in Files /\ cfg' \in [Writers -> Files]
      BY <1>2, AliasTypes DEF LDTypeOK, FinalizeAliases
    <2> QED BY <1>2, <2>1, <2>2 DEF LDTypeOK, FinalizeAliases
  <1>3. CASE FinalizeRead(d)
    <2>1. task' \in [Places -> Points]
      BY <1>3, GotoTypes, KindNames DEF LDTypeOK, FinalizeRead, Points
    <2>2. alias' \in [Keys -> AliasRows] /\ file' \in Files /\ cfg' \in [Writers -> Files]
      BY <1>3, AliasTypes DEF LDTypeOK, FinalizeRead
    <2> QED BY <1>3, <2>1, <2>2 DEF LDTypeOK, FinalizeRead
  <1>4. CASE FinalizeWrite(d)
    <2>1. task' \in [Places -> Points]
      BY <1>4, GotoTypes, KindNames DEF LDTypeOK, FinalizeWrite, Points
    <2>2. alias' \in [Keys -> AliasRows] /\ file' \in Files /\ cfg' \in [Writers -> Files]
      BY <1>4, AliasTypes DEF LDTypeOK, FinalizeWrite
    <2> QED BY <1>4, <2>1, <2>2 DEF LDTypeOK, FinalizeWrite
  <1>5. CASE FinalizeConclude(d)
    <2>1. row' \in [Deployments -> Rows]
      BY <1>5, RowTypes DEF LDTypeOK, FinalizeConclude
    <2>2. task' \in [Places -> Points]
      BY <1>5, GotoTypes, KindNames DEF LDTypeOK, FinalizeConclude, Points
    <2> QED BY <1>5, <2>1, <2>2 DEF LDTypeOK, FinalizeConclude
  <1>6. CASE FinalizeRaises(d)
    <2>1. task' \in [Places -> Points]
      BY <1>6, GotoTypes, KindNames DEF LDTypeOK, FinalizeRaises, Points
    <2>2. queue' \subseteq Jobs \cup {Cleanup}
      BY <1>6, EnqueueTypes, KindNames DEF LDTypeOK, FinalizeRaises
    <2> QED BY <1>6, <2>1, <2>2 DEF LDTypeOK, FinalizeRaises
  <1> QED BY <1>1, <1>2, <1>3, <1>4, <1>5, <1>6

LEMMA FailTypes ==
    ASSUME LDTypeOK, NEW d \in Deployments,
           FailLoad(d) \/ FailStop(d) \/ FailConclude(d) \/ DeleteContainer(d)
    PROVE  LDTypeOK'
  <1>1. CASE FailLoad(d)
    <2>1. row' \in [Deployments -> Rows]
      <3>1. CASE UNCHANGED row
        BY <3>1 DEF LDTypeOK
      <3>2. CASE row' = [row EXCEPT ![d].status = "fail"]
        BY <3>2, RowTypes DEF LDTypeOK
      <3> QED BY <1>1, <3>1, <3>2 DEF FailLoad
    <2>2. task' \in [Places -> Points]
      BY <1>1, GotoTypes, KindNames DEF LDTypeOK, FailLoad, Points
    <2>3. queue' \subseteq Jobs \cup {Cleanup}
      BY <1>1, TakeTypes, KindNames DEF LDTypeOK, FailLoad
    <2>4. seen' \in [{"cancel", "fail"} \X Deployments -> Rows]
      BY <1>1 DEF LDTypeOK, FailLoad
    <2> QED BY <1>1, <2>1, <2>2, <2>3, <2>4 DEF LDTypeOK, FailLoad
  <1>2. CASE FailStop(d)
    <2>1. /\ row' \in [Deployments -> Rows] /\ box' \in [Deployments -> Boxes]
          /\ queue' \subseteq Jobs \cup {Cleanup}
      BY <1>2, StopSeenTypes DEF FailStop
    <2>2. seen' \in [{"cancel", "fail"} \X Deployments -> Rows]
      BY <1>2, AbsentTypes DEF LDTypeOK, FailStop
    <2>3. task' \in [Places -> Points]
      BY <1>2, GotoTypes, KindNames DEF LDTypeOK, FailStop, Points
    <2> QED BY <1>2, <2>1, <2>2, <2>3 DEF LDTypeOK, FailStop
  <1>3. CASE FailConclude(d)
    <2>1. row' \in [Deployments -> Rows]
      BY <1>3, RowTypes DEF LDTypeOK, FailConclude
    <2>2. task' \in [Places -> Points]
      BY <1>3, GotoTypes, KindNames DEF LDTypeOK, FailConclude, Points
    <2> QED BY <1>3, <2>1, <2>2 DEF LDTypeOK, FailConclude
  <1>4. CASE DeleteContainer(d)
    <2>1. row' \in [Deployments -> Rows]
      <3>1. CASE UNCHANGED row
        BY <3>1 DEF LDTypeOK
      <3>2. CASE row' = [row EXCEPT ![d].container_status = "removed"]
        BY <3>2, RowTypes DEF LDTypeOK
      <3> QED BY <1>4, <3>1, <3>2 DEF DeleteContainer
    <2>2. queue' \subseteq Jobs \cup {Cleanup}
      BY <1>4, TakeTypes, KindNames DEF LDTypeOK, DeleteContainer
    <2>3. box' \in [Deployments -> Boxes]
      BY <1>4 DEF LDTypeOK, DeleteContainer, Boxes
    <2> QED BY <1>4, <2>1, <2>2, <2>3 DEF LDTypeOK, DeleteContainer
  <1> QED BY <1>1, <1>2, <1>3, <1>4

LEMMA SweepTypes == LDTypeOK /\ Sweep => LDTypeOK'
  <1> SUFFICES ASSUME LDTypeOK, Sweep  PROVE LDTypeOK'
    OBVIOUS
  <1>1. CASE CleanupActive
    <2>1. Active \subseteq Deployments
      <3>1. \A k \in Keys : /\ alias[k].cur \in Deployments \cup {Null}
                            /\ alias[k].prev \in Deployments \cup {Null}
        BY DEF LDTypeOK, AliasRows
      <3> QED BY <3>1 DEF Active
    <2>2. task' \in [Places -> Points]
      BY <1>1 DEF LDTypeOK, CleanupActive, Points
    <2> QED BY <1>1, <2>1, <2>2 DEF LDTypeOK, CleanupActive
  <1>2. CASE CleanupInactive
    <2>1. task' \in [Places -> Points]
      BY <1>2 DEF LDTypeOK, CleanupInactive, Points
    <2> QED BY <1>2, <2>1 DEF LDTypeOK, CleanupInactive
  <1>3. ASSUME NEW d \in Deployments, CleanupRemove(d)  PROVE LDTypeOK'
    <2>1. box' \in [Deployments -> Boxes]
      BY <1>3 DEF LDTypeOK, CleanupRemove, Boxes
    <2> QED BY <1>3, <2>1 DEF LDTypeOK, CleanupRemove
  <1>4. CASE CleanupCommit
    <2>1. row' \in [Deployments -> Rows]
      BY <1>4, RowTypes DEF LDTypeOK, CleanupCommit
    <2>2. task' \in [Places -> Points]
      BY <1>4 DEF LDTypeOK, CleanupCommit, Points
    <2> QED BY <1>4, <2>1, <2>2 DEF LDTypeOK, CleanupCommit
  <1> QED BY <1>1, <1>2, <1>3, <1>4 DEF Sweep

LEMMA RollTypes == LDTypeOK /\ Roll => LDTypeOK'
  <1> SUFFICES ASSUME LDTypeOK, Roll  PROVE LDTypeOK'
    OBVIOUS
  <1>1. CASE RollbackSwap
    <2>1. alias' \in [Keys -> AliasRows]
      BY <1>1 DEF LDTypeOK, RollbackSwap, AliasRows
    <2>2. task' \in [Places -> Points]
      BY <1>1 DEF LDTypeOK, RollbackSwap, Points
    <2> QED BY <1>1, <2>1, <2>2 DEF LDTypeOK, RollbackSwap
  <1>2. CASE RollbackRead
    <2>1. cfg' \in [Writers -> Files]
      BY <1>2, AliasTypes DEF LDTypeOK, RollbackRead
    <2>2. task' \in [Places -> Points]
      BY <1>2 DEF LDTypeOK, RollbackRead, Points
    <2> QED BY <1>2, <2>1, <2>2 DEF LDTypeOK, RollbackRead
  <1>3. CASE RollbackWrite
    <2>1. file' \in Files /\ cfg' \in [Writers -> Files]
      BY <1>3, AliasTypes DEF LDTypeOK, RollbackWrite
    <2>2. task' \in [Places -> Points]
      BY <1>3 DEF LDTypeOK, RollbackWrite, Points
    <2> QED BY <1>3, <2>1, <2>2 DEF LDTypeOK, RollbackWrite
  <1> QED BY <1>1, <1>2, <1>3 DEF Roll

LEMMA WorldTypes ==
    ASSUME LDTypeOK, \/ \E d \in Deployments : AppExits(d) \/ TimeOut(d)
                     \/ WorkerCrash
    PROVE  LDTypeOK'
  <1>1. ASSUME NEW d \in Deployments, AppExits(d)  PROVE LDTypeOK'
    <2>1. box' \in [Deployments -> Boxes]
      BY <1>1 DEF LDTypeOK, AppExits, Boxes
    <2> QED BY <1>1, <2>1 DEF LDTypeOK, AppExits
  <1>2. ASSUME NEW d \in Deployments, TimeOut(d)  PROVE LDTypeOK'
    BY <1>2 DEF LDTypeOK, TimeOut
  <1>3. CASE WorkerCrash
    <2>1. task' \in [Places -> Points]
      BY <1>3 DEF LDTypeOK, WorkerCrash, Points
    <2>2. queue' \subseteq Jobs \cup {Cleanup}
      BY <1>3 DEF LDTypeOK, WorkerCrash, Retried
    <2> QED BY <1>3, <2>1, <2>2 DEF LDTypeOK, WorkerCrash
  <1> QED BY <1>1, <1>2, <1>3

LEMMA InitTypes == Init => LDTypeOK
  <1> SUFFICES ASSUME Init  PROVE LDTypeOK
    OBVIOUS
  <1>1. task \in [Places -> Points] /\ box \in [Deployments -> Boxes]
    BY DEF Init, Places, Points, Boxes
  <1>2. file \in Files /\ cfg \in [Writers -> Files] /\ alias \in [Keys -> AliasRows]
    BY DEF Init, NoFile, Files, AliasRows
  <1>3. row \in [Deployments -> Rows] /\ seen \in [{"cancel", "fail"} \X Deployments -> Rows]
    BY AbsentTypes DEF Init
  <1> QED BY <1>1, <1>2, <1>3 DEF Init, LDTypeOK

LEMMA StepTypes == LDTypeOK /\ [Next]_vars => LDTypeOK'
  <1> SUFFICES ASSUME LDTypeOK, [Next]_vars  PROVE LDTypeOK'
    OBVIOUS
  <1>1. CASE UNCHANGED vars
    BY <1>1 DEF vars, LDTypeOK
  <1>2. ASSUME NEW d \in Deployments,
               \/ Deploy(d) \/ Redeploy(d) \/ Push(d)
               \/ Worker(d) \/ Request(d) \/ Monitor(d) \/ MonitorAnswer(d)
               \/ StartRaises(d) \/ FinalizeRaises(d) \/ CancelAsk(d)
        PROVE  LDTypeOK'
    BY <1>2, RequestTypes, StartTypes, MonitorTypes, FinalizeTypes, FailTypes
    DEF Deploy, Redeploy, Push, Worker
  <1> QED BY <1>1, <1>2, SweepTypes, RollTypes, WorldTypes DEF Next

\* Rows, containers, jobs, aliases and routes keep the shapes the code gives
\* them, whatever fails, is canceled, retried or rolled back.
THEOREM TypeCorrect == Spec => []LDTypeOK
  <1> QED BY InitTypes, StepTypes, PTL DEF Spec

-----------------------------------------------------------------------------
(* What is served has answered.                                            *)

\* A step that routes nothing new: it queues or begins no finalize, and leaves
\* the aliases and the routes alone.
Passes ==
  /\ UNCHANGED <<alias, file, cfg>> /\ answered \subseteq answered'
  /\ \A d \in Deployments : Pending("finalize", d)' => Pending("finalize", d)

LEMMA PassingKeeps ==
    ASSUME RoutedAnswered, Passes
    PROVE  RoutedAnswered'
BY DEF RoutedAnswered, MayBeRouted, Answered, Passes, Pending, At

LEMMA FinalizePlace ==
    \A d \in Deployments : <<"finalize", d>> \in Places
BY JobNames, KindNames DEF Places

LEMMA RequestPasses ==
    ASSUME LDTypeOK, NEW d \in Deployments,
           Create(d) \/ Request(d) \/ CancelAsk(d)
    PROVE  Passes
  <1>1. CASE Create(d)
    BY <1>1, FinalizePlace DEF LDTypeOK, Passes, Pending, At, Create, Goto
  <1>2. CASE EnqueueStart(d)
    BY <1>2, FinalizePlace DEF LDTypeOK, Passes, Pending, At, EnqueueStart, Goto, Enqueue
  <1>3. CASE SaveJobId(d)
    BY <1>3, FinalizePlace DEF LDTypeOK, Passes, Pending, At, SaveJobId, Goto
  <1>4. CASE CancelCommit(d)
    BY <1>4, FinalizePlace DEF LDTypeOK, Passes, Pending, At, CancelCommit, Goto
  <1>5. CASE CancelAbort(d)
    BY <1>5, FinalizePlace DEF LDTypeOK, Passes, Pending, At, CancelAbort, Goto
  <1>6. CASE CancelStop(d)
    BY <1>6, FinalizePlace DEF LDTypeOK, Passes, Pending, At, CancelStop, Goto, Enqueue, StopSeen
  <1>7. CASE CancelAsk(d)
    BY <1>7, FinalizePlace DEF LDTypeOK, Passes, Pending, At, CancelAsk, Goto
  <1> QED BY <1>1, <1>2, <1>3, <1>4, <1>5, <1>6, <1>7 DEF Request

LEMMA StartPasses ==
    ASSUME LDTypeOK, NEW d \in Deployments,
           \/ StartLoad(d) \/ StartCreate(d) \/ StartBoot(d) \/ StartRecord(d)
           \/ StartDropped(d) \/ StartAborted(d) \/ StartRaises(d)
    PROVE  Passes
  <1>1. CASE StartLoad(d)
    BY <1>1, FinalizePlace DEF LDTypeOK, Passes, Pending, At, StartLoad, Goto, Take
  <1>2. CASE StartCreate(d)
    BY <1>2, FinalizePlace DEF LDTypeOK, Passes, Pending, At, StartCreate, Goto
  <1>3. CASE StartBoot(d)
    BY <1>3, FinalizePlace DEF LDTypeOK, Passes, Pending, At, StartBoot, Goto
  <1>4. CASE StartRecord(d)
    BY <1>4, FinalizePlace DEF LDTypeOK, Passes, Pending, At, StartRecord, Goto
  <1>5. CASE StartDropped(d)
    BY <1>5, FinalizePlace DEF LDTypeOK, Passes, Pending, At, StartDropped, Take
  <1>6. CASE StartAborted(d)
    BY <1>6, FinalizePlace DEF LDTypeOK, Passes, Pending, At, StartAborted, Goto, Enqueue
  <1>7. CASE StartRaises(d)
    BY <1>7, FinalizePlace DEF LDTypeOK, Passes, Pending, At, StartRaises, Goto, Enqueue
  <1> QED BY <1>1, <1>2, <1>3, <1>4, <1>5, <1>6, <1>7

LEMMA WatchPasses ==
    ASSUME LDTypeOK, NEW d \in Deployments,
           \/ MonitorGivesUp(d) \/ MonitorProbe(d) \/ MonitorExited(d) \/ MonitorNoAnswer(d)
           \/ MonitorAnswer(d) \/ AppExits(d) \/ TimeOut(d)
    PROVE  Passes
  <1>1. CASE MonitorGivesUp(d)
    BY <1>1, FinalizePlace DEF LDTypeOK, Passes, Pending, At, MonitorGivesUp, Enqueue
  <1>2. CASE MonitorProbe(d)
    BY <1>2, FinalizePlace DEF LDTypeOK, Passes, Pending, At, MonitorProbe
  <1>3. CASE MonitorExited(d)
    BY <1>3, FinalizePlace DEF LDTypeOK, Passes, Pending, At, MonitorExited, Enqueue
  <1>4. CASE MonitorNoAnswer(d)
    BY <1>4, FinalizePlace DEF LDTypeOK, Passes, Pending, At, MonitorNoAnswer
  <1>5. CASE MonitorAnswer(d)
    BY <1>5, FinalizePlace DEF LDTypeOK, Passes, Pending, At, MonitorAnswer
  <1>6. CASE AppExits(d)
    BY <1>6, FinalizePlace DEF LDTypeOK, Passes, Pending, At, AppExits
  <1>7. CASE TimeOut(d)
    BY <1>7, FinalizePlace DEF LDTypeOK, Passes, Pending, At, TimeOut
  <1> QED BY <1>1, <1>2, <1>3, <1>4, <1>5, <1>6, <1>7

LEMMA FinalizePasses ==
    ASSUME LDTypeOK, NEW d \in Deployments,
           FinalizeLoad(d) \/ FinalizeConclude(d) \/ FinalizeRaises(d)
    PROVE  Passes
  <1>1. CASE FinalizeLoad(d)
    BY <1>1, FinalizePlace DEF LDTypeOK, Passes, Pending, At, FinalizeLoad, Goto, Take
  <1>2. CASE FinalizeConclude(d)
    BY <1>2, FinalizePlace DEF LDTypeOK, Passes, Pending, At, FinalizeConclude, Goto, Cleanup
  <1>3. CASE FinalizeRaises(d)
    BY <1>3, FinalizePlace DEF LDTypeOK, Passes, Pending, At, FinalizeRaises, Goto, Enqueue
  <1> QED BY <1>1, <1>2, <1>3

LEMMA FailPasses ==
    ASSUME LDTypeOK, NEW d \in Deployments,
           FailLoad(d) \/ FailStop(d) \/ FailConclude(d) \/ DeleteContainer(d)
    PROVE  Passes
  <1>1. CASE FailLoad(d)
    BY <1>1, FinalizePlace DEF LDTypeOK, Passes, Pending, At, FailLoad, Goto, Take
  <1>2. CASE FailStop(d)
    BY <1>2, FinalizePlace DEF LDTypeOK, Passes, Pending, At, FailStop, Goto, Enqueue, StopSeen
  <1>3. CASE FailConclude(d)
    BY <1>3, FinalizePlace DEF LDTypeOK, Passes, Pending, At, FailConclude, Goto
  <1>4. CASE DeleteContainer(d)
    BY <1>4, FinalizePlace DEF LDTypeOK, Passes, Pending, At, DeleteContainer, Take
  <1> QED BY <1>1, <1>2, <1>3, <1>4

LEMMA SweepPasses == LDTypeOK /\ Sweep => Passes
BY FinalizePlace DEF LDTypeOK, Passes, Pending, At, Sweep, Cleanup, CleanupActive,
   CleanupInactive, CleanupRemove, CleanupCommit

LEMMA CrashPasses == LDTypeOK /\ WorkerCrash => Passes
BY FinalizePlace DEF LDTypeOK, Passes, Pending, At, WorkerCrash, Retried, Places

LEMMA AliasesPass ==
    ASSUME LegacyAssumption, ServedInv, NEW d \in Deployments,
           FinalizeAliases(d) \/ FinalizeRead(d) \/ FinalizeWrite(d)
    PROVE  RoutedAnswered'
  <1>1. LDTypeOK /\ RoutedAnswered /\ Null \notin Deployments
    BY DEF ServedInv, LegacyAssumption
  <1>2. answered' = answered /\ queue' = queue
    BY DEF FinalizeAliases, FinalizeRead, FinalizeWrite
  <1>3. \A e \in Deployments : ~At("finalize", e, "idle")' => ~At("finalize", e, "idle")
    BY <1>1, FinalizePlace DEF FinalizeAliases, FinalizeRead, FinalizeWrite, At, Goto, LDTypeOK
  <1>4. Answered(d)
    BY <1>1 DEF FinalizeAliases, FinalizeRead, FinalizeWrite, RoutedAnswered, MayBeRouted, At
  <1>5. CASE FinalizeAliases(d)
    <2>1. \A k \in Keys : \A e \in Deployments :
             e \in {alias'[k].cur, alias'[k].prev} => e = d \/ e \in {alias[k].cur, alias[k].prev}
      BY <1>1, <1>5 DEF FinalizeAliases, SetupAliases
    <2> QED BY <1>1, <1>2, <1>3, <1>4, <1>5, <2>1
        DEF FinalizeAliases, RoutedAnswered, MayBeRouted, Answered
  <1>6. CASE FinalizeRead(d)
    <2>1. \A k \in Keys : \A e \in Deployments :
             TraefikConfig({d})[k] = e => e = alias[k].cur
      BY <1>1 DEF TraefikConfig
    <2>2. \A w \in Writers : \A k \in Keys : \A e \in Deployments :
             cfg'[w][k] = e => cfg[w][k] = e \/ e = alias[k].cur
      BY <1>1, <1>6, <2>1 DEF FinalizeRead, LDTypeOK
    <2>3. \A e \in Deployments : MayBeRouted(e)' => MayBeRouted(e)
      <3>1. alias' = alias /\ file' = file
        BY <1>6 DEF FinalizeRead
      <3>2. \A e \in Deployments :
              (\E w \in Writers : \E k \in Keys : cfg'[w][k] = e)
                => \/ \E w \in Writers : \E k \in Keys : cfg[w][k] = e
                   \/ \E k \in Keys : e = alias[k].cur
        BY <2>2
      <3> QED BY <1>2, <1>3, <3>1, <3>2 DEF MayBeRouted
    <2> QED BY <1>1, <1>2, <2>3 DEF RoutedAnswered, Answered
  <1>7. CASE FinalizeWrite(d)
    <2>1. <<"finalize", d>> \in Writers
      BY DEF Writers
    <2>2. \A w \in Writers : \A k \in Keys : \A e \in Deployments :
             cfg'[w][k] = e => cfg[w][k] = e
      BY <1>1, <1>7 DEF FinalizeWrite, LDTypeOK, NoFile
    <2>3. \A k \in Keys : file'[k] = file[k] \/ file'[k] = cfg[<<"finalize", d>>][k]
      BY <1>7 DEF FinalizeWrite
    <2> QED BY <1>1, <1>2, <1>3, <1>7, <2>1, <2>2, <2>3
        DEF FinalizeWrite, RoutedAnswered, MayBeRouted, Answered
  <1> QED BY <1>5, <1>6, <1>7

LEMMA RollPasses ==
    ASSUME LegacyAssumption, ServedInv, Roll
    PROVE  RoutedAnswered'
  <1>1. LDTypeOK /\ RoutedAnswered /\ Null \notin Deployments
    BY DEF ServedInv, LegacyAssumption
  <1>2. answered' = answered /\ queue' = queue
    BY DEF Roll, RollbackSwap, RollbackRead, RollbackWrite
  <1>3. \A e \in Deployments : ~At("finalize", e, "idle")' => ~At("finalize", e, "idle")
    BY <1>1, FinalizePlace DEF Roll, RollbackSwap, RollbackRead, RollbackWrite, At, LDTypeOK, Rollback
  <1>5. CASE RollbackSwap
    <2>1. \A k \in Keys : {alias'[k].cur, alias'[k].prev} = {alias[k].cur, alias[k].prev}
      BY <1>1, <1>5 DEF RollbackSwap, LDTypeOK, AliasRows
    <2> QED BY <1>1, <1>2, <1>3, <1>5, <2>1
        DEF RollbackSwap, RoutedAnswered, MayBeRouted, Answered
  <1>6. CASE RollbackRead
    <2>1. \A k \in Keys : \A e \in Deployments :
             TraefikConfig({})[k] = e => e = alias[k].cur
      BY <1>1 DEF TraefikConfig
    <2>2. \A w \in Writers : \A k \in Keys : \A e \in Deployments :
             cfg'[w][k] = e => cfg[w][k] = e \/ e = alias[k].cur
      BY <1>1, <1>6, <2>1 DEF RollbackRead, LDTypeOK
    <2> QED BY <1>1, <1>2, <1>3, <1>6, <2>2
        DEF RollbackRead, RoutedAnswered, MayBeRouted, Answered
  <1>7. CASE RollbackWrite
    <2>1. Rollback \in Writers
      BY DEF Writers
    <2>2. \A w \in Writers : \A k \in Keys : \A e \in Deployments :
             cfg'[w][k] = e => cfg[w][k] = e
      BY <1>1, <1>7 DEF RollbackWrite, LDTypeOK, NoFile
    <2>3. \A k \in Keys : file'[k] = cfg[Rollback][k]
      BY <1>7 DEF RollbackWrite
    <2> QED BY <1>1, <1>2, <1>3, <1>7, <2>1, <2>2, <2>3
        DEF RollbackWrite, RoutedAnswered, MayBeRouted, Answered
  <1> QED BY <1>5, <1>6, <1>7 DEF Roll

\* The monitor queues finalize for what it has seen answer.
LEMMA ReadyRoutes ==
    ASSUME ServedInv, NEW d \in Deployments, MonitorReady(d)
    PROVE  RoutedAnswered'
  <1>1. Answered(d)
    BY DEF MonitorReady, Answered
  <1>2. \A e \in Deployments : <<"finalize", e>> \in queue' => e = d \/ <<"finalize", e>> \in queue
    BY DEF MonitorReady, Enqueue
  <1> QED BY <1>1, <1>2 DEF ServedInv, MonitorReady, RoutedAnswered, MayBeRouted, Answered, At

LEMMA ServedInit == LegacyAssumption /\ Init => ServedInv
  <1> SUFFICES ASSUME LegacyAssumption, Init  PROVE RoutedAnswered
    BY InitTypes DEF ServedInv
  <1>1. \A d \in Deployments : ~MayBeRouted(d)
    BY FinalizePlace DEF LegacyAssumption, Init, MayBeRouted, At, NoFile, Places
  <1> QED BY <1>1 DEF RoutedAnswered

LEMMA ServedStep == LegacyAssumption /\ ServedInv /\ [Next]_vars => ServedInv'
  <1> SUFFICES ASSUME LegacyAssumption, ServedInv, [Next]_vars  PROVE RoutedAnswered'
    BY StepTypes DEF ServedInv
  <1>1. LDTypeOK /\ RoutedAnswered
    BY DEF ServedInv
  <1>2. CASE UNCHANGED vars
    BY <1>1, <1>2 DEF vars, RoutedAnswered, MayBeRouted, Answered, At
  <1>3. ASSUME NEW d \in Deployments,
               \/ Deploy(d) \/ Redeploy(d) \/ Push(d)
               \/ Worker(d) \/ Request(d) \/ Monitor(d) \/ MonitorAnswer(d)
               \/ StartRaises(d) \/ FinalizeRaises(d) \/ CancelAsk(d)
               \/ AppExits(d) \/ TimeOut(d)
        PROVE  RoutedAnswered'
    BY <1>1, <1>3, RequestPasses, StartPasses, WatchPasses, FinalizePasses, FailPasses,
       AliasesPass, ReadyRoutes, PassingKeeps
    DEF Deploy, Redeploy, Push, Worker, Monitor
  <1> QED BY <1>1, <1>2, <1>3, SweepPasses, RollPasses, CrashPasses, PassingKeeps DEF Next

\* Whatever fails, is aborted, retried or rolled back: a hostname, a rollback
\* target and a line of the Traefik file only ever name deployments whose
\* application answered the monitor.  Only MonitorReady queues finalize;
\* SetupAliases, TraefikConfig and the rollback pass on what it was given.
THEOREM ServedStaysAnswered == LegacyAssumption => (Spec => []ServedAnswered)
  <1> SUFFICES ASSUME LegacyAssumption PROVE Spec => []ServedAnswered
    OBVIOUS
  <1>1. Init => ServedInv
    BY ServedInit
  <1>2. ServedInv /\ [Next]_vars => ServedInv'
    BY ServedStep
  <1>3. Spec => []ServedInv
    BY <1>1, <1>2, PTL DEF Spec
  <1>4. ServedInv => ServedAnswered
    <2> SUFFICES ASSUME ServedInv, NEW k \in Keys,
                        NEW d \in {alias[k].cur, alias[k].prev, file[k]} \ {Null}
                 PROVE  Answered(d)
      BY DEF ServedAnswered
    <2>1. d \in Deployments
      BY DEF ServedInv, LDTypeOK, AliasRows, Files
    <2> QED BY <2>1 DEF ServedInv, RoutedAnswered, MayBeRouted
  <1> QED BY <1>3, <1>4, PTL

-----------------------------------------------------------------------------
(* The stages of a deployment.                                             *)

\* What StageFits(e) and the sweep look at is left as it was.
RowSame(e) ==
  /\ row'[e].status = row[e].status /\ row'[e].conclusion = row[e].conclusion
  /\ row'[e].container_id = row[e].container_id
  /\ row'[e].container_status = row[e].container_status
SeenSame(e) ==
  /\ box'[e] = box[e] /\ probe'[e] = probe[e]
  /\ seen'[<<"fail", e>>] = seen[<<"fail", e>>]
  /\ Answered(e)' = Answered(e) /\ \A n : (<<e, n>> \in answered') = (<<e, n>> \in answered)
  /\ (e \in timedOut') = (e \in timedOut)
JobsSame(e) ==
  /\ \A k \in Kinds : (<<k, e>> \in queue') = (<<k, e>> \in queue)
  /\ \A k \in Kinds \ {"request"} : task'[<<k, e>>] = task[<<k, e>>]
  /\ At("request", e, "created")' = At("request", e, "created")
  /\ At("request", e, "idle") => At("request", e, "idle")'
Frame(e) == RowSame(e) /\ SeenSame(e) /\ JobsSame(e)

LEMMA FrameKeeps ==
    ASSUME NEW e \in Deployments, Frame(e), StageFits(e)
    PROVE  StageFits(e)'
  <1> DEFINE s == row[e].status
  <1>1. RowSame(e) /\ SeenSame(e) /\ JobsSame(e)
    BY DEF Frame
  <1>2. \A k \in Kinds \ {"request"} : Pending(k, e)' = Pending(k, e)
    BY <1>1 DEF JobsSame, Pending, At
  <1>3. \A k \in Kinds \ {"request"} : \A p : At(k, e, p)' = At(k, e, p)
    BY <1>1 DEF JobsSame, At
  <1>4. {"start", "finalize", "fail", "delete", "cancel"} \subseteq Kinds \ {"request"}
    BY DEF Kinds
  <1>5. Stopped(e)' = Stopped(e) /\ ProbesInVain(e)' = ProbesInVain(e) /\ Recorded(e)' = Recorded(e)
    BY <1>1 DEF Stopped, ProbesInVain, Recorded, SeenSame, RowSame
  <1>6. s \in {"absent", "prepare"} => Launching(e)'
    BY <1>1, <1>2, <1>3, <1>4 DEF StageFits, Launching, JobsSame, RowSame, SeenSame
  <1>7. s = "deploy" => Monitored(e)'
    BY <1>1, <1>2, <1>3, <1>4 DEF StageFits, Monitored, JobsSame, RowSame, SeenSame
  <1>8. s = "finalize" => Finalizing(e)'
    BY <1>1, <1>2, <1>3, <1>4, <1>5 DEF StageFits, Finalizing, JobsSame, RowSame, SeenSame
  <1>9. s = "fail" => Failing(e)'
    BY <1>1, <1>2, <1>3, <1>4, <1>5 DEF StageFits, Failing, JobsSame, RowSame, SeenSame
  <1>10. s = "completed" => Completed(e)'
    BY <1>1, <1>2, <1>3, <1>4, <1>5 DEF StageFits, Completed, JobsSame, RowSame, SeenSame
  <1> QED BY <1>1, <1>2, <1>3, <1>4, <1>6, <1>7, <1>8, <1>9, <1>10 DEF StageFits, RowSame, JobsSame

LEMMA KindPlaces ==
    \A k \in Kinds : \A d \in Deployments : <<k, d>> \in Places
BY JobNames DEF Places

LEMMA RequestFrames ==
    ASSUME LDTypeOK, NEW d \in Deployments, NEW e \in Deployments \ {d},
           Create(d) \/ EnqueueStart(d) \/ SaveJobId(d)
    PROVE  Frame(e)
  <1>1. CASE Create(d)
    <2>1. RowSame(e) /\ SeenSame(e)
      BY <1>1 DEF LDTypeOK, Create, RowSame, SeenSame, Answered
    <2>2. JobsSame(e)
      BY <1>1, KindPlaces DEF LDTypeOK, Create, JobsSame, At, Kinds, Goto
    <2> QED BY <2>1, <2>2 DEF Frame
  <1>2. CASE EnqueueStart(d)
    <2>1. RowSame(e) /\ SeenSame(e)
      BY <1>2 DEF LDTypeOK, EnqueueStart, RowSame, SeenSame, Answered
    <2>2. JobsSame(e)
      BY <1>2, KindPlaces DEF LDTypeOK, EnqueueStart, JobsSame, At, Kinds, Goto, Enqueue
    <2> QED BY <2>1, <2>2 DEF Frame
  <1>3. CASE SaveJobId(d)
    <2>1. RowSame(e) /\ SeenSame(e)
      BY <1>3 DEF LDTypeOK, SaveJobId, RowSame, SeenSame, Answered
    <2>2. JobsSame(e)
      BY <1>3, KindPlaces DEF LDTypeOK, SaveJobId, JobsSame, At, Kinds, Goto
    <2> QED BY <2>1, <2>2 DEF Frame
  <1> QED BY <1>1, <1>2, <1>3

LEMMA StartFrames ==
    ASSUME LDTypeOK, NEW d \in Deployments, NEW e \in Deployments \ {d},
           \/ StartLoad(d) \/ StartCreate(d) \/ StartBoot(d) \/ StartRecord(d) \/ StartRaises(d)
    PROVE  Frame(e)
  <1>1. CASE StartLoad(d)
    <2>1. RowSame(e) /\ SeenSame(e)
      BY <1>1 DEF LDTypeOK, StartLoad, RowSame, SeenSame, Answered
    <2>2. JobsSame(e)
      BY <1>1, KindPlaces DEF LDTypeOK, StartLoad, JobsSame, At, Kinds, Goto, Take
    <2> QED BY <2>1, <2>2 DEF Frame
  <1>2. CASE StartCreate(d)
    <2>1. RowSame(e) /\ SeenSame(e)
      BY <1>2 DEF LDTypeOK, StartCreate, RowSame, SeenSame, Answered
    <2>2. JobsSame(e)
      BY <1>2, KindPlaces DEF LDTypeOK, StartCreate, JobsSame, At, Kinds, Goto
    <2> QED BY <2>1, <2>2 DEF Frame
  <1>3. CASE StartBoot(d)
    <2>1. RowSame(e) /\ SeenSame(e)
      BY <1>3 DEF LDTypeOK, StartBoot, RowSame, SeenSame, Answered
    <2>2. JobsSame(e)
      BY <1>3, KindPlaces DEF LDTypeOK, StartBoot, JobsSame, At, Kinds, Goto
    <2> QED BY <2>1, <2>2 DEF Frame
  <1>4. CASE StartRecord(d)
    <2>1. RowSame(e) /\ SeenSame(e)
      BY <1>4 DEF LDTypeOK, StartRecord, RowSame, SeenSame, Answered
    <2>2. JobsSame(e)
      BY <1>4, KindPlaces DEF LDTypeOK, StartRecord, JobsSame, At, Kinds, Goto
    <2> QED BY <2>1, <2>2 DEF Frame
  <1>5. CASE StartRaises(d)
    <2>1. RowSame(e) /\ SeenSame(e)
      BY <1>5 DEF LDTypeOK, StartRaises, RowSame, SeenSame, Answered
    <2>2. JobsSame(e)
      BY <1>5, KindPlaces DEF LDTypeOK, StartRaises, JobsSame, At, Kinds, Goto, Enqueue
    <2> QED BY <2>1, <2>2 DEF Frame
  <1> QED BY <1>1, <1>2, <1>3, <1>4, <1>5

LEMMA WatchFrames ==
    ASSUME LDTypeOK, NEW d \in Deployments, NEW e \in Deployments \ {d},
           \/ MonitorGivesUp(d) \/ MonitorProbe(d) \/ MonitorExited(d) \/ MonitorNoAnswer(d)
           \/ MonitorReady(d) \/ MonitorAnswer(d) \/ AppExits(d) \/ TimeOut(d)
    PROVE  Frame(e)
  <1>1. CASE MonitorGivesUp(d)
    <2>1. RowSame(e) /\ SeenSame(e)
      BY <1>1 DEF LDTypeOK, MonitorGivesUp, RowSame, SeenSame, Answered
    <2>2. JobsSame(e)
      BY <1>1, KindPlaces DEF LDTypeOK, MonitorGivesUp, JobsSame, At, Kinds, Enqueue
    <2> QED BY <2>1, <2>2 DEF Frame
  <1>2. CASE MonitorProbe(d)
    <2>1. RowSame(e) /\ SeenSame(e)
      BY <1>2 DEF LDTypeOK, MonitorProbe, RowSame, SeenSame, Answered
    <2>2. JobsSame(e)
      BY <1>2, KindPlaces DEF LDTypeOK, MonitorProbe, JobsSame, At, Kinds
    <2> QED BY <2>1, <2>2 DEF Frame
  <1>3. CASE MonitorExited(d)
    <2>1. RowSame(e) /\ SeenSame(e)
      BY <1>3 DEF LDTypeOK, MonitorExited, RowSame, SeenSame, Answered
    <2>2. JobsSame(e)
      BY <1>3, KindPlaces DEF LDTypeOK, MonitorExited, JobsSame, At, Kinds, Enqueue
    <2> QED BY <2>1, <2>2 DEF Frame
  <1>4. CASE MonitorNoAnswer(d)
    <2>1. RowSame(e) /\ SeenSame(e)
      BY <1>4 DEF LDTypeOK, MonitorNoAnswer, RowSame, SeenSame, Answered
    <2>2. JobsSame(e)
      BY <1>4, KindPlaces DEF LDTypeOK, MonitorNoAnswer, JobsSame, At, Kinds
    <2> QED BY <2>1, <2>2 DEF Frame
  <1>5. CASE MonitorReady(d)
    <2>1. RowSame(e) /\ SeenSame(e)
      BY <1>5 DEF LDTypeOK, MonitorReady, RowSame, SeenSame, Answered
    <2>2. JobsSame(e)
      BY <1>5, KindPlaces DEF LDTypeOK, MonitorReady, JobsSame, At, Kinds, Enqueue
    <2> QED BY <2>1, <2>2 DEF Frame
  <1>6. CASE MonitorAnswer(d)
    <2>1. RowSame(e) /\ SeenSame(e)
      BY <1>6 DEF LDTypeOK, MonitorAnswer, RowSame, SeenSame, Answered
    <2>2. JobsSame(e)
      BY <1>6, KindPlaces DEF LDTypeOK, MonitorAnswer, JobsSame, At, Kinds
    <2> QED BY <2>1, <2>2 DEF Frame
  <1>7. CASE AppExits(d)
    <2>1. RowSame(e) /\ SeenSame(e)
      BY <1>7 DEF LDTypeOK, AppExits, RowSame, SeenSame, Answered
    <2>2. JobsSame(e)
      BY <1>7, KindPlaces DEF LDTypeOK, AppExits, JobsSame, At, Kinds
    <2> QED BY <2>1, <2>2 DEF Frame
  <1>8. CASE TimeOut(d)
    <2>1. RowSame(e) /\ SeenSame(e)
      BY <1>8 DEF LDTypeOK, TimeOut, RowSame, SeenSame, Answered
    <2>2. JobsSame(e)
      BY <1>8, KindPlaces DEF LDTypeOK, TimeOut, JobsSame, At, Kinds
    <2> QED BY <2>1, <2>2 DEF Frame
  <1> QED BY <1>1, <1>2, <1>3, <1>4, <1>5, <1>6, <1>7, <1>8

LEMMA FinalizeFrames ==
    ASSUME LDTypeOK, NEW d \in Deployments, NEW e \in Deployments \ {d},
           \/ FinalizeLoad(d) \/ FinalizeAliases(d) \/ FinalizeRead(d) \/ FinalizeWrite(d)
           \/ FinalizeConclude(d)
    PROVE  Frame(e)
  <1>1. CASE FinalizeLoad(d)
    <2>1. RowSame(e) /\ SeenSame(e)
      BY <1>1 DEF LDTypeOK, FinalizeLoad, RowSame, SeenSame, Answered
    <2>2. JobsSame(e)
      BY <1>1, KindPlaces DEF LDTypeOK, FinalizeLoad, JobsSame, At, Kinds, Goto, Take
    <2> QED BY <2>1, <2>2 DEF Frame
  <1>2. CASE FinalizeAliases(d)
    <2>1. RowSame(e) /\ SeenSame(e)
      BY <1>2 DEF LDTypeOK, FinalizeAliases, RowSame, SeenSame, Answered
    <2>2. JobsSame(e)
      BY <1>2, KindPlaces DEF LDTypeOK, FinalizeAliases, JobsSame, At, Kinds, Goto
    <2> QED BY <2>1, <2>2 DEF Frame
  <1>3. CASE FinalizeRead(d)
    <2>1. RowSame(e) /\ SeenSame(e)
      BY <1>3 DEF LDTypeOK, FinalizeRead, RowSame, SeenSame, Answered
    <2>2. JobsSame(e)
      BY <1>3, KindPlaces DEF LDTypeOK, FinalizeRead, JobsSame, At, Kinds, Goto
    <2> QED BY <2>1, <2>2 DEF Frame
  <1>4. CASE FinalizeWrite(d)
    <2>1. RowSame(e) /\ SeenSame(e)
      BY <1>4 DEF LDTypeOK, FinalizeWrite, RowSame, SeenSame, Answered
    <2>2. JobsSame(e)
      BY <1>4, KindPlaces DEF LDTypeOK, FinalizeWrite, JobsSame, At, Kinds, Goto
    <2> QED BY <2>1, <2>2 DEF Frame
  <1>5. CASE FinalizeConclude(d)
    <2>1. RowSame(e) /\ SeenSame(e)
      BY <1>5 DEF LDTypeOK, FinalizeConclude, RowSame, SeenSame, Answered
    <2>2. JobsSame(e)
      BY <1>5, KindPlaces DEF LDTypeOK, FinalizeConclude, JobsSame, At, Kinds, Goto, Cleanup
    <2> QED BY <2>1, <2>2 DEF Frame
  <1> QED BY <1>1, <1>2, <1>3, <1>4, <1>5

LEMMA FailFrames ==
    ASSUME LDTypeOK, NEW d \in Deployments, NEW e \in Deployments \ {d},
           FailLoad(d) \/ FailStop(d) \/ FailConclude(d) \/ DeleteContainer(d)
    PROVE  Frame(e)
  <1>1. CASE FailLoad(d)
    <2>1. RowSame(e) /\ SeenSame(e)
      BY <1>1 DEF LDTypeOK, FailLoad, RowSame, SeenSame, Answered
    <2>2. JobsSame(e)
      BY <1>1, KindPlaces DEF LDTypeOK, FailLoad, JobsSame, At, Kinds, Goto, Take
    <2> QED BY <2>1, <2>2 DEF Frame
  <1>2. CASE FailStop(d)
    <2>1. RowSame(e) /\ SeenSame(e)
      BY <1>2 DEF LDTypeOK, FailStop, RowSame, SeenSame, Answered, StopSeen
    <2>2. JobsSame(e)
      BY <1>2, KindPlaces DEF LDTypeOK, FailStop, JobsSame, At, Kinds, Goto, Enqueue, StopSeen
    <2> QED BY <2>1, <2>2 DEF Frame
  <1>3. CASE FailConclude(d)
    <2>1. RowSame(e) /\ SeenSame(e)
      BY <1>3 DEF LDTypeOK, FailConclude, RowSame, SeenSame, Answered
    <2>2. JobsSame(e)
      BY <1>3, KindPlaces DEF LDTypeOK, FailConclude, JobsSame, At, Kinds, Goto
    <2> QED BY <2>1, <2>2 DEF Frame
  <1>4. CASE DeleteContainer(d)
    <2>1. RowSame(e) /\ SeenSame(e)
      BY <1>4 DEF LDTypeOK, DeleteContainer, RowSame, SeenSame, Answered
    <2>2. JobsSame(e)
      BY <1>4, KindPlaces DEF LDTypeOK, DeleteContainer, JobsSame, At, Kinds, Take
    <2> QED BY <2>1, <2>2 DEF Frame
  <1> QED BY <1>1, <1>2, <1>3, <1>4

\* The status of one deployment only advances, it is concluded once, and what
\* is completed stays so and does not start again.
Advance(e) ==
  /\ Rank(row[e].status) =< Rank(row'[e].status)
  /\ Concluded(e) => row'[e].conclusion = row[e].conclusion
  /\ row[e].status = "completed" =>
       row'[e].status = "completed" /\ (Stopped(e) => Stopped(e)')

LEMMA Ranks ==
    /\ Rank("absent") = 0 /\ Rank("prepare") = 1 /\ Rank("deploy") = 2
    /\ Rank("finalize") = 3 /\ Rank("fail") = 3 /\ Rank("completed") = 4
    /\ \A s \in Statuses : Rank(s) \in Nat
BY DEF Rank, Statuses

LEMMA FrameAdvances ==
    ASSUME LDTypeOK, NEW e \in Deployments, Frame(e)
    PROVE  Advance(e)
  <1>1. row[e].status \in Statuses
    BY DEF LDTypeOK, Rows
  <1> QED BY <1>1, Ranks DEF Frame, RowSame, SeenSame, Advance, Concluded, Stopped

LEMMA SaveJobIdFits ==
    ASSUME LDTypeOK, NEW d \in Deployments, StageFits(d), SaveJobId(d)
    PROVE  StageFits(d)' /\ Advance(d)
  <1>1. RowSame(d) /\ SeenSame(d)
    BY DEF LDTypeOK, Rows, SaveJobId, RowSame, SeenSame, Answered
  <1>2. JobsSame(d)
    BY KindPlaces DEF LDTypeOK, SaveJobId, JobsSame, At, Kinds, Goto
  <1> QED BY <1>1, <1>2, FrameKeeps, FrameAdvances DEF Frame
\* Each action of a deployment, with the stage it finds it in and the one it
\* leaves it in.

LEMMA CreateFits ==
    ASSUME LDTypeOK, Reliable, NEW d \in Deployments, StageFits(d), Create(d)
    PROVE  StageFits(d)' /\ Advance(d)
  <1>1. row[d].status = "absent" /\ Launching(d)
    BY DEF StageFits, Launching, Pending, At, LDTypeOK, Rows, Statuses, Create
  <1>2. row'[d].status = "prepare" /\ Launching(d)'
    BY <1>1, KindPlaces, SMTT(30) DEF Launching, Answered, LDTypeOK, Reliable, Rows, Boxes,
       Kinds, Pending, At, Create, Goto
  <1>3. StageFits(d)'
    BY <1>1, <1>2, KindPlaces DEF StageFits, Launching, LDTypeOK, Reliable, Rows, Boxes, Kinds,
       Pending, At, Create, Goto
  <1>4. Advance(d)
    BY <1>1, <1>2, Ranks DEF Advance, Concluded, Launching
  <1> QED BY <1>3, <1>4

LEMMA EnqueueStartFits ==
    ASSUME LDTypeOK, Reliable, NEW d \in Deployments, StageFits(d), EnqueueStart(d)
    PROVE  StageFits(d)' /\ Advance(d)
  <1>1. row[d].status = "prepare" /\ Launching(d)
    BY DEF StageFits, Launching, Pending, At, LDTypeOK, Rows, Statuses, EnqueueStart
  <1>2. row'[d].status = "prepare" /\ Launching(d)'
    BY <1>1, KindPlaces, SMTT(30) DEF Launching, Answered, LDTypeOK, Reliable, Rows, Boxes,
       Kinds, Pending, At, EnqueueStart, Goto, Enqueue
  <1>3. StageFits(d)'
    BY <1>1, <1>2, KindPlaces DEF StageFits, Launching, LDTypeOK, Reliable, Rows, Boxes, Kinds,
       Pending, At, EnqueueStart, Goto, Enqueue
  <1>4. Advance(d)
    BY <1>1, <1>2, Ranks DEF Advance, Concluded, Launching
  <1> QED BY <1>3, <1>4

LEMMA StartLoadFits ==
    ASSUME LDTypeOK, Reliable, NEW d \in Deployments, StageFits(d), StartLoad(d)
    PROVE  StageFits(d)' /\ Advance(d)
  <1>1. row[d].status = "prepare" /\ Launching(d)
    BY DEF StageFits, Launching, Pending, At, LDTypeOK, Rows, Statuses, StartLoad, Take
  <1>2. row'[d].status = "prepare" /\ Launching(d)'
    BY <1>1, KindPlaces, SMTT(30) DEF Launching, Answered, LDTypeOK, Reliable, Rows, Boxes,
       Kinds, Pending, At, StartLoad, Goto, Take
  <1>3. StageFits(d)'
    BY <1>1, <1>2, KindPlaces DEF StageFits, Launching, LDTypeOK, Reliable, Rows, Boxes, Kinds,
       Pending, At, StartLoad, Goto, Take
  <1>4. Advance(d)
    BY <1>1, <1>2, Ranks DEF Advance, Concluded, Launching
  <1> QED BY <1>3, <1>4

LEMMA StartCreateFits ==
    ASSUME LDTypeOK, Reliable, NEW d \in Deployments, StageFits(d), StartCreate(d)
    PROVE  StageFits(d)' /\ Advance(d)
  <1>1. row[d].status = "prepare" /\ Launching(d)
    BY DEF StageFits, Launching, Pending, At, LDTypeOK, Rows, Statuses, StartCreate
  <1>2. row'[d].status = "prepare" /\ Launching(d)'
    BY <1>1, KindPlaces, SMTT(30) DEF Launching, Answered, LDTypeOK, Reliable, Rows, Boxes,
       Kinds, Pending, At, StartCreate, Goto
  <1>3. StageFits(d)'
    BY <1>1, <1>2, KindPlaces DEF StageFits, Launching, LDTypeOK, Reliable, Rows, Boxes, Kinds,
       Pending, At, StartCreate, Goto
  <1>4. Advance(d)
    BY <1>1, <1>2, Ranks DEF Advance, Concluded, Launching
  <1> QED BY <1>3, <1>4

LEMMA StartBootFits ==
    ASSUME LDTypeOK, Reliable, NEW d \in Deployments, StageFits(d), StartBoot(d)
    PROVE  StageFits(d)' /\ Advance(d)
  <1>1. row[d].status = "prepare" /\ Launching(d)
    BY DEF StageFits, Launching, Pending, At, LDTypeOK, Rows, Statuses, StartBoot
  <1>2. row'[d].status = "prepare" /\ Launching(d)'
    BY <1>1, KindPlaces, SMTT(30) DEF Launching, Answered, LDTypeOK, Reliable, Rows, Boxes,
       Kinds, Pending, At, StartBoot, Goto
  <1>3. StageFits(d)'
    BY <1>1, <1>2, KindPlaces DEF StageFits, Launching, LDTypeOK, Reliable, Rows, Boxes, Kinds,
       Pending, At, StartBoot, Goto
  <1>4. Advance(d)
    BY <1>1, <1>2, Ranks DEF Advance, Concluded, Launching
  <1> QED BY <1>3, <1>4

LEMMA StartRecordFits ==
    ASSUME LDTypeOK, Reliable, NEW d \in Deployments, StageFits(d), StartRecord(d)
    PROVE  StageFits(d)' /\ Advance(d)
  <1>1. row[d].status = "prepare" /\ Launching(d)
    BY DEF StageFits, Launching, Pending, At, LDTypeOK, Rows, Statuses, StartRecord
  <1>2. row'[d].status = "deploy" /\ Monitored(d)'
    BY <1>1, KindPlaces, SMTT(30) DEF Launching, Monitored, Answered, LDTypeOK, Reliable, Rows,
       Boxes, Kinds, Pending, At, StartRecord, Goto
  <1>3. StageFits(d)'
    BY <1>1, <1>2, KindPlaces DEF StageFits, Launching, Monitored, LDTypeOK, Reliable, Rows,
       Boxes, Kinds, Pending, At, StartRecord, Goto
  <1>4. Advance(d)
    BY <1>1, <1>2, Ranks DEF Advance, Concluded, Launching
  <1> QED BY <1>3, <1>4

LEMMA StartRaisesFits ==
    ASSUME LDTypeOK, Reliable, NEW d \in Deployments, StageFits(d), StartRaises(d)
    PROVE  StageFits(d)' /\ Advance(d)
  <1>1. row[d].status = "prepare" /\ Launching(d)
    BY DEF StageFits, Launching, Pending, At, LDTypeOK, Rows, Statuses, StartRaises
  <1>2. row'[d].status = "prepare" /\ Launching(d)'
    BY <1>1, KindPlaces, SMTT(30) DEF Launching, Answered, LDTypeOK, Reliable, Rows, Boxes,
       Kinds, Pending, At, StartRaises, Goto, Enqueue
  <1>3. StageFits(d)'
    BY <1>1, <1>2, KindPlaces DEF StageFits, Launching, LDTypeOK, Reliable, Rows, Boxes, Kinds,
       Pending, At, StartRaises, Goto, Enqueue
  <1>4. Advance(d)
    BY <1>1, <1>2, Ranks DEF Advance, Concluded, Launching
  <1> QED BY <1>3, <1>4

LEMMA MonitorGivesUpFits ==
    ASSUME LDTypeOK, Reliable, NEW d \in Deployments, StageFits(d), MonitorGivesUp(d)
    PROVE  StageFits(d)' /\ Advance(d)
  <1>1. row[d].status = "deploy" /\ Monitored(d)
    BY DEF StageFits, Pending, At, LDTypeOK, Rows, Statuses, MonitorGivesUp, Watched
  <1>2. row'[d].status = "deploy" /\ Monitored(d)'
    BY <1>1, KindPlaces, SMTT(30) DEF Monitored, LDTypeOK, Reliable, Rows, Boxes, Kinds,
       Pending, At, MonitorGivesUp, Enqueue, Watched, Found
  <1>3. StageFits(d)'
    BY <1>1, <1>2, KindPlaces DEF StageFits, Monitored, LDTypeOK, Reliable, Rows, Boxes, Kinds,
       Pending, At, MonitorGivesUp, Enqueue, Watched, Found
  <1>4. Advance(d)
    BY <1>1, <1>2, Ranks DEF Advance, Concluded, Monitored
  <1> QED BY <1>3, <1>4

LEMMA MonitorProbeFits ==
    ASSUME LDTypeOK, Reliable, NEW d \in Deployments, StageFits(d), MonitorProbe(d)
    PROVE  StageFits(d)' /\ Advance(d)
  <1>1. row[d].status = "deploy" /\ Monitored(d)
    BY DEF StageFits, Pending, At, LDTypeOK, Rows, Statuses, MonitorProbe, Watched
  <1>2. /\ probe'[d] = box[d].id /\ d \notin timedOut
        /\ UNCHANGED <<row, box, answered, timedOut, queue, task>>
    BY <1>1 DEF LDTypeOK, Monitored, MonitorProbe
  <1>3. row'[d].status = "deploy" /\ Monitored(d)'
    BY <1>1, <1>2 DEF Monitored, Pending, At
  <1>4. StageFits(d)'
    BY <1>1, <1>3, KindPlaces DEF StageFits, Monitored, LDTypeOK, Reliable, Rows, Boxes, Kinds,
       Pending, At, MonitorProbe, Watched, Found
  <1>5. Advance(d)
    BY <1>1, <1>3, Ranks DEF Advance, Concluded, Monitored
  <1> QED BY <1>4, <1>5

LEMMA MonitorExitedFits ==
    ASSUME LDTypeOK, Reliable, NEW d \in Deployments, StageFits(d), MonitorExited(d)
    PROVE  StageFits(d)' /\ Advance(d)
  <1>1. row[d].status \in {"deploy", "fail", "completed"}
    BY DEF StageFits, Launching, Monitored, Finalizing, Failing, Completed, ProbesInVain,
       Pending, At, LDTypeOK, Rows, Statuses, Concluded, Boxes, MonitorExited
  <1>2. CASE row[d].status = "deploy"
    <2>1. Monitored(d)
      BY <1>2 DEF StageFits
    <2>2. row'[d].status = "deploy" /\ Monitored(d)'
      BY <1>2, <2>1, KindPlaces, SMTT(30) DEF Monitored, LDTypeOK, Reliable, Rows, Boxes,
         Kinds, Pending, At, MonitorExited, Enqueue, Found
    <2>3. StageFits(d)'
      BY <1>2, <2>1, <2>2, KindPlaces DEF StageFits, Monitored, LDTypeOK, Reliable, Rows,
         Boxes, Kinds, Pending, At, MonitorExited, Enqueue, Found
    <2>4. Advance(d)
      BY <1>2, <2>1, <2>2, Ranks DEF Advance, Concluded, Monitored
    <2> QED BY <2>3, <2>4
  <1>3. CASE row[d].status = "fail"
    <2>1. Failing(d)
      BY <1>3 DEF StageFits
    <2>2. row'[d].status = "fail" /\ Failing(d)'
      BY <1>3, <2>1, KindPlaces, SMTT(30) DEF Failing, ProbesInVain, Stopped, LDTypeOK,
         Reliable, Rows, Boxes, Kinds, Pending, At, MonitorExited, Enqueue, Found
    <2>3. StageFits(d)'
      BY <1>3, <2>1, <2>2, KindPlaces DEF StageFits, Failing, LDTypeOK, Reliable, Rows, Boxes,
         Kinds, Pending, At, MonitorExited, Enqueue, Found
    <2>4. Advance(d)
      BY <1>3, <2>1, <2>2, Ranks DEF Advance, Concluded, Failing
    <2> QED BY <2>3, <2>4
  <1>4. CASE row[d].status = "completed"
    <2>1. Completed(d)
      BY <1>4 DEF StageFits
    <2>2. row'[d].status = "completed" /\ Completed(d)'
      BY <1>4, <2>1, KindPlaces, SMTT(30) DEF Completed, Recorded, ProbesInVain, Stopped,
         LDTypeOK, Reliable, Rows, Boxes, Kinds, Pending, At, MonitorExited, Enqueue, Found
    <2>3. StageFits(d)'
      BY <1>4, <2>1, <2>2, KindPlaces DEF StageFits, Completed, LDTypeOK, Reliable, Rows,
         Boxes, Kinds, Pending, At, MonitorExited, Enqueue, Found
    <2>4. Advance(d)
      BY <1>4, <2>2, Ranks DEF Advance, Concluded, Stopped, LDTypeOK, Rows, Boxes,
         MonitorExited, Enqueue
    <2> QED BY <2>3, <2>4
  <1> QED BY <1>1, <1>2, <1>3, <1>4

LEMMA MonitorNoAnswerFits ==
    ASSUME LDTypeOK, Reliable, NEW d \in Deployments, StageFits(d), MonitorNoAnswer(d)
    PROVE  StageFits(d)' /\ Advance(d)
  <1>1. row[d].status \in {"deploy", "fail", "completed"}
    BY DEF StageFits, Launching, Monitored, Finalizing, Failing, Completed, ProbesInVain,
       Pending, At, LDTypeOK, Rows, Statuses, Concluded, Boxes, MonitorNoAnswer
  <1>2. CASE row[d].status = "deploy"
    <2>1. Monitored(d)
      BY <1>2 DEF StageFits
    <2>2. row'[d].status = "deploy" /\ Monitored(d)'
      BY <1>2, <2>1, KindPlaces, SMTT(30) DEF Monitored, LDTypeOK, Reliable, Rows, Boxes,
         Kinds, Pending, At, MonitorNoAnswer
    <2>3. StageFits(d)'
      BY <1>2, <2>1, <2>2, KindPlaces DEF StageFits, Monitored, LDTypeOK, Reliable, Rows,
         Boxes, Kinds, Pending, At, MonitorNoAnswer
    <2>4. Advance(d)
      BY <1>2, <2>1, <2>2, Ranks DEF Advance, Concluded, Monitored
    <2> QED BY <2>3, <2>4
  <1>3. CASE row[d].status = "fail"
    <2>1. Failing(d)
      BY <1>3 DEF StageFits
    <2>2. row'[d].status = "fail" /\ Failing(d)'
      BY <1>3, <2>1, KindPlaces, SMTT(30) DEF Failing, ProbesInVain, Stopped, LDTypeOK,
         Reliable, Rows, Boxes, Kinds, Pending, At, MonitorNoAnswer
    <2>3. StageFits(d)'
      BY <1>3, <2>1, <2>2, KindPlaces DEF StageFits, Failing, LDTypeOK, Reliable, Rows, Boxes,
         Kinds, Pending, At, MonitorNoAnswer
    <2>4. Advance(d)
      BY <1>3, <2>1, <2>2, Ranks DEF Advance, Concluded, Failing
    <2> QED BY <2>3, <2>4
  <1>4. CASE row[d].status = "completed"
    <2>1. Completed(d)
      BY <1>4 DEF StageFits
    <2>2. row'[d].status = "completed" /\ Completed(d)'
      BY <1>4, <2>1, KindPlaces, SMTT(30) DEF Completed, Recorded, ProbesInVain, Stopped,
         LDTypeOK, Reliable, Rows, Boxes, Kinds, Pending, At, MonitorNoAnswer
    <2>3. StageFits(d)'
      BY <1>4, <2>1, <2>2, KindPlaces DEF StageFits, Completed, LDTypeOK, Reliable, Rows,
         Boxes, Kinds, Pending, At, MonitorNoAnswer
    <2>4. Advance(d)
      BY <1>4, <2>2, Ranks DEF Advance, Concluded, Stopped, LDTypeOK, Rows, Boxes,
         MonitorNoAnswer
    <2> QED BY <2>3, <2>4
  <1> QED BY <1>1, <1>2, <1>3, <1>4

LEMMA MonitorReadyFits ==
    ASSUME LDTypeOK, Reliable, NEW d \in Deployments, StageFits(d), MonitorReady(d)
    PROVE  StageFits(d)' /\ Advance(d)
  <1>1. row[d].status = "deploy" /\ Monitored(d)
    BY DEF StageFits, Launching, Monitored, Finalizing, Failing, Completed, ProbesInVain,
       Pending, At, LDTypeOK, Rows, Statuses, MonitorReady, Stopped, Answered
  <1>2. probe[d] = box[d].id /\ <<"fail", d>> \notin queue
    BY <1>1 DEF Monitored, MonitorReady, LDTypeOK, Boxes
  <1>3. row'[d].status = "finalize" /\ Finalizing(d)'
    BY <1>1, <1>2, KindPlaces, SMTT(30) DEF Monitored, Finalizing, Recorded, Stopped, LDTypeOK,
       Reliable, Rows, Boxes, Kinds, Pending, At, MonitorReady, Enqueue
  <1>4. StageFits(d)'
    BY <1>1, <1>3, KindPlaces DEF StageFits, Monitored, Finalizing, LDTypeOK, Reliable, Rows,
       Boxes, Kinds, Pending, At, MonitorReady, Enqueue
  <1>5. Advance(d)
    BY <1>1, <1>3, Ranks DEF Advance, Concluded, Monitored
  <1> QED BY <1>4, <1>5

LEMMA MonitorAnswerFits ==
    ASSUME LDTypeOK, Reliable, NEW d \in Deployments, StageFits(d), MonitorAnswer(d)
    PROVE  StageFits(d)' /\ Advance(d)
  <1>1. row[d].status = "deploy" /\ Monitored(d)
    BY DEF StageFits, Launching, Monitored, Finalizing, Failing, Completed, ProbesInVain,
       Pending, At, LDTypeOK, Rows, Statuses, MonitorAnswer, Found, Stopped, Answered
  <1>2. row'[d].status = "deploy" /\ Monitored(d)'
    BY <1>1, KindPlaces, SMTT(30) DEF Monitored, LDTypeOK, Reliable, Rows, Boxes, Kinds,
       Pending, At, MonitorAnswer, Found
  <1>3. StageFits(d)'
    BY <1>1, <1>2, KindPlaces DEF StageFits, Monitored, LDTypeOK, Reliable, Rows, Boxes, Kinds,
       Pending, At, MonitorAnswer, Found
  <1>4. Advance(d)
    BY <1>1, <1>2, Ranks DEF Advance, Concluded, Monitored
  <1> QED BY <1>3, <1>4

LEMMA AppExitsFits ==
    ASSUME LDTypeOK, Reliable, NEW d \in Deployments, StageFits(d), AppExits(d)
    PROVE  StageFits(d)' /\ Advance(d)
  <1>1. row[d].status \in {"prepare", "deploy", "finalize", "fail", "completed"}
    BY DEF StageFits, Launching, Monitored, Finalizing, Failing, Completed, ProbesInVain,
       Pending, At, LDTypeOK, Rows, Statuses, Concluded, Boxes, AppExits
  <1>2. CASE row[d].status = "prepare"
    <2>1. Launching(d)
      BY <1>2 DEF StageFits
    <2>2. row'[d].status = "prepare" /\ Launching(d)'
      BY <1>2, <2>1, KindPlaces, SMTT(30) DEF Launching, Answered, LDTypeOK, Reliable, Rows,
         Boxes, Kinds, Pending, At, AppExits
    <2>3. StageFits(d)'
      BY <1>2, <2>1, <2>2, KindPlaces DEF StageFits, Launching, LDTypeOK, Reliable, Rows,
         Boxes, Kinds, Pending, At, AppExits
    <2>4. Advance(d)
      BY <1>2, <2>1, <2>2, Ranks DEF Advance, Concluded, Launching
    <2> QED BY <2>3, <2>4
  <1>3. CASE row[d].status = "deploy"
    <2>1. Monitored(d)
      BY <1>3 DEF StageFits
    <2>2. row'[d].status = "deploy" /\ Monitored(d)'
      BY <1>3, <2>1, KindPlaces, SMTT(30) DEF Monitored, LDTypeOK, Reliable, Rows, Boxes,
         Kinds, Pending, At, AppExits
    <2>3. StageFits(d)'
      BY <1>3, <2>1, <2>2, KindPlaces DEF StageFits, Monitored, LDTypeOK, Reliable, Rows,
         Boxes, Kinds, Pending, At, AppExits
    <2>4. Advance(d)
      BY <1>3, <2>1, <2>2, Ranks DEF Advance, Concluded, Monitored
    <2> QED BY <2>3, <2>4
  <1>4. CASE row[d].status = "finalize"
    <2>1. Finalizing(d)
      BY <1>4 DEF StageFits
    <2>2. row'[d].status = "finalize" /\ Finalizing(d)'
      BY <1>4, <2>1, KindPlaces, SMTT(30) DEF Finalizing, Recorded, Stopped, LDTypeOK,
         Reliable, Rows, Boxes, Kinds, Pending, At, AppExits
    <2>3. StageFits(d)'
      BY <1>4, <2>1, <2>2, KindPlaces DEF StageFits, Finalizing, LDTypeOK, Reliable, Rows,
         Boxes, Kinds, Pending, At, AppExits
    <2>4. Advance(d)
      BY <1>4, <2>1, <2>2, Ranks DEF Advance, Concluded, Finalizing
    <2> QED BY <2>3, <2>4
  <1>5. CASE row[d].status = "fail"
    <2>1. Failing(d)
      BY <1>5 DEF StageFits
    <2>2. row'[d].status = "fail" /\ Failing(d)'
      BY <1>5, <2>1, KindPlaces, SMTT(30) DEF Failing, ProbesInVain, Stopped, LDTypeOK,
         Reliable, Rows, Boxes, Kinds, Pending, At, AppExits
    <2>3. StageFits(d)'
      BY <1>5, <2>1, <2>2, KindPlaces DEF StageFits, Failing, LDTypeOK, Reliable, Rows, Boxes,
         Kinds, Pending, At, AppExits
    <2>4. Advance(d)
      BY <1>5, <2>1, <2>2, Ranks DEF Advance, Concluded, Failing
    <2> QED BY <2>3, <2>4
  <1>6. CASE row[d].status = "completed"
    <2>1. Completed(d)
      BY <1>6 DEF StageFits
    <2>2. row'[d].status = "completed" /\ Completed(d)'
      BY <1>6, <2>1, KindPlaces, SMTT(30) DEF Completed, Recorded, ProbesInVain, Stopped,
         LDTypeOK, Reliable, Rows, Boxes, Kinds, Pending, At, AppExits
    <2>3. StageFits(d)'
      BY <1>6, <2>1, <2>2, KindPlaces DEF StageFits, Completed, LDTypeOK, Reliable, Rows,
         Boxes, Kinds, Pending, At, AppExits
    <2>4. Advance(d)
      BY <1>6, <2>2, Ranks DEF Advance, Concluded, Stopped, LDTypeOK, Rows, Boxes, AppExits
    <2> QED BY <2>3, <2>4
  <1> QED BY <1>1, <1>2, <1>3, <1>4, <1>5, <1>6

LEMMA TimeOutFits ==
    ASSUME LDTypeOK, Reliable, NEW d \in Deployments, StageFits(d), TimeOut(d)
    PROVE  StageFits(d)' /\ Advance(d)
  <1>1. row[d].status \in {"prepare", "deploy", "finalize", "fail"}
    BY DEF StageFits, Launching, Monitored, Finalizing, Failing, Completed, ProbesInVain,
       Pending, At, LDTypeOK, Rows, Statuses, Concluded, Boxes, TimeOut
  <1>2. CASE row[d].status = "prepare"
    <2>1. Launching(d)
      BY <1>2 DEF StageFits
    <2>2. row'[d].status = "prepare" /\ Launching(d)'
      BY <1>2, <2>1, KindPlaces, SMTT(30) DEF Launching, Answered, LDTypeOK, Reliable, Rows,
         Boxes, Kinds, Pending, At, TimeOut, Concluded
    <2>3. StageFits(d)'
      BY <1>2, <2>1, <2>2, KindPlaces DEF StageFits, Launching, LDTypeOK, Reliable, Rows,
         Boxes, Kinds, Pending, At, TimeOut, Concluded
    <2>4. Advance(d)
      BY <1>2, <2>1, <2>2, Ranks DEF Advance, Concluded, Launching
    <2> QED BY <2>3, <2>4
  <1>3. CASE row[d].status = "deploy"
    <2>1. Monitored(d)
      BY <1>3 DEF StageFits
    <2>2. row'[d].status = "deploy" /\ Monitored(d)'
      BY <1>3, <2>1, KindPlaces, SMTT(30) DEF Monitored, LDTypeOK, Reliable, Rows, Boxes,
         Kinds, Pending, At, TimeOut, Concluded
    <2>3. StageFits(d)'
      BY <1>3, <2>1, <2>2, KindPlaces DEF StageFits, Monitored, LDTypeOK, Reliable, Rows,
         Boxes, Kinds, Pending, At, TimeOut, Concluded
    <2>4. Advance(d)
      BY <1>3, <2>1, <2>2, Ranks DEF Advance, Concluded, Monitored
    <2> QED BY <2>3, <2>4
  <1>4. CASE row[d].status = "finalize"
    <2>1. Finalizing(d)
      BY <1>4 DEF StageFits
    <2>2. row'[d].status = "finalize" /\ Finalizing(d)'
      BY <1>4, <2>1, KindPlaces, SMTT(30) DEF Finalizing, Recorded, Stopped, LDTypeOK,
         Reliable, Rows, Boxes, Kinds, Pending, At, TimeOut, Concluded
    <2>3. StageFits(d)'
      BY <1>4, <2>1, <2>2, KindPlaces DEF StageFits, Finalizing, LDTypeOK, Reliable, Rows,
         Boxes, Kinds, Pending, At, TimeOut, Concluded
    <2>4. Advance(d)
      BY <1>4, <2>1, <2>2, Ranks DEF Advance, Concluded, Finalizing
    <2> QED BY <2>3, <2>4
  <1>5. CASE row[d].status = "fail"
    <2>1. Failing(d)
      BY <1>5 DEF StageFits
    <2>2. row'[d].status = "fail" /\ Failing(d)'
      BY <1>5, <2>1, KindPlaces, SMTT(30) DEF Failing, ProbesInVain, Stopped, LDTypeOK,
         Reliable, Rows, Boxes, Kinds, Pending, At, TimeOut, Concluded
    <2>3. StageFits(d)'
      BY <1>5, <2>1, <2>2, KindPlaces DEF StageFits, Failing, LDTypeOK, Reliable, Rows, Boxes,
         Kinds, Pending, At, TimeOut, Concluded
    <2>4. Advance(d)
      BY <1>5, <2>1, <2>2, Ranks DEF Advance, Concluded, Failing
    <2> QED BY <2>3, <2>4
  <1> QED BY <1>1, <1>2, <1>3, <1>4, <1>5

LEMMA FinalizeLoadFits ==
    ASSUME LDTypeOK, Reliable, NEW d \in Deployments, StageFits(d), FinalizeLoad(d)
    PROVE  StageFits(d)' /\ Advance(d)
  <1>1. row[d].status = "finalize" /\ Finalizing(d)
    BY DEF StageFits, Launching, Monitored, Finalizing, Failing, Completed, ProbesInVain,
       Pending, At, LDTypeOK, Rows, Statuses, FinalizeLoad, Take
  <1>2. row'[d].status = "finalize" /\ Finalizing(d)'
    BY <1>1, KindPlaces, SMTT(30) DEF Finalizing, Recorded, Stopped, LDTypeOK, Reliable, Rows,
       Boxes, Kinds, Pending, At, FinalizeLoad, Goto, Take
  <1>3. StageFits(d)'
    BY <1>1, <1>2, KindPlaces DEF StageFits, Finalizing, LDTypeOK, Reliable, Rows, Boxes,
       Kinds, Pending, At, FinalizeLoad, Goto, Take
  <1>4. Advance(d)
    BY <1>1, <1>2, Ranks DEF Advance, Concluded, Finalizing
  <1> QED BY <1>3, <1>4

LEMMA FinalizeAliasesFits ==
    ASSUME LDTypeOK, Reliable, NEW d \in Deployments, StageFits(d), FinalizeAliases(d)
    PROVE  StageFits(d)' /\ Advance(d)
  <1>1. row[d].status = "finalize" /\ Finalizing(d)
    BY DEF StageFits, Launching, Monitored, Finalizing, Failing, Completed, ProbesInVain,
       Pending, At, LDTypeOK, Rows, Statuses, FinalizeAliases
  <1>2. row'[d].status = "finalize" /\ Finalizing(d)'
    BY <1>1, KindPlaces, SMTT(30) DEF Finalizing, Recorded, Stopped, LDTypeOK, Reliable, Rows,
       Boxes, Kinds, Pending, At, FinalizeAliases, Goto
  <1>3. StageFits(d)'
    BY <1>1, <1>2, KindPlaces DEF StageFits, Finalizing, LDTypeOK, Reliable, Rows, Boxes,
       Kinds, Pending, At, FinalizeAliases, Goto
  <1>4. Advance(d)
    BY <1>1, <1>2, Ranks DEF Advance, Concluded, Finalizing
  <1> QED BY <1>3, <1>4

LEMMA FinalizeReadFits ==
    ASSUME LDTypeOK, Reliable, NEW d \in Deployments, StageFits(d), FinalizeRead(d)
    PROVE  StageFits(d)' /\ Advance(d)
  <1>1. row[d].status = "finalize" /\ Finalizing(d)
    BY DEF StageFits, Launching, Monitored, Finalizing, Failing, Completed, ProbesInVain,
       Pending, At, LDTypeOK, Rows, Statuses, FinalizeRead
  <1>2. row'[d].status = "finalize" /\ Finalizing(d)'
    BY <1>1, KindPlaces, SMTT(30) DEF Finalizing, Recorded, Stopped, LDTypeOK, Reliable, Rows,
       Boxes, Kinds, Pending, At, FinalizeRead, Goto
  <1>3. StageFits(d)'
    BY <1>1, <1>2, KindPlaces DEF StageFits, Finalizing, LDTypeOK, Reliable, Rows, Boxes,
       Kinds, Pending, At, FinalizeRead, Goto
  <1>4. Advance(d)
    BY <1>1, <1>2, Ranks DEF Advance, Concluded, Finalizing
  <1> QED BY <1>3, <1>4

LEMMA FinalizeWriteFits ==
    ASSUME LDTypeOK, Reliable, NEW d \in Deployments, StageFits(d), FinalizeWrite(d)
    PROVE  StageFits(d)' /\ Advance(d)
  <1>1. row[d].status = "finalize" /\ Finalizing(d)
    BY DEF StageFits, Launching, Monitored, Finalizing, Failing, Completed, ProbesInVain,
       Pending, At, LDTypeOK, Rows, Statuses, FinalizeWrite
  <1>2. row'[d].status = "finalize" /\ Finalizing(d)'
    BY <1>1, KindPlaces, SMTT(30) DEF Finalizing, Recorded, Stopped, LDTypeOK, Reliable, Rows,
       Boxes, Kinds, Pending, At, FinalizeWrite, Goto
  <1>3. StageFits(d)'
    BY <1>1, <1>2, KindPlaces DEF StageFits, Finalizing, LDTypeOK, Reliable, Rows, Boxes,
       Kinds, Pending, At, FinalizeWrite, Goto
  <1>4. Advance(d)
    BY <1>1, <1>2, Ranks DEF Advance, Concluded, Finalizing
  <1> QED BY <1>3, <1>4

LEMMA FinalizeConcludeFits ==
    ASSUME LDTypeOK, Reliable, NEW d \in Deployments, StageFits(d), FinalizeConclude(d)
    PROVE  StageFits(d)' /\ Advance(d)
  <1>1. row[d].status = "finalize" /\ Finalizing(d)
    BY DEF StageFits, Launching, Monitored, Finalizing, Failing, Completed, ProbesInVain,
       Pending, At, LDTypeOK, Rows, Statuses, FinalizeConclude
  <1>2. row'[d].status = "completed" /\ Completed(d)'
    BY <1>1, KindPlaces, SMTT(30) DEF Finalizing, Completed, Recorded, Stopped, ProbesInVain,
       LDTypeOK, Reliable, Rows, Boxes, Kinds, Pending, At, FinalizeConclude, Goto, Cleanup
  <1>3. StageFits(d)'
    BY <1>1, <1>2, KindPlaces DEF StageFits, Finalizing, Completed, LDTypeOK, Reliable, Rows,
       Boxes, Kinds, Pending, At, FinalizeConclude, Goto, Cleanup
  <1>4. Advance(d)
    BY <1>1, <1>2, Ranks DEF Advance, Concluded, Finalizing
  <1> QED BY <1>3, <1>4

LEMMA FailLoadFits ==
    ASSUME LDTypeOK, Reliable, NEW d \in Deployments, StageFits(d), FailLoad(d)
    PROVE  StageFits(d)' /\ Advance(d)
  <1>1. row[d].status \in {"prepare", "deploy", "completed"}
    BY DEF StageFits, Launching, Monitored, Finalizing, Failing, Completed, ProbesInVain,
       Pending, At, LDTypeOK, Rows, Statuses, Concluded, Boxes, FailLoad, Take
  <1>2. CASE row[d].status = "prepare"
    <2>1. Launching(d)
      BY <1>2 DEF StageFits
    <2>2. row'[d].status = "fail" /\ Failing(d)'
      BY <1>2, <2>1, KindPlaces, SMTT(30) DEF Launching, Failing, ProbesInVain, Stopped,
         Answered, LDTypeOK, Reliable, Rows, Boxes, Kinds, Pending, At, FailLoad, Goto, Take,
         Concluded
    <2>3. StageFits(d)'
      BY <1>2, <2>1, <2>2, KindPlaces DEF StageFits, Launching, Failing, LDTypeOK, Reliable,
         Rows, Boxes, Kinds, Pending, At, FailLoad, Goto, Take, Concluded
    <2>4. Advance(d)
      BY <1>2, <2>1, <2>2, Ranks DEF Advance, Concluded, Launching
    <2> QED BY <2>3, <2>4
  <1>3. CASE row[d].status = "deploy"
    <2>1. Monitored(d)
      BY <1>3 DEF StageFits
    <2>2. ProbesInVain(d)
      BY <2>1 DEF Monitored, ProbesInVain, Stopped, FailLoad, Take, LDTypeOK, Boxes
    <2>3. row'[d].status = "fail" /\ Failing(d)'
      BY <1>3, <2>1, <2>2, KindPlaces, SMTT(30) DEF Monitored, Failing, ProbesInVain, Stopped,
         LDTypeOK, Reliable, Rows, Boxes, Kinds, Pending, At, FailLoad, Goto, Take, Concluded
    <2>4. StageFits(d)'
      BY <1>3, <2>1, <2>3, KindPlaces DEF StageFits, Monitored, Failing, LDTypeOK, Reliable,
         Rows, Boxes, Kinds, Pending, At, FailLoad, Goto, Take, Concluded
    <2>5. Advance(d)
      BY <1>3, <2>1, <2>3, Ranks DEF Advance, Concluded, Monitored
    <2> QED BY <2>4, <2>5
  <1>4. CASE row[d].status = "completed"
    <2>1. Completed(d)
      BY <1>4 DEF StageFits
    <2>2. row'[d].status = "completed" /\ Completed(d)'
      BY <1>4, <2>1, KindPlaces, SMTT(30) DEF Completed, Recorded, ProbesInVain, Stopped,
         LDTypeOK, Reliable, Rows, Boxes, Kinds, Pending, At, FailLoad, Goto, Take, Concluded
    <2>3. StageFits(d)'
      BY <1>4, <2>1, <2>2, KindPlaces DEF StageFits, Completed, LDTypeOK, Reliable, Rows,
         Boxes, Kinds, Pending, At, FailLoad, Goto, Take, Concluded
    <2>4. Advance(d)
      BY <1>4, <2>2, Ranks DEF Advance, Concluded, Stopped, LDTypeOK, Rows, Boxes, FailLoad,
         Take
    <2> QED BY <2>3, <2>4
  <1> QED BY <1>1, <1>2, <1>3, <1>4

LEMMA FailStopFits ==
    ASSUME LDTypeOK, Reliable, NEW d \in Deployments, StageFits(d), FailStop(d)
    PROVE  StageFits(d)' /\ Advance(d)
  <1>1. row[d].status = "fail" /\ Failing(d)
    BY DEF StageFits, Launching, Monitored, Finalizing, Failing, Completed, ProbesInVain,
       Pending, At, LDTypeOK, Rows, Statuses, FailStop
  <1>2. row'[d].status = "fail" /\ Failing(d)'
    BY <1>1, KindPlaces, SMTT(30) DEF Failing, ProbesInVain, Stopped, LDTypeOK, Reliable, Rows,
       Boxes, Kinds, Pending, At, FailStop, Goto, StopSeen, Stop, Found, Enqueue, Absent
  <1>3. StageFits(d)'
    BY <1>1, <1>2, KindPlaces DEF StageFits, Failing, LDTypeOK, Reliable, Rows, Boxes, Kinds,
       Pending, At, FailStop, Goto, StopSeen, Stop, Found, Enqueue, Absent
  <1>4. Advance(d)
    BY <1>1, <1>2, Ranks DEF Advance, Concluded, Failing
  <1> QED BY <1>3, <1>4

LEMMA FailConcludeFits ==
    ASSUME LDTypeOK, Reliable, NEW d \in Deployments, StageFits(d), FailConclude(d)
    PROVE  StageFits(d)' /\ Advance(d)
  <1>1. row[d].status = "fail" /\ Failing(d)
    BY DEF StageFits, Launching, Monitored, Finalizing, Failing, Completed, ProbesInVain,
       Pending, At, LDTypeOK, Rows, Statuses, FailConclude
  <1>2. row'[d].status = "completed" /\ Completed(d)'
    BY <1>1, KindPlaces, SMTT(30) DEF Failing, Completed, ProbesInVain, Stopped, Recorded,
       LDTypeOK, Reliable, Rows, Boxes, Kinds, Pending, At, FailConclude, Goto
  <1>3. StageFits(d)'
    BY <1>1, <1>2, KindPlaces DEF StageFits, Failing, Completed, LDTypeOK, Reliable, Rows,
       Boxes, Kinds, Pending, At, FailConclude, Goto
  <1>4. Advance(d)
    BY <1>1, <1>2, Ranks DEF Advance, Concluded, Failing
  <1> QED BY <1>3, <1>4

LEMMA DeleteContainerFits ==
    ASSUME LDTypeOK, Reliable, NEW d \in Deployments, StageFits(d), DeleteContainer(d)
    PROVE  StageFits(d)' /\ Advance(d)
  <1>1. row[d].status \in {"fail", "completed"}
    BY DEF StageFits, Launching, Monitored, Finalizing, Failing, Completed, ProbesInVain,
       Pending, At, LDTypeOK, Rows, Statuses, Concluded, Boxes, DeleteContainer, Take
  <1>2. CASE row[d].status = "fail"
    <2>1. Failing(d)
      BY <1>2 DEF StageFits
    <2>2. row'[d].status = "fail" /\ Failing(d)'
      BY <1>2, <2>1, KindPlaces, SMTT(30) DEF Failing, ProbesInVain, Stopped, LDTypeOK,
         Reliable, Rows, Boxes, Kinds, Pending, At, DeleteContainer, Take, Found
    <2>3. StageFits(d)'
      BY <1>2, <2>1, <2>2, KindPlaces DEF StageFits, Failing, LDTypeOK, Reliable, Rows, Boxes,
         Kinds, Pending, At, DeleteContainer, Take, Found
    <2>4. Advance(d)
      BY <1>2, <2>1, <2>2, Ranks DEF Advance, Concluded, Failing
    <2> QED BY <2>3, <2>4
  <1>3. CASE row[d].status = "completed"
    <2>1. Completed(d)
      BY <1>3 DEF StageFits
    <2>2. row'[d].status = "completed" /\ Completed(d)'
      BY <1>3, <2>1, KindPlaces, SMTT(30) DEF Completed, Recorded, ProbesInVain, Stopped,
         LDTypeOK, Reliable, Rows, Boxes, Kinds, Pending, At, DeleteContainer, Take, Found
    <2>3. StageFits(d)'
      BY <1>3, <2>1, <2>2, KindPlaces DEF StageFits, Completed, LDTypeOK, Reliable, Rows,
         Boxes, Kinds, Pending, At, DeleteContainer, Take, Found
    <2>4. Advance(d)
      BY <1>3, <2>2, Ranks DEF Advance, Concluded, Stopped, LDTypeOK, Rows, Boxes,
         DeleteContainer, Take
    <2> QED BY <2>3, <2>4
  <1> QED BY <1>1, <1>2, <1>3

-----------------------------------------------------------------------------
(* The pipeline, when nobody cancels and nothing fails.                    *)

\* The actions of a deployment that such a run takes.
Proceeds(d) ==
  \/ Create(d) \/ EnqueueStart(d) \/ SaveJobId(d)
  \/ StartLoad(d) \/ StartCreate(d) \/ StartBoot(d) \/ StartRecord(d) \/ StartRaises(d)
  \/ Monitor(d) \/ MonitorAnswer(d) \/ AppExits(d) \/ TimeOut(d)
  \/ FinalizeLoad(d) \/ FinalizeAliases(d) \/ FinalizeRead(d) \/ FinalizeWrite(d)
  \/ FinalizeConclude(d)
  \/ FailLoad(d) \/ FailStop(d) \/ FailConclude(d) \/ DeleteContainer(d)

LEMMA ReliableSteps ==
    ASSUME Reliable, PipelineInv, Next
    PROVE  (\E d \in Deployments : Proceeds(d)) \/ Sweep \/ Roll
  <1>1. ASSUME NEW d \in Deployments,
               \/ StartDropped(d) \/ StartAborted(d) \/ FinalizeRaises(d)
               \/ CancelAsk(d) \/ CancelCommit(d) \/ CancelAbort(d) \/ CancelStop(d)
        PROVE  FALSE
    <2>1. At("cancel", d, "idle") /\ d \notin aborting /\ ~Faulty /\ d \notin Cancelable
      BY DEF PipelineInv, StageFits, Reliable
    <2> QED BY <1>1, <2>1 DEF StartDropped, StartAborted, FinalizeRaises, CancelAsk,
           CancelCommit, CancelAbort, CancelStop, At
  <1>2. ~WorkerCrash
    BY DEF WorkerCrash, Reliable, PipelineInv
  <1> QED BY <1>1, <1>2
      DEF Next, Deploy, Redeploy, Push, Worker, Request, Proceeds

LEMMA ProceedsFits ==
    ASSUME Reliable, PipelineInv, NEW d \in Deployments, Proceeds(d), NEW e \in Deployments
    PROVE  StageFits(e)' /\ Advance(e)
  <1>1. LDTypeOK /\ StageFits(d) /\ StageFits(e)
    BY DEF PipelineInv
  <1>2. CASE e = d
    BY <1>1, <1>2, CreateFits, EnqueueStartFits, SaveJobIdFits, StartLoadFits, StartCreateFits,
       StartBootFits, StartRecordFits, StartRaisesFits, MonitorGivesUpFits, MonitorProbeFits,
       MonitorExitedFits, MonitorNoAnswerFits, MonitorReadyFits, MonitorAnswerFits,
       AppExitsFits, TimeOutFits, FinalizeLoadFits, FinalizeAliasesFits, FinalizeReadFits,
       FinalizeWriteFits, FinalizeConcludeFits, FailLoadFits, FailStopFits, FailConcludeFits,
       DeleteContainerFits
    DEF Proceeds, Monitor
  <1>3. CASE e # d
    <2>1. Frame(e)
      BY <1>1, <1>3, RequestFrames, StartFrames, WatchFrames, FinalizeFrames, FailFrames
      DEF Proceeds, Monitor
    <2> QED BY <1>1, <2>1, FrameKeeps, FrameAdvances
  <1> QED BY <1>2, <1>3

LEMMA ProceedsApart ==
    ASSUME LDTypeOK, NEW d \in Deployments, Proceeds(d)
    PROVE  UNCHANGED <<aborting, sweep, crashes>> /\ task'[Cleanup] = task[Cleanup]
  <1>1. /\ \A k \in Kinds : Cleanup # <<k, d>>
        /\ Cleanup \in Places
    BY DEF Cleanup, Kinds, Places
  <1>2. \A k \in Kinds : \A pc : Goto(k, d, pc) => task'[Cleanup] = task[Cleanup]
    BY <1>1 DEF LDTypeOK, Goto
  <1>3. CASE Create(d) \/ EnqueueStart(d) \/ SaveJobId(d)
    BY <1>2, <1>3, KindNames DEF Create, EnqueueStart, SaveJobId
  <1>4. CASE StartLoad(d) \/ StartCreate(d) \/ StartBoot(d) \/ StartRecord(d) \/ StartRaises(d)
    BY <1>2, <1>4, KindNames DEF StartLoad, StartCreate, StartBoot, StartRecord, StartRaises
  <1>5. CASE Monitor(d) \/ MonitorAnswer(d) \/ AppExits(d) \/ TimeOut(d)
    BY <1>5 DEF Monitor, MonitorGivesUp, MonitorProbe, MonitorExited, MonitorNoAnswer,
       MonitorReady, MonitorAnswer, AppExits, TimeOut
  <1>6. CASE \/ FinalizeLoad(d) \/ FinalizeAliases(d) \/ FinalizeRead(d) \/ FinalizeWrite(d)
             \/ FinalizeConclude(d)
    BY <1>2, <1>6, KindNames DEF FinalizeLoad, FinalizeAliases, FinalizeRead, FinalizeWrite,
       FinalizeConclude
  <1>7. CASE FailLoad(d) \/ FailStop(d) \/ FailConclude(d) \/ DeleteContainer(d)
    BY <1>2, <1>7, KindNames DEF FailLoad, FailStop, FailConclude, DeleteContainer
  <1> QED BY <1>3, <1>4, <1>5, <1>6, <1>7 DEF Proceeds

LEMMA ProceedsInv ==
    ASSUME Reliable, PipelineInv, NEW d \in Deployments, Proceeds(d), LDTypeOK'
    PROVE  PipelineInv' /\ \A e \in Deployments : Advance(e)
  <1>1. \A e \in Deployments : StageFits(e)' /\ Advance(e)
    BY ProceedsFits
  <1>2. UNCHANGED <<aborting, sweep, crashes>> /\ task'[Cleanup] = task[Cleanup]
    BY ProceedsApart DEF PipelineInv
  <1>3. sweep.todo \subseteq Deployments /\ sweep.done \subseteq Deployments
    BY DEF PipelineInv, LDTypeOK
  <1>4. SweepFits'
    BY <1>1, <1>2, <1>3 DEF PipelineInv, SweepFits, Advance
  <1> QED BY <1>1, <1>2, <1>4 DEF PipelineInv

LEMMA CleanupApart ==
    /\ \A k \in Kinds : \A d \in Deployments : <<k, d>> # Cleanup /\ <<k, d>> # Rollback
    /\ Cleanup # Rollback /\ Cleanup \in Places /\ Rollback \in Places
BY DEF Cleanup, Rollback, Kinds, Places

LEMMA RollInv ==
    ASSUME PipelineInv, Roll, LDTypeOK'
    PROVE  PipelineInv' /\ \A e \in Deployments : Advance(e)
  <1>1. ASSUME NEW e \in Deployments  PROVE Frame(e)
    <2>1. RowSame(e) /\ SeenSame(e)
      BY DEF Roll, RollbackSwap, RollbackRead, RollbackWrite, RowSame, SeenSame, Answered
    <2>2. JobsSame(e)
      BY KindPlaces, CleanupApart
      DEF PipelineInv, LDTypeOK, Roll, RollbackSwap, RollbackRead, RollbackWrite, JobsSame, At,
          Kinds
    <2> QED BY <2>1, <2>2 DEF Frame
  <1>2. \A e \in Deployments : StageFits(e)' /\ Advance(e)
    BY <1>1, FrameKeeps, FrameAdvances DEF PipelineInv
  <1>3. UNCHANGED <<row, box, aborting, sweep, crashes>> /\ task'[Cleanup] = task[Cleanup]
    BY CleanupApart DEF PipelineInv, LDTypeOK, Roll, RollbackSwap, RollbackRead, RollbackWrite
  <1>4. SweepFits'
    BY <1>3 DEF PipelineInv, SweepFits, Stopped
  <1> QED BY <1>2, <1>3, <1>4 DEF PipelineInv

LEMMA SweepInv ==
    ASSUME PipelineInv, Sweep, LDTypeOK'
    PROVE  PipelineInv' /\ \A e \in Deployments : Advance(e)
  <1>1. LDTypeOK /\ SweepFits /\ \A e \in Deployments : StageFits(e)
    BY DEF PipelineInv
  <1>2. aborting' = aborting /\ crashes' = crashes
    BY DEF Sweep, CleanupActive, CleanupInactive, CleanupRemove, CleanupCommit
  <1>3. ASSUME NEW e \in Deployments  PROVE JobsSame(e)
    <2>1. \A p \in Places : p # Cleanup => task'[p] = task[p]
      BY <1>1 DEF LDTypeOK, Sweep, CleanupActive, CleanupInactive, CleanupRemove, CleanupCommit
    <2>2. queue' = queue \/ queue' = queue \ {Cleanup}
      BY DEF Sweep, CleanupActive, CleanupInactive, CleanupRemove, CleanupCommit
    <2>3. \A k \in Kinds : /\ task'[<<k, e>>] = task[<<k, e>>]
                           /\ (<<k, e>> \in queue') = (<<k, e>> \in queue)
      BY <2>1, <2>2, KindPlaces, CleanupApart
    <2> QED BY <2>3 DEF JobsSame, At, Kinds
  <1>4. CASE CleanupActive \/ CleanupInactive
    <2>1. \A e \in Deployments : RowSame(e) /\ SeenSame(e)
      BY <1>4 DEF CleanupActive, CleanupInactive, RowSame, SeenSame, Answered
    <2>2. \A e \in Deployments : StageFits(e)' /\ Advance(e)
      BY <1>1, <1>3, <2>1, FrameKeeps, FrameAdvances DEF Frame
    <2>3. SweepFits'
      BY <1>1, <1>4, CleanupApart
      DEF LDTypeOK, SweepFits, CleanupActive, CleanupInactive, Stopped
    <2> QED BY <1>2, <2>2, <2>3 DEF PipelineInv
  <1>5. ASSUME NEW d \in Deployments, CleanupRemove(d)
        PROVE  PipelineInv' /\ \A e \in Deployments : Advance(e)
    <2>1. row[d].status = "completed" /\ Completed(d)
      BY <1>1, <1>5 DEF SweepFits, StageFits, CleanupRemove
    <2>2. Stopped(d)' /\ box'[d].id = box[d].id
      BY <1>1, <1>5, <2>1
      DEF CleanupRemove, Found, Stopped, Completed, Recorded, LDTypeOK, Boxes
    <2>3. /\ UNCHANGED <<row, answered, timedOut, queue, task, probe, seen>>
          /\ \A e \in Deployments \ {d} : box'[e] = box[e]
      BY <1>1, <1>5 DEF CleanupRemove, LDTypeOK
    <2>4. Completed(d)'
      BY <2>1, <2>2, <2>3 DEF Completed, Recorded, ProbesInVain, Pending, At, Stopped
    <2>5. StageFits(d)' /\ Advance(d)
      <3>1. StageFits(d)'
        BY <1>1, <2>1, <2>3, <2>4 DEF StageFits, Pending, At
      <3>2. Advance(d)
        BY <2>1, <2>2, <2>3, Ranks DEF Advance, Concluded
      <3> QED BY <3>1, <3>2
    <2>6. \A e \in Deployments \ {d} : StageFits(e)' /\ Advance(e)
      <3>1. \A e \in Deployments \ {d} : RowSame(e) /\ SeenSame(e)
        BY <2>3 DEF RowSame, SeenSame, Answered
      <3> QED BY <1>1, <1>3, <3>1, FrameKeeps, FrameAdvances DEF Frame
    <2>7. SweepFits'
      <3>1. /\ sweep'.todo \subseteq sweep.todo /\ sweep'.done = sweep.done \cup {d}
            /\ sweep.done \subseteq Deployments
        BY <1>1, <1>5 DEF CleanupRemove, LDTypeOK
      <3>2. \A e \in sweep'.done : Stopped(e)'
        BY <1>1, <2>2, <2>3, <3>1 DEF SweepFits, Stopped
      <3> QED BY <1>1, <2>1, <2>3, <3>1, <3>2 DEF SweepFits
    <2> QED BY <1>1, <1>2, <2>5, <2>6, <2>7 DEF PipelineInv
  <1>6. CASE CleanupCommit
    <2>1. /\ UNCHANGED <<box, answered, timedOut, queue, probe, seen>>
          /\ \A e \in Deployments : SeenSame(e)
      BY <1>6 DEF CleanupCommit, SeenSame, Answered
    <2>2. \A e \in Deployments : /\ row'[e].status = row[e].status
                                 /\ row'[e].conclusion = row[e].conclusion
                                 /\ row'[e].container_id = row[e].container_id
      BY <1>1, <1>6 DEF CleanupCommit, LDTypeOK, Rows
    <2>3. ASSUME NEW e \in Deployments, e \in sweep.done
          PROVE  StageFits(e)' /\ Advance(e)
      <3>1. row[e].status = "completed" /\ Completed(e) /\ Stopped(e)
        BY <1>1, <2>3 DEF SweepFits, StageFits
      <3>2. \A k \in Kinds \ {"request"} :
              /\ Pending(k, e)' = Pending(k, e) /\ \A p : At(k, e, p)' = At(k, e, p)
        BY <1>3 DEF JobsSame, Pending, At
      <3>3. {"start", "finalize", "fail", "delete", "cancel"} \subseteq Kinds \ {"request"}
        BY DEF Kinds
      <3>4. Stopped(e)' /\ (ProbesInVain(e) => ProbesInVain(e)')
        BY <2>1, <3>1 DEF Stopped, ProbesInVain
      <3>5. Completed(e)'
        BY <2>1, <2>2, <3>1, <3>2, <3>3, <3>4 DEF Completed, Recorded
      <3>6. StageFits(e)'
        BY <1>1, <1>3, <2>2, <3>1, <3>2, <3>3, <3>5 DEF StageFits, JobsSame
      <3>7. Advance(e)
        BY <2>2, <3>1, <3>4, Ranks DEF Advance, Concluded
      <3> QED BY <3>6, <3>7
    <2>4. ASSUME NEW e \in Deployments, e \notin sweep.done
          PROVE  StageFits(e)' /\ Advance(e)
      <3>1. RowSame(e)
        BY <1>6, <2>4 DEF CleanupCommit, RowSame
      <3> QED BY <1>1, <1>3, <2>1, <3>1, FrameKeeps, FrameAdvances DEF Frame
    <2>5. SweepFits'
      BY <1>1, <1>6, CleanupApart DEF CleanupCommit, SweepFits, LDTypeOK
    <2> QED BY <1>1, <1>2, <2>3, <2>4, <2>5 DEF PipelineInv
  <1> QED BY <1>4, <1>5, <1>6 DEF Sweep

LEMMA PipelineInit == Reliable /\ Init => PipelineInv
  <1> SUFFICES ASSUME Reliable, Init  PROVE PipelineInv
    OBVIOUS
  <1>1. \A e \in Deployments : \A k \in Kinds : At(k, e, "idle") /\ <<k, e>> \notin queue
    BY KindPlaces DEF Init, At, Places
  <1>2. {"start", "finalize", "fail", "delete", "cancel", "request"} \subseteq Kinds
    BY DEF Kinds
  <1>3. \A e \in Deployments : /\ row[e].status = "absent" /\ row[e].conclusion = "none"
                               /\ row[e].container_id = 0 /\ probe[e] = 0
                               /\ box[e].state = "gone" /\ ~Answered(e)
    BY DEF Init, Absent, Answered
  <1>4. \A e \in Deployments : /\ ~At("request", e, "created")
                               /\ ~At("start", e, "created") /\ ~At("start", e, "started")
    BY <1>1, <1>2 DEF At
  <1>5. \A e \in Deployments : StageFits(e)
    BY <1>1, <1>2, <1>3, <1>4 DEF StageFits, Launching, Pending, At
  <1>6. SweepFits
    BY CleanupApart DEF Init, SweepFits, Places
  <1> QED BY <1>5, <1>6, InitTypes DEF PipelineInv, Init

LEMMA StutterFrames ==
    ASSUME UNCHANGED vars, NEW e \in Deployments
    PROVE  Frame(e)
BY DEF vars, Frame, RowSame, SeenSame, JobsSame, Answered, At

LEMMA PipelineStep ==
    ASSUME Reliable, PipelineInv, [Next]_vars
    PROVE  PipelineInv' /\ \A e \in Deployments : Advance(e)
  <1>1. LDTypeOK'
    BY StepTypes DEF PipelineInv
  <1>2. CASE UNCHANGED vars
    <2>1. \A e \in Deployments : StageFits(e)' /\ Advance(e)
      BY <1>2, StutterFrames, FrameKeeps, FrameAdvances DEF PipelineInv
    <2>2. SweepFits' /\ aborting' = {} /\ crashes' = 0
      BY <1>2 DEF vars, PipelineInv, SweepFits, Stopped
    <2> QED BY <1>1, <2>1, <2>2 DEF PipelineInv
  <1>3. CASE Next
    BY <1>1, <1>3, ReliableSteps, ProceedsInv, SweepInv, RollInv
  <1> QED BY <1>2, <1>3

\* When nobody cancels and nothing fails, the status of a deployment only
\* advances and its conclusion stands: fail and finalize never both conclude
\* it, though neither the worker nor the monitor locks the row.
THEOREM ConclusionsStand ==
    ASSUME Reliable
    PROVE  Spec => ConcludedOnce
  <1>1. Spec => []PipelineInv
    BY PipelineInit, PipelineStep, PTL DEF Spec
  <1>2. PipelineInv /\ [Next]_vars => [StatusAdvances]_vars
    BY PipelineStep DEF StatusAdvances, Advance
  <1> QED BY <1>1, <1>2, PTL DEF Spec, ConcludedOnce

\* fail_deployment leaves no container running behind a failed deployment.
THEOREM FailedStaysStopped ==
    ASSUME Reliable
    PROVE  Spec => [](LDTypeOK /\ FailedIsStopped)
  <1>1. Spec => []PipelineInv
    BY PipelineInit, PipelineStep, PTL DEF Spec
  <1>2. PipelineInv => LDTypeOK
    BY DEF PipelineInv
  <1>3. PipelineInv => FailedIsStopped
    <2> SUFFICES ASSUME PipelineInv, NEW d \in Deployments, row[d].conclusion = "failed"
                 PROVE  Stopped(d)
      BY DEF FailedIsStopped, Stopped
    <2>1. row[d].status \in Statuses /\ StageFits(d)
      BY DEF PipelineInv, LDTypeOK, Rows
    <2> QED BY <2>1
        DEF StageFits, Statuses, Launching, Monitored, Finalizing, Failing, Completed
  <1> QED BY <1>1, <1>2, <1>3, PTL

-----------------------------------------------------------------------------
(* Superseded containers are swept.                                        *)

LEMMA Succeeded ==
    ASSUME PipelineInv, NEW d \in Deployments, row[d].conclusion = "succeeded"
    PROVE  row[d].status = "completed" /\ Recorded(d)
  <1>1. row[d].status \in Statuses /\ StageFits(d)
    BY DEF PipelineInv, LDTypeOK, Rows
  <1> QED BY <1>1 DEF StageFits, Statuses, Launching, Monitored, Finalizing, Failing, Completed

\* A step that supersedes nothing and keeps whatever would sweep it.
KeepsSweeps ==
  /\ Active' = Active
  /\ \A d \in Deployments : row'[d].conclusion = "succeeded" => row[d].conclusion = "succeeded"
  /\ Cleanup \in queue => Cleanup \in queue'
  /\ \A e \in Deployments : task[<<"finalize", e>>] \in {"aliased", "read", "written"}
                              => task'[<<"finalize", e>>] \in {"aliased", "read", "written"}
  /\ sweep' = sweep /\ task'[Cleanup] = task[Cleanup]

LEMMA KeepingSweeps ==
    ASSUME PipelineInv, SupersededIsSwept, KeepsSweeps, \A d \in Deployments : Advance(d)
    PROVE  SupersededIsSwept'
  <1> SUFFICES ASSUME NEW d \in Deployments, row'[d].conclusion = "succeeded", ~Stopped(d)',
                      d \notin Active'
               PROVE  WillBeSwept(d)'
    BY DEF SupersededIsSwept
  <1>1. row[d].conclusion = "succeeded" /\ d \notin Active
    BY DEF KeepsSweeps
  <1>2. ~Stopped(d)
    BY <1>1, Succeeded DEF Advance
  <1>3. WillBeSwept(d)
    BY <1>1, <1>2 DEF SupersededIsSwept
  <1> QED BY <1>3 DEF WillBeSwept, KeepsSweeps

\* Every action of a deployment but the two that supersede and conclude.
LEMMA OthersKeep ==
    ASSUME LDTypeOK, NEW d \in Deployments, Proceeds(d), ~FinalizeAliases(d), ~FinalizeConclude(d)
    PROVE  KeepsSweeps
  <1>1. sweep' = sweep /\ task'[Cleanup] = task[Cleanup]
    BY ProceedsApart
  <1>2. Active' = Active
    <2>1. alias' = alias
      BY DEF Proceeds, Monitor, Create, EnqueueStart, SaveJobId, StartLoad, StartCreate, StartBoot,
         StartRecord, StartRaises, MonitorGivesUp, MonitorProbe, MonitorExited,
         MonitorNoAnswer, MonitorReady, MonitorAnswer, AppExits, TimeOut, FinalizeLoad,
         FinalizeRead, FinalizeWrite, FailLoad, FailStop, FailConclude, DeleteContainer
    <2> QED BY <2>1 DEF Active
  <1>3. /\ \A e \in Deployments : row'[e].conclusion = "succeeded" => row[e].conclusion = "succeeded"
        /\ Cleanup \in queue => Cleanup \in queue'
        /\ \A e \in Deployments : task[<<"finalize", e>>] \in {"aliased", "read", "written"}
                                    => task'[<<"finalize", e>>] \in {"aliased", "read", "written"}
    <2>1. CASE Create(d)
      BY <2>1, KindPlaces, CleanupApart DEF LDTypeOK, Kinds, Rows, Create, Goto
    <2>2. CASE EnqueueStart(d)
      BY <2>2, KindPlaces, CleanupApart DEF LDTypeOK, Kinds, Rows, EnqueueStart, Goto, Enqueue
    <2>3. CASE SaveJobId(d)
      BY <2>3, KindPlaces, CleanupApart DEF LDTypeOK, Kinds, Rows, SaveJobId, Goto
    <2>4. CASE StartLoad(d)
      BY <2>4, KindPlaces, CleanupApart DEF LDTypeOK, Kinds, Rows, StartLoad, Goto, Take
    <2>5. CASE StartCreate(d)
      BY <2>5, KindPlaces, CleanupApart DEF LDTypeOK, Kinds, Rows, StartCreate, Goto
    <2>6. CASE StartBoot(d)
      BY <2>6, KindPlaces, CleanupApart DEF LDTypeOK, Kinds, Rows, StartBoot, Goto
    <2>7. CASE StartRecord(d)
      BY <2>7, KindPlaces, CleanupApart DEF LDTypeOK, Kinds, Rows, StartRecord, Goto
    <2>8. CASE StartRaises(d)
      BY <2>8, KindPlaces, CleanupApart DEF LDTypeOK, Kinds, Rows, StartRaises, Goto, Enqueue
    <2>9. CASE Monitor(d)
      <3>1. task' = task /\ queue \subseteq queue'
        BY <2>9 DEF Monitor, MonitorGivesUp, MonitorProbe, MonitorExited, MonitorNoAnswer,
           MonitorReady, Enqueue
      <3>2. \A e \in Deployments : row'[e].conclusion = row[e].conclusion
        BY <2>9 DEF LDTypeOK, Rows, Monitor, MonitorGivesUp, MonitorProbe, MonitorExited,
           MonitorNoAnswer, MonitorReady
      <3> QED BY <3>1, <3>2
    <2>10. CASE MonitorAnswer(d)
      BY <2>10, KindPlaces, CleanupApart DEF LDTypeOK, Kinds, Rows, MonitorAnswer
    <2>11. CASE AppExits(d)
      BY <2>11, KindPlaces, CleanupApart DEF LDTypeOK, Kinds, Rows, AppExits
    <2>12. CASE TimeOut(d)
      BY <2>12, KindPlaces, CleanupApart DEF LDTypeOK, Kinds, Rows, TimeOut
    <2>13. CASE FinalizeLoad(d)
      BY <2>13, KindPlaces, CleanupApart DEF LDTypeOK, Kinds, Rows, FinalizeLoad, Goto, Take, At
    <2>14. CASE FinalizeRead(d)
      BY <2>14, KindPlaces, CleanupApart DEF LDTypeOK, Kinds, Rows, FinalizeRead, Goto, At
    <2>15. CASE FinalizeWrite(d)
      BY <2>15, KindPlaces, CleanupApart DEF LDTypeOK, Kinds, Rows, FinalizeWrite, Goto, At
    <2>16. CASE FailLoad(d)
      BY <2>16, KindPlaces, CleanupApart DEF LDTypeOK, Kinds, Rows, FailLoad, Goto, Take
    <2>17. CASE FailStop(d)
      <3>1. queue \subseteq queue'
        BY <2>17 DEF FailStop, StopSeen, Enqueue
      <3>2. \A e \in Deployments : row'[e].conclusion = row[e].conclusion
        <4>1. \/ row' = row \/ row' = [row EXCEPT ![d].container_status = "stopped"]
              \/ row' = [row EXCEPT ![d].container_status = "removed"]
          BY <2>17 DEF FailStop, StopSeen
        <4> QED BY <4>1 DEF LDTypeOK, Rows
      <3>3. \A e \in Deployments : task'[<<"finalize", e>>] = task[<<"finalize", e>>]
        BY <2>17, KindPlaces DEF LDTypeOK, Kinds, FailStop, Goto
      <3> QED BY <3>1, <3>2, <3>3
    <2>18. CASE FailConclude(d)
      BY <2>18, KindPlaces, CleanupApart DEF LDTypeOK, Kinds, Rows, FailConclude, Goto
    <2>19. CASE DeleteContainer(d)
      BY <2>19, KindPlaces, CleanupApart DEF LDTypeOK, Kinds, Rows, DeleteContainer, Take
    <2> QED BY <2>1, <2>2, <2>3, <2>4, <2>5, <2>6, <2>7, <2>8, <2>9, <2>10, <2>11, <2>12,
           <2>13, <2>14, <2>15, <2>16, <2>17, <2>18, <2>19 DEF Proceeds
  <1> QED BY <1>1, <1>2, <1>3 DEF KeepsSweeps

LEMMA RollKeeps == LDTypeOK /\ Roll => KeepsSweeps
  <1> SUFFICES ASSUME LDTypeOK, Roll  PROVE KeepsSweeps
    OBVIOUS
  <1>1. \A k \in Keys : {alias'[k].cur, alias'[k].prev} = {alias[k].cur, alias[k].prev}
    <2>1. CASE RollbackSwap
      BY <2>1 DEF LDTypeOK, AliasRows, RollbackSwap
    <2>2. CASE RollbackRead \/ RollbackWrite
      BY <2>2 DEF RollbackRead, RollbackWrite
    <2> QED BY <2>1, <2>2 DEF Roll
  <1>2. Active' = Active
    BY <1>1 DEF Active
  <1>3. UNCHANGED <<row, queue, sweep>>
    BY DEF Roll, RollbackSwap, RollbackRead, RollbackWrite
  <1>4. \A p \in Places : p # Rollback => task'[p] = task[p]
    BY DEF LDTypeOK, Roll, RollbackSwap, RollbackRead, RollbackWrite
  <1>5. \A e \in Deployments : <<"finalize", e>> \in Places /\ <<"finalize", e>> # Rollback
    BY KindPlaces, CleanupApart DEF Kinds
  <1> QED BY <1>2, <1>3, <1>4, <1>5, CleanupApart DEF KeepsSweeps

LEMMA SweepSweeps ==
    ASSUME PipelineInv, SupersededIsSwept, Sweep, \A d \in Deployments : Advance(d)
    PROVE  SupersededIsSwept'
  <1> SUFFICES ASSUME NEW d \in Deployments, row'[d].conclusion = "succeeded", ~Stopped(d)',
                      d \notin Active'
               PROVE  WillBeSwept(d)'
    BY DEF SupersededIsSwept
  <1>1. LDTypeOK /\ Active' = Active
    <2>1. alias' = alias
      BY DEF Sweep, CleanupActive, CleanupInactive, CleanupRemove, CleanupCommit
    <2> QED BY <2>1 DEF PipelineInv, Active
  <1>2. row[d].conclusion = "succeeded"
    <2>1. CASE CleanupCommit
      BY <1>1, <2>1 DEF LDTypeOK, Rows, CleanupCommit
    <2>2. CASE row' = row
      BY <2>2
    <2> QED BY <2>1, <2>2 DEF Sweep, CleanupActive, CleanupInactive, CleanupRemove
  <1>3. row[d].status = "completed" /\ Recorded(d) /\ ~Stopped(d)
    BY <1>2, Succeeded DEF Advance
  <1>4. WillBeSwept(d)
    BY <1>1, <1>2, <1>3 DEF SupersededIsSwept
  <1>5. \A e \in Deployments : task'[<<"finalize", e>>] = task[<<"finalize", e>>]
    <2>1. \A p \in Places : p # Cleanup => task'[p] = task[p]
      BY <1>1 DEF LDTypeOK, Sweep, CleanupActive, CleanupInactive, CleanupRemove, CleanupCommit
    <2> QED BY <2>1, KindPlaces, CleanupApart DEF Kinds
  <1>6. CASE CleanupActive
    BY <1>1, <1>6, CleanupApart DEF LDTypeOK, CleanupActive, WillBeSwept
  <1>7. CASE CleanupInactive
    <2>1. queue' = queue /\ task[Cleanup] = "active" /\ task'[Cleanup] = "sweeping"
      BY <1>1, <1>7, CleanupApart DEF LDTypeOK, CleanupInactive
    <2>2. d \notin sweep.active => d \in sweep'.todo
      BY <1>1, <1>3, <1>7 DEF LDTypeOK, CleanupInactive, Recorded
    <2> QED BY <1>4, <1>5, <2>1, <2>2 DEF WillBeSwept
  <1>8. ASSUME NEW e \in Deployments, CleanupRemove(e)
        PROVE  WillBeSwept(d)'
    <2>1. queue' = queue /\ task' = task /\ task[Cleanup] = "sweeping"
      BY <1>8 DEF CleanupRemove
    <2>2. d # e
      BY <1>1, <1>3, <1>8 DEF CleanupRemove, LDTypeOK, Boxes, Stopped, Recorded, Found
    <2>3. sweep'.todo = sweep.todo \ {e}
      BY <1>1, <1>8 DEF CleanupRemove, LDTypeOK
    <2> QED BY <1>4, <2>1, <2>2, <2>3 DEF WillBeSwept
  <1>9. CASE CleanupCommit
    BY <1>4, <1>5, <1>9 DEF CleanupCommit, WillBeSwept
  <1> QED BY <1>6, <1>7, <1>8, <1>9 DEF Sweep

LEMMA SweptStep ==
    ASSUME Reliable, PipelineInv, SupersededIsSwept, [Next]_vars
    PROVE  SupersededIsSwept'
  <1>1. LDTypeOK /\ \A d \in Deployments : Advance(d)
    BY PipelineStep DEF PipelineInv
  <1>2. CASE UNCHANGED vars
    BY <1>2 DEF vars, SupersededIsSwept, Stopped, Active, WillBeSwept
  <1>3. ASSUME NEW d \in Deployments, FinalizeAliases(d)
        PROVE  SupersededIsSwept'
    <2>1. task'[<<"finalize", d>>] = "aliased"
      BY <1>1, <1>3, KindPlaces DEF LDTypeOK, Kinds, FinalizeAliases, Goto
    <2> QED BY <2>1 DEF SupersededIsSwept, WillBeSwept
  <1>4. ASSUME NEW d \in Deployments, FinalizeConclude(d)
        PROVE  SupersededIsSwept'
    BY <1>4 DEF FinalizeConclude, SupersededIsSwept, WillBeSwept
  <1>5. ASSUME NEW d \in Deployments, Proceeds(d)
        PROVE  SupersededIsSwept'
    BY <1>1, <1>3, <1>4, <1>5, OthersKeep, KeepingSweeps
  <1>6. CASE Roll
    BY <1>1, <1>6, RollKeeps, KeepingSweeps
  <1>7. CASE Sweep
    BY <1>1, <1>7, SweepSweeps
  <1> QED BY <1>2, <1>5, <1>6, <1>7, ReliableSteps

\* Superseded containers do not pile up: when no job is left, a container runs
\* only for a deployment that an alias serves or that production can roll back
\* to.  What was superseded is found by a sweep that had not looked yet, or by
\* the one its successor's finalize queues when it concludes.
THEOREM OnlyActiveRuns ==
    ASSUME Reliable
    PROVE  Spec => []OnlyActiveRun
  <1>1. Init => SupersededIsSwept
    BY DEF Init, Absent, SupersededIsSwept
  <1>2. Spec => [](PipelineInv /\ SupersededIsSwept)
    BY <1>1, PipelineInit, PipelineStep, SweptStep, PTL DEF Spec
  <1>3. PipelineInv /\ SupersededIsSwept => OnlyActiveRun
    <2> SUFFICES ASSUME PipelineInv, SupersededIsSwept, Quiet,
                        NEW d \in Deployments, ~Stopped(d), d \notin Active
                 PROVE  FALSE
      BY DEF OnlyActiveRun, Stopped
    <2>1. /\ Settled(d) /\ Cleanup \notin queue /\ task[Cleanup] = "idle"
          /\ \A e \in Deployments : \A k \in Kinds : At(k, e, "idle") /\ <<k, e>> \notin queue
      BY DEF Quiet, Settled
    <2>2. {"start", "finalize", "fail", "request"} \subseteq Kinds
      BY DEF Kinds
    <2>3. ~WillBeSwept(d)
      BY <2>1, <2>2 DEF WillBeSwept, At
    <2>4. row[d].conclusion # "succeeded"
      BY <2>3 DEF SupersededIsSwept
    <2>5. row[d].status \in Statuses /\ StageFits(d)
      BY DEF PipelineInv, LDTypeOK, Rows
    <2>6. row[d].status \notin {"absent", "prepare"}
      BY <2>1, <2>2, <2>5 DEF StageFits, Launching, Pending, At, Stopped
    <2>7. row[d].status # "deploy"
      BY <2>1, <2>5 DEF StageFits, Monitored, Settled, Watched
    <2>8. row[d].status \notin {"finalize", "fail"}
      BY <2>1, <2>2, <2>5 DEF StageFits, Finalizing, Failing, Pending, At
    <2> QED BY <2>4, <2>5, <2>6, <2>7, <2>8 DEF Statuses, StageFits, Completed
  <1> QED BY <1>2, <1>3, PTL

\* NoneRunsInVain: whatever happens, the shapes stay; and when nothing fails, no
\* superseded or failed deployment keeps its container.
THEOREM NoneDoRunInVain == Spec => []NoneRunsInVain
  <1>1. CASE Reliable
    <2>1. LDTypeOK /\ OnlyActiveRun /\ FailedIsStopped => NoneRunsInVain
      BY DEF NoneRunsInVain
    <2> QED BY <1>1, <2>1, FailedStaysStopped, OnlyActiveRuns, PTL
  <1>2. CASE ~Reliable
    <2>1. LDTypeOK => NoneRunsInVain
      BY <1>2 DEF NoneRunsInVain
    <2> QED BY <2>1, TypeCorrect, PTL
  <1> QED BY <1>1, <1>2

-----------------------------------------------------------------------------
(* Storages: what the steps do to the jobs, the rows and the directories.  *)

\* The job j moves on to a step; what it has seen keeps its name.
JobMoves(j, step) ==
    /\ jobs' \in Seq(JobRecords) /\ DOMAIN jobs' = DOMAIN jobs /\ Len(jobs') = Len(jobs)
    /\ \A k \in DOMAIN jobs : k # j => jobs'[k] = jobs[k]
    /\ jobs'[j].id = jobs[j].id /\ jobs'[j].kind = jobs[j].kind /\ jobs'[j].at = step

SeenStays(j) ==
    /\ jobs'[j].seen.name = jobs[j].seen.name /\ jobs'[j].seen.type = jobs[j].seen.type

\* A job is enqueued.
JobComes(kind, i) ==
    /\ jobs' \in Seq(JobRecords) /\ Len(jobs') = Len(jobs) + 1 /\ Len(jobs') <= MaxJobs
    /\ DOMAIN jobs' = DOMAIN jobs \cup {Len(jobs')} /\ Len(jobs') \notin DOMAIN jobs
    /\ \A k \in DOMAIN jobs : jobs'[k] = jobs[k]
    /\ LET j == jobs'[Len(jobs')] IN j.id = i /\ j.kind = kind /\ j.at = "queued"

\* Rows keep their names; the status of one of them may change.
NamesStay ==
    /\ storage' \in [Ids -> StorageRows]
    /\ \A k \in Ids : /\ storage'[k].name = storage[k].name
                      /\ storage'[k].type = storage[k].type
                      /\ Exists(k)' <=> Exists(k)
StatusMoves(i, status) ==
    /\ NamesStay /\ \A k \in Ids : k # i => storage'[k] = storage[k]
    /\ storage'[i].status \in {storage[i].status, status}

LEMMA JobsAreShaped ==
    ASSUME StorageInv, NEW j \in DOMAIN jobs
    PROVE  /\ jobs[j] \in JobRecords /\ jobs[j].id \in Ids /\ JobKnown(j)
           /\ jobs[j].seen \in StorageRows
  <1>1. jobs \in Seq(JobRecords)
    BY DEF StorageInv, RowsShaped
  <1>2. j \in 1..Len(jobs)
    BY <1>1, LenProperties
  <1>3. jobs[j] \in JobRecords
    BY <1>1, <1>2, ElementOfSeq
  <1> QED BY <1>3 DEF StorageInv, JobRecords

LEMMA JobIsMoved ==
    ASSUME StorageInv, NEW j \in DOMAIN jobs, NEW new \in JobRecords,
           new.id = jobs[j].id, new.kind = jobs[j].kind,
           jobs' = [jobs EXCEPT ![j] = new]
    PROVE  JobMoves(j, new.at) /\ jobs'[j] = new
  <1>1. jobs \in Seq(JobRecords)
    BY DEF StorageInv, RowsShaped
  <1>2. /\ Len(jobs) \in Nat /\ DOMAIN jobs = 1..Len(jobs) /\ jobs \in [1..Len(jobs) -> JobRecords]
    BY <1>1, LenProperties
  <1>3. jobs' \in [1..Len(jobs) -> JobRecords]
    BY <1>2
  <1>4. jobs' \in Seq(JobRecords)
    BY <1>2, <1>3, SeqDef
  <1>5. DOMAIN jobs' = DOMAIN jobs /\ Len(jobs') = Len(jobs)
    <2>1. DOMAIN jobs' = 1..Len(jobs')
      BY <1>4, LenProperties
    <2> QED BY <1>2, <1>3, <1>4, <2>1, LenProperties
  <1> QED BY <1>2, <1>4, <1>5 DEF JobMoves

LEMMA JobStep ==
    ASSUME StorageInv, NEW j \in DOMAIN jobs, NEW step \in Steps \cup {"done"}, JobAt(j, step)
    PROVE  JobMoves(j, step) /\ SeenStays(j)
  <1> DEFINE new == [jobs[j] EXCEPT !.at = step]
  <1>1. jobs[j] \in JobRecords
    BY JobsAreShaped
  <1>2. /\ new \in JobRecords /\ new.id = jobs[j].id /\ new.kind = jobs[j].kind
        /\ new.at = step /\ new.seen = jobs[j].seen
    BY <1>1 DEF JobRecords
  <1>3. jobs' = [jobs EXCEPT ![j] = new]
    BY DEF JobAt
  <1> HIDE DEF new
  <1>4. JobMoves(j, step) /\ jobs'[j] = new
    BY <1>2, <1>3, JobIsMoved
  <1> QED BY <1>2, <1>4 DEF SeenStays

LEMMA JobEnqueued ==
    ASSUME StorageInv, NEW kind \in {"provision", "reset", "deprovision"}, NEW i \in Ids,
           StorageAssumption, EnqueueJob(kind, i)
    PROVE  JobComes(kind, i) /\ faults' = faults
  <1> DEFINE new == Job(kind, i)
  <1>1. jobs \in Seq(JobRecords) /\ Len(jobs) < MaxJobs /\ jobs' = Append(jobs, new)
    BY DEF StorageInv, RowsShaped, EnqueueJob
  <1>2. new \in JobRecords /\ new.id = i /\ new.kind = kind /\ new.at = "queued"
    BY DEF Job, JobRecords, NoRow, StorageRows, StorageStatuses, Steps
  <1> HIDE DEF new
  <1>3. /\ Len(jobs) \in Nat /\ DOMAIN jobs = 1..Len(jobs) /\ jobs' \in Seq(JobRecords)
        /\ Len(jobs') = Len(jobs) + 1
        /\ \A k \in 1..Len(jobs) : jobs'[k] = jobs[k]
        /\ jobs'[Len(jobs) + 1] = new
    BY <1>1, <1>2, LenProperties, AppendProperties
  <1>4. DOMAIN jobs' = 1..Len(jobs')
    BY <1>3, LenProperties
  <1>5. MaxJobs \in Nat
    BY DEF StorageAssumption
  <1>6. DOMAIN jobs' = DOMAIN jobs \cup {Len(jobs')} /\ Len(jobs') \notin DOMAIN jobs
    BY <1>3, <1>4
  <1>7. Len(jobs') <= MaxJobs
    BY <1>1, <1>3, <1>5
  <1>8. LET j == jobs'[Len(jobs')] IN j.id = i /\ j.kind = kind /\ j.at = "queued"
    BY <1>2, <1>3
  <1>9. faults' = faults
    BY DEF EnqueueJob
  <1> QED BY <1>3, <1>6, <1>7, <1>8, <1>9 DEF JobComes

LEMMA StatusIsMoved ==
    ASSUME StorageInv, NEW i \in Ids, Exists(i), NEW status \in StorageStatuses \ {"none"},
           \/ storage' = [storage EXCEPT ![i].status = status]
           \/ \E loaded : storage' = Written(i, loaded, status)
    PROVE  StatusMoves(i, status)
  <1>1. storage \in [Ids -> StorageRows]
    BY DEF StorageInv, RowsShaped
  <1>2. \E s \in {storage[i].status, status} :
          storage' = [storage EXCEPT ![i] = [storage[i] EXCEPT !.status = s]]
    BY DEF Written
  <1>3. PICK s \in {storage[i].status, status} :
             storage' = [storage EXCEPT ![i] = [storage[i] EXCEPT !.status = s]]
    BY <1>2
  <1> DEFINE new == [storage[i] EXCEPT !.status = s]
  <1>4. storage[i] \in StorageRows
    BY <1>1
  <1>5. /\ new \in StorageRows /\ new.name = storage[i].name /\ new.type = storage[i].type
        /\ new.status = s /\ s # "none"
    BY <1>4 DEF StorageRows, StorageStatuses, Exists
  <1> HIDE DEF new
  <1>6. storage' = [storage EXCEPT ![i] = new]
    BY <1>3 DEF new
  <1> QED BY <1>1, <1>5, <1>6 DEF StatusMoves, NamesStay, Exists

\* What is not asked for is left alone; what is made is new.
DirsStep ==
    /\ dir' \in [DirKeys -> [gen : Nat, data : Ids \cup {None, "empty"}]] /\ made' \in [DirKeys -> Nat]
    /\ \A k \in DirKeys : /\ made'[k] >= made[k]
                          /\ dir'[k].gen \in {0, dir[k].gen, made[k] + 1}
                          /\ dir'[k].gen <= made'[k]
                          /\ dir'[k].gen = 0 => dir'[k].data = None

LEMMA DirsShaped ==
    ASSUME StorageInv, NEW k \in DirKeys
    PROVE  /\ dir[k] \in [gen : Nat, data : Ids \cup {None, "empty"}] /\ made[k] \in Nat
           /\ dir[k].gen \in Nat /\ dir[k].gen <= made[k]
           /\ dir[k].data \in Ids \cup {None, "empty"}
           /\ dir[k].gen = 0 => dir[k].data = None
  <1>1. /\ dir \in [DirKeys -> [gen : Nat, data : Ids \cup {None, "empty"}]] /\ made \in [DirKeys -> Nat]
    BY DEF StorageInv, RowsShaped
  <1>2. DirsKnown
    BY DEF StorageInv
  <1>3. dir[k].gen <= made[k] /\ (dir[k].gen = 0 => dir[k].data = None)
    BY <1>2 DEF DirsKnown
  <1> QED BY <1>1, <1>3

LEMMA DirMade ==
    ASSUME StorageInv, NEW k \in DirKeys, Fresh(k)
    PROVE  /\ DirsStep /\ dir'[k].gen = made[k] + 1 /\ dir'[k].data = "empty"
           /\ \A h \in DirKeys : h # k => dir'[h] = dir[h]
  <1>1. /\ dir \in [DirKeys -> [gen : Nat, data : Ids \cup {None, "empty"}]] /\ made \in [DirKeys -> Nat]
    BY DEF StorageInv, RowsShaped
  <1>2. /\ dir' = [dir EXCEPT ![k] = [gen |-> made[k] + 1, data |-> "empty"]]
        /\ made' = [made EXCEPT ![k] = made[k] + 1]
    BY DEF Fresh
  <1>3. made' \in [DirKeys -> Nat] /\ dir' \in [DirKeys -> [gen : Nat, data : Ids \cup {None, "empty"}]]
    BY <1>1, <1>2
  <1>4. ASSUME NEW h \in DirKeys
        PROVE  /\ made'[h] >= made[h] /\ dir'[h].gen \in {0, dir[h].gen, made[h] + 1}
               /\ dir'[h].gen <= made'[h] /\ (dir'[h].gen = 0 => dir'[h].data = None)
    <2>1. CASE h = k
      BY <1>1, <1>2, <2>1
    <2>2. CASE h # k
      BY <1>1, <1>2, <2>2, DirsShaped
    <2> QED BY <2>1, <2>2
  <1> QED BY <1>1, <1>2, <1>3, <1>4 DEF DirsStep

LEMMA DirRemoved ==
    ASSUME StorageInv, NEW k \in DirKeys, RemoveDir(k)
    PROVE  /\ DirsStep /\ dir'[k].gen = 0 /\ dir'[k].data = None
           /\ \A h \in DirKeys : h # k => dir'[h] = dir[h]
  <1>1. /\ dir \in [DirKeys -> [gen : Nat, data : Ids \cup {None, "empty"}]] /\ made \in [DirKeys -> Nat]
    BY DEF StorageInv, RowsShaped
  <1>2. /\ dir' = [dir EXCEPT ![k] = [gen |-> 0, data |-> None]] /\ made' = made
    BY DEF RemoveDir, NoDir
  <1>3. dir' \in [DirKeys -> [gen : Nat, data : Ids \cup {None, "empty"}]]
    BY <1>1, <1>2
  <1>4. ASSUME NEW h \in DirKeys
        PROVE  /\ made'[h] >= made[h] /\ dir'[h].gen \in {0, dir[h].gen, made[h] + 1}
               /\ dir'[h].gen <= made'[h] /\ (dir'[h].gen = 0 => dir'[h].data = None)
    <2>1. CASE h = k
      BY <1>1, <1>2, <2>1
    <2>2. CASE h # k
      BY <1>1, <1>2, <2>2, DirsShaped
    <2> QED BY <2>1, <2>2
  <1> QED BY <1>1, <1>2, <1>3, <1>4 DEF DirsStep

\* Something is written, or what was there is emptied.
LEMMA DirWritten ==
    ASSUME StorageInv, NEW k \in DirKeys, NEW what \in Ids \cup {"empty"}, dir[k].gen # 0,
           dir' = [dir EXCEPT ![k].data = what], made' = made
    PROVE  /\ DirsStep /\ dir'[k].gen = dir[k].gen /\ dir'[k].data = what
           /\ \A h \in DirKeys : h # k => dir'[h] = dir[h]
  <1>1. /\ dir \in [DirKeys -> [gen : Nat, data : Ids \cup {None, "empty"}]] /\ made \in [DirKeys -> Nat]
    BY DEF StorageInv, RowsShaped
  <1> DEFINE new == [dir[k] EXCEPT !.data = what]
  <1>2. /\ new \in [gen : Nat, data : Ids \cup {None, "empty"}] /\ new.gen = dir[k].gen /\ new.data = what
    BY <1>1
  <1>3. dir' = [dir EXCEPT ![k] = new]
    OBVIOUS
  <1> HIDE DEF new
  <1>4. dir' \in [DirKeys -> [gen : Nat, data : Ids \cup {None, "empty"}]]
    BY <1>1, <1>2, <1>3
  <1>5. ASSUME NEW h \in DirKeys
        PROVE  /\ made'[h] >= made[h] /\ dir'[h].gen \in {0, dir[h].gen, made[h] + 1}
               /\ dir'[h].gen <= made'[h] /\ (dir'[h].gen = 0 => dir'[h].data = None)
    <2>1. CASE h = k
      BY <1>1, <1>2, <1>3, <2>1, DirsShaped
    <2>2. CASE h # k
      BY <1>1, <1>2, <1>3, <2>2, DirsShaped
    <2> QED BY <2>1, <2>2
  <1> QED BY <1>1, <1>2, <1>3, <1>4, <1>5 DEF DirsStep

LEMMA DirsKept ==
    ASSUME StorageInv, UNCHANGED <<dir, made>>
    PROVE  DirsStep
BY DEF StorageInv, RowsShaped, DirsKnown, DirsStep

\* A container makes what is missing.
LEMMA DirsMade ==
    ASSUME StorageInv, StorageAssumption, NEW ks \in SUBSET DirKeys, MakeMissing(ks)
    PROVE  /\ DirsStep
           /\ \A k \in DirKeys :
                \/ dir'[k] = dir[k]
                \/ k \in ks /\ dir[k].gen = 0 /\ dir'[k].data = "empty" /\ dir'[k].gen = made[k] + 1
           /\ \A k \in ks : dir'[k].gen # 0
  <1>1. /\ dir \in [DirKeys -> [gen : Nat, data : Ids \cup {None, "empty"}]] /\ made \in [DirKeys -> Nat]
    BY DEF StorageInv, RowsShaped
  <1> DEFINE missing == {k \in ks : dir[k].gen = 0}
  <1>2. /\ dir' = [k \in DirKeys |-> IF k \in missing THEN [gen |-> made[k] + 1, data |-> "empty"] ELSE dir[k]]
        /\ made' = [k \in DirKeys |-> IF k \in missing THEN made[k] + 1 ELSE made[k]]
    BY DEF MakeMissing
  <1>3. ASSUME NEW h \in DirKeys
        PROVE  /\ dir'[h] \in [gen : Nat, data : Ids \cup {None, "empty"}] /\ made'[h] \in Nat
               /\ made'[h] >= made[h] /\ dir'[h].gen \in {0, dir[h].gen, made[h] + 1}
               /\ dir'[h].gen <= made'[h] /\ (dir'[h].gen = 0 => dir'[h].data = None)
               /\ \/ dir'[h] = dir[h]
                  \/ h \in ks /\ dir[h].gen = 0 /\ dir'[h].data = "empty" /\ dir'[h].gen = made[h] + 1
               /\ h \in ks => dir'[h].gen # 0
    <2>1. CASE h \in missing
      <3>1. dir'[h] = [gen |-> made[h] + 1, data |-> "empty"] /\ made'[h] = made[h] + 1
        BY <1>2, <2>1
      <3> QED BY <1>1, <2>1, <3>1
    <2>2. CASE h \notin missing
      <3>1. dir'[h] = dir[h] /\ made'[h] = made[h]
        BY <1>2, <2>2
      <3> QED BY <2>2, <3>1, DirsShaped
    <2> QED BY <2>1, <2>2
  <1>4. dir' \in [DirKeys -> [gen : Nat, data : Ids \cup {None, "empty"}]] /\ made' \in [DirKeys -> Nat]
    BY <1>2, <1>3
  <1> QED BY <1>3, <1>4 DEF DirsStep

\* The job j works on the directory k, according to its kind.
WorkedOn(j, k) ==
    /\ k \in DirKeys /\ Named(jobs[j].seen) /\ DirsStep
    /\ \A h \in DirKeys : h # k => dir'[h] = dir[h]
    /\ dir'[k] = dir[k] \/ dir'[k].data \in {"empty", None}
    /\ jobs[j].kind = "provision" /\ dir[k].gen # 0 => dir'[k] = dir[k]
    /\ jobs[j].kind # "deprovision" => dir'[k].gen # 0
    /\ jobs[j].kind = "reset" /\ k[1] = "volume" /\ dir[k].gen # 0 => dir'[k].gen = dir[k].gen
    /\ jobs[j].kind = "deprovision" => dir'[k].gen = 0

LEMMA TouchDoes ==
    ASSUME StorageInv, StorageAssumption, NEW j \in DOMAIN jobs, Touch(j)
    PROVE  WorkedOn(j, KeyOf(jobs[j].seen)) /\ JobMoves(j, "touched") /\ SeenStays(j)
  <1> DEFINE k == KeyOf(jobs[j].seen)
  <1>1. Named(jobs[j].seen)
    BY JobsAreShaped DEF Touch, Ready, JobKnown, Running, Steps
  <1>2. k \in DirKeys
    BY <1>1 DEF Named, KeyOf, DirKeys
  <1>3. Work(j) /\ JobAt(j, "touched")
    BY DEF Touch
  <1>4. JobMoves(j, "touched") /\ SeenStays(j)
    BY <1>3, JobStep DEF Steps
  <1>5. jobs[j].kind \in {"provision", "reset", "deprovision"}
    BY JobsAreShaped DEF JobRecords
  <1>6. dir[k].gen \in Nat /\ made[k] \in Nat
    BY <1>2, DirsShaped
  <1>7. CASE jobs[j].kind = "provision"
    <2>1. Ensure(k)
      BY <1>3, <1>7 DEF Work
    <2> HIDE DEF k
    <2>2. CASE dir[k].gen = 0
      <3>1. Fresh(k)
        BY <2>1, <2>2 DEF Ensure
      <3>2. /\ DirsStep /\ dir'[k].gen = made[k] + 1 /\ dir'[k].data = "empty"
            /\ \A h \in DirKeys : h # k => dir'[h] = dir[h]
        BY <1>2, <3>1, DirMade
      <3>3. WorkedOn(j, k)
        BY <1>1, <1>2, <1>6, <1>7, <2>2, <3>2 DEF WorkedOn
      <3> QED BY <1>4, <3>3 DEF k
    <2>3. CASE dir[k].gen # 0
      <3>1. UNCHANGED <<dir, made>>
        BY <2>1, <2>3 DEF Ensure, Keep
      <3>2. WorkedOn(j, k)
        BY <1>1, <1>2, <1>7, <2>3, <3>1, DirsKept DEF WorkedOn
      <3> QED BY <1>4, <3>2 DEF k
    <2> QED BY <2>2, <2>3
  <1>8. CASE jobs[j].kind = "reset"
    <2>1. ResetDir(k)
      BY <1>3, <1>8 DEF Work
    <2> HIDE DEF k
    <2>2. CASE k[1] = "database" \/ dir[k].gen = 0
      <3>1. Fresh(k)
        BY <2>1, <2>2 DEF ResetDir
      <3>2. /\ DirsStep /\ dir'[k].gen = made[k] + 1 /\ dir'[k].data = "empty"
            /\ \A h \in DirKeys : h # k => dir'[h] = dir[h]
        BY <1>2, <3>1, DirMade
      <3>3. WorkedOn(j, k)
        BY <1>1, <1>2, <1>6, <1>8, <2>2, <3>2 DEF WorkedOn
      <3> QED BY <1>4, <3>3 DEF k
    <2>3. CASE ~(k[1] = "database" \/ dir[k].gen = 0)
      <3>1. dir' = [dir EXCEPT ![k].data = "empty"] /\ made' = made
        BY <2>1, <2>3 DEF ResetDir
      <3>2. /\ DirsStep /\ dir'[k].gen = dir[k].gen /\ dir'[k].data = "empty"
            /\ \A h \in DirKeys : h # k => dir'[h] = dir[h]
        BY <1>2, <2>3, <3>1, DirWritten
      <3>3. WorkedOn(j, k)
        BY <1>1, <1>2, <1>8, <2>3, <3>2 DEF WorkedOn
      <3> QED BY <1>4, <3>3 DEF k
    <2> QED BY <2>2, <2>3
  <1>9. CASE jobs[j].kind = "deprovision"
    <2>1. RemoveDir(k)
      BY <1>3, <1>9 DEF Work
    <2> HIDE DEF k
    <2>2. WorkedOn(j, k)
      BY <1>1, <1>2, <1>9, <2>1, DirRemoved DEF WorkedOn
    <2> QED BY <1>4, <2>2 DEF k
  <1> QED BY <1>5, <1>7, <1>8, <1>9

-----------------------------------------------------------------------------
(* Storages: rows, directories and jobs fit together.                      *)

\* A row that was there keeps its name while it is there.
KeysStay ==
    \A k \in used : Exists(k)' => /\ Exists(k) /\ storage'[k].name = storage[k].name
                                  /\ storage'[k].type = storage[k].type

LEMMA KeysAreKept ==
    ASSUME StorageInv, NamesStay, used' = used
    PROVE  NamesKnown' /\ KeysStay /\ (links' = links => LinksKnown')
  <1>1. NamesKnown /\ LinksKnown /\ used \subseteq Ids
    BY DEF StorageInv, RowsShaped
  <1>2. NamesKnown'
    <2>1. ASSUME NEW i \in Ids, Exists(i)' 
          PROVE  /\ Named(storage'[i]) /\ i \in used'
                 /\ \A k \in Ids : Exists(k)' /\ storage'[k].name = storage'[i].name => k = i
      <3>1. Exists(i) /\ Named(storage[i]) /\ i \in used
        BY <1>1, <2>1 DEF NamesStay, NamesKnown
      <3>2. Named(storage'[i]) /\ i \in used'
        BY <3>1 DEF NamesStay, Named
      <3>3. ASSUME NEW k \in Ids, Exists(k)', storage'[k].name = storage'[i].name PROVE k = i
        <4>1. Exists(k) /\ storage[k].name = storage[i].name
          BY <3>3 DEF NamesStay
        <4> QED BY <1>1, <3>1, <4>1 DEF NamesKnown
      <3> QED BY <3>2, <3>3
    <2> QED BY <2>1 DEF NamesKnown, Exists
  <1>3. KeysStay
    <2> SUFFICES ASSUME NEW k \in used, Exists(k)'
                 PROVE  /\ Exists(k) /\ storage'[k].name = storage[k].name
                        /\ storage'[k].type = storage[k].type
      BY DEF KeysStay
    <2> QED BY <1>1 DEF NamesStay
  <1>4. links' = links => LinksKnown'
    BY <1>1 DEF NamesStay, LinksKnown
  <1> QED BY <1>2, <1>3, <1>4

LEMMA KnownStays ==
    ASSUME StorageInv, KeysStay, used \subseteq used', asked \subseteq asked',
           NEW k \in DOMAIN jobs, NEW h \in DOMAIN jobs',
           jobs'[h].id = jobs[k].id, jobs'[h].kind = jobs[k].kind,
           Running(h)' => /\ Running(k) /\ jobs'[h].seen.name = jobs[k].seen.name
                          /\ jobs'[h].seen.type = jobs[k].seen.type
    PROVE  JobKnown(h)'
  <1>1. JobKnown(k)
    BY DEF StorageInv
  <1> QED BY <1>1 DEF JobKnown, KeysStay, Named, KeyOf

LEMMA QueueStays ==
    ASSUME StorageInv, KeysStay, used \subseteq used', asked \subseteq asked', jobs' = jobs
    PROVE  \A j \in DOMAIN jobs' : JobKnown(j)'
  <1> SUFFICES ASSUME NEW j \in DOMAIN jobs PROVE JobKnown(j)'
    OBVIOUS
  <1>1. Running(j)' => Running(j)
    BY DEF Running
  <1> QED BY <1>1, KnownStays

LEMMA QueueMoves ==
    ASSUME StorageInv, KeysStay, used \subseteq used', asked \subseteq asked',
           NEW j \in DOMAIN jobs, NEW step, JobMoves(j, step), SeenStays(j),
           step \in {"done", "queued"} \/ Running(j)
    PROVE  \A h \in DOMAIN jobs' : JobKnown(h)'
  <1> SUFFICES ASSUME NEW h \in DOMAIN jobs PROVE JobKnown(h)'
    BY DEF JobMoves
  <1>1. h \in DOMAIN jobs'
    BY DEF JobMoves
  <1>2. CASE h # j
    <2>1. jobs'[h] = jobs[h]
      BY <1>2 DEF JobMoves
    <2> QED BY <1>1, <2>1, KnownStays DEF Running
  <1>3. CASE h = j
    <2>1. jobs'[j].id = jobs[j].id /\ jobs'[j].kind = jobs[j].kind /\ jobs'[j].at = step
      BY DEF JobMoves
    <2>2. Running(j)' => Running(j)
      BY <2>1 DEF Running, Steps
    <2> QED BY <1>1, <1>3, <2>1, <2>2, KnownStays DEF SeenStays
  <1> QED BY <1>2, <1>3

LEMMA QueueGrows ==
    ASSUME StorageInv, KeysStay, used \subseteq used', asked \subseteq asked',
           NEW kind, NEW i \in used', JobComes(kind, i),
           kind # "provision" => i \in asked', kind = "deprovision" => "delete" \in Forms
    PROVE  \A h \in DOMAIN jobs' : JobKnown(h)'
  <1> SUFFICES ASSUME NEW h \in DOMAIN jobs' PROVE JobKnown(h)'
    OBVIOUS
  <1>1. CASE h \in DOMAIN jobs
    <2>1. jobs'[h] = jobs[h]
      BY <1>1 DEF JobComes
    <2> QED BY <1>1, <2>1, KnownStays DEF Running
  <1>2. CASE h \notin DOMAIN jobs
    <2>1. jobs'[h].id = i /\ jobs'[h].kind = kind /\ jobs'[h].at = "queued"
      BY <1>2 DEF JobComes
    <2> QED BY <2>1 DEF JobKnown, Running, Steps
  <1> QED BY <1>1, <1>2

LEMMA MountsStay ==
    ASSUME StorageInv, DirsStep, mounts' = mounts, used \subseteq used'
    PROVE  DirsKnown' /\ dir' \in [DirKeys -> [gen : Nat, data : Ids \cup {None, "empty"}]]
           /\ made' \in [DirKeys -> Nat]
  <1>1. /\ made \in [DirKeys -> Nat] /\ mounts \in [Projects -> SUBSET MountRecords]
        /\ \A p \in Projects : \A m \in mounts[p] : m.gen <= made[m.key] /\ m.id \in used
    BY DEF StorageInv, RowsShaped, DirsKnown
  <1>2. ASSUME NEW p \in Projects, NEW m \in mounts[p]
        PROVE  m.gen <= made'[m.key] /\ m.id \in used'
    <2>1. m.key \in DirKeys /\ m.gen \in Nat /\ m.gen <= made[m.key] /\ m.id \in used
      BY <1>1 DEF MountRecords
    <2>2. made' \in [DirKeys -> Nat] /\ \A k \in DirKeys : made'[k] >= made[k]
      BY DEF DirsStep
    <2> DEFINE h == m.key
    <2>3. h \in DirKeys /\ m.gen <= made[h]
      BY <2>1
    <2> HIDE DEF h
    <2>4. made'[h] >= made[h] /\ made'[h] \in Nat /\ made[h] \in Nat
      BY <1>1, <2>2, <2>3
    <2>5. m.gen <= made'[h]
      BY <2>1, <2>3, <2>4
    <2> QED BY <2>1, <2>5 DEF h
  <1>3. \A k \in DirKeys : dir'[k].gen <= made'[k] /\ (dir'[k].gen = 0 => dir'[k].data = None)
    BY DEF DirsStep
  <1>4. \A p \in Projects : \A m \in mounts'[p] : m.gen <= made'[m.key] /\ m.id \in used'
    BY <1>2
  <1>5. DirsKnown'
    BY <1>3, <1>4 DEF DirsKnown
  <1> QED BY <1>5 DEF DirsStep

\* What remains to be shown of a step that leaves the mounts alone.
LEMMA InvOfParts ==
    ASSUME StorageInv, StorageAssumption, DirsStep, mounts' = mounts,
           storage' \in [Ids -> StorageRows], used' \subseteq Ids, used \subseteq used',
           links' \in [Projects -> [Ids -> (SUBSET Environments) \cup {NoLink}]],
           \/ page' = page \/ \E r \in Requests : Leave(r)
           \/ \E r \in Requests, i \in Ids :
                page' = [page EXCEPT ![r] = [id |-> i, status |-> storage[i].status]],
           faults' = faults \/ (faults < MaxFaults /\ faults' = faults + 1),
           jobs' \in Seq(JobRecords), Len(jobs') <= MaxJobs,
           \A j \in DOMAIN jobs' : JobKnown(j)',
           NamesKnown', LinksKnown', deleted' \subseteq asked', asked' \subseteq used'
    PROVE  StorageInv'
  <1>1. DirsKnown' /\ dir' \in [DirKeys -> [gen : Nat, data : Ids \cup {None, "empty"}]]
        /\ made' \in [DirKeys -> Nat]
    BY MountsStay
  <1>2. page' \in [Requests -> [id : Ids \cup {None}, status : StorageStatuses]]
    <2>1. page \in [Requests -> [id : Ids \cup {None}, status : StorageStatuses]]
      BY DEF StorageInv, RowsShaped
    <2>2. NoPage \in [id : Ids \cup {None}, status : StorageStatuses]
      BY DEF NoPage, StorageStatuses
    <2>3. \A i \in Ids : storage[i].status \in StorageStatuses
      BY DEF StorageInv, RowsShaped, StorageRows
    <2> QED BY <2>1, <2>2, <2>3 DEF Leave
  <1>3. faults' \in Nat /\ faults' <= MaxFaults
    BY DEF StorageInv, RowsShaped, StorageAssumption
  <1>4. mounts' \in [Projects -> SUBSET MountRecords]
    BY DEF StorageInv, RowsShaped
  <1> QED BY <1>1, <1>2, <1>3, <1>4 DEF StorageInv, RowsShaped

\* A storage is created: its name is new, its id was never given out.
InsertDoes(i, n, t) ==
    /\ i \notin used /\ ~Exists(i) /\ used' = used \cup {i}
    /\ storage' \in [Ids -> StorageRows]
    /\ storage'[i].name = n /\ storage'[i].type = t /\ storage'[i].status = "pending"
    /\ \A k \in Ids : k # i => storage'[k] = storage[k]
    /\ KeysStay /\ NamesKnown' /\ UNCHANGED <<dir, made, mounts, page, asked, deleted>>
    /\ \/ JobComes("provision", i) /\ faults' = faults
       \/ jobs' = jobs /\ Fault("refused")

LEMMA InsertIs ==
    ASSUME StorageInv, StorageAssumption, NEW i \in Ids, NEW n \in Names, NEW t \in Types,
           Insert(i, n, t)
    PROVE  InsertDoes(i, n, t)
  <1>1. /\ storage \in [Ids -> StorageRows] /\ used \subseteq Ids /\ NamesKnown
    BY DEF StorageInv, RowsShaped
  <1>2. i \notin used /\ ~NameTaken(n) /\ used' = used \cup {i}
    BY DEF Insert
  <1>3. ~Exists(i) /\ \A k \in Ids : storage[k].name # n
    BY <1>1, <1>2 DEF NamesKnown, NameTaken
  <1> DEFINE new == [name |-> n, type |-> t, status |-> "pending"]
  <1>4. new \in StorageRows /\ new.name = n /\ new.type = t /\ new.status = "pending"
    BY DEF StorageRows, StorageStatuses
  <1>5. storage' = [storage EXCEPT ![i] = new]
    BY DEF Insert
  <1> HIDE DEF new
  <1>6. /\ storage' \in [Ids -> StorageRows] /\ storage'[i] = new
        /\ \A k \in Ids : k # i => storage'[k] = storage[k]
    BY <1>1, <1>4, <1>5
  <1>7. KeysStay
    BY <1>1, <1>2, <1>6 DEF KeysStay, Exists
  <1>8. NamesKnown'
    <2> SUFFICES ASSUME NEW k \in Ids, Exists(k)'
                 PROVE  /\ Named(storage'[k]) /\ k \in used'
                        /\ \A h \in Ids : Exists(h)' /\ storage'[h].name = storage'[k].name => h = k
      BY DEF NamesKnown, Exists
    <2>1. CASE k = i
      BY <1>2, <1>3, <1>4, <1>6, <2>1 DEF Named
    <2>2. CASE k # i
      <3>1. storage'[k] = storage[k] /\ Exists(k)
        BY <1>6, <2>2 DEF Exists
      <3>2. Named(storage[k]) /\ k \in used'
        BY <1>1, <1>2, <3>1 DEF NamesKnown
      <3>3. ASSUME NEW h \in Ids, Exists(h)', storage'[h].name = storage'[k].name PROVE h = k
        BY <1>1, <1>3, <1>4, <1>6, <3>1, <3>3 DEF NamesKnown, Exists
      <3> QED BY <3>1, <3>2, <3>3
    <2> QED BY <2>1, <2>2
  <1>9. \/ JobComes("provision", i) /\ faults' = faults
        \/ jobs' = jobs /\ Fault("refused")
    <2>1. CASE EnqueueJob("provision", i)
      BY <2>1, JobEnqueued
    <2>2. CASE NotQueued
      BY <2>2 DEF NotQueued
    <2> QED BY <2>1, <2>2 DEF Insert
  <1>10. UNCHANGED <<dir, made, mounts, page, asked, deleted>>
    BY DEF Insert
  <1> QED BY <1>2, <1>3, <1>4, <1>6, <1>7, <1>8, <1>9, <1>10 DEF InsertDoes

LEMMA InsertKeeps ==
    ASSUME StorageInv, StorageAssumption, NEW i \in Ids, NEW n, NEW t, InsertDoes(i, n, t),
           links' \in [Projects -> [Ids -> (SUBSET Environments) \cup {NoLink}]],
           \A p \in Projects, k \in Ids : k # i => links'[p][k] = links[p][k]
    PROVE  StorageInv'
  <1>1. /\ used' = used \cup {i} /\ used \subseteq Ids /\ KeysStay /\ NamesKnown'
        /\ storage' \in [Ids -> StorageRows]
        /\ UNCHANGED <<dir, made, mounts, page, asked, deleted>>
    BY DEF InsertDoes, StorageInv, RowsShaped
  <1>2. DirsStep
    BY <1>1, DirsKept
  <1>3. LinksKnown'
    BY DEF StorageInv, LinksKnown, InsertDoes, Exists
  <1>4. /\ jobs' \in Seq(JobRecords) /\ Len(jobs') <= MaxJobs
        /\ \A j \in DOMAIN jobs' : JobKnown(j)'
    <2>1. CASE JobComes("provision", i)
      BY <1>1, <2>1, QueueGrows DEF JobComes
    <2>2. CASE jobs' = jobs
      BY <1>1, <2>2, QueueStays DEF StorageInv, RowsShaped
    <2> QED BY <2>1, <2>2 DEF InsertDoes
  <1>5. faults' = faults \/ (faults < MaxFaults /\ faults' = faults + 1)
    BY DEF InsertDoes, Fault
  <1>6. deleted' \subseteq asked' /\ asked' \subseteq used'
    BY <1>1 DEF StorageInv
  <1> QED BY <1>1, <1>2, <1>3, <1>4, <1>5, <1>6, InvOfParts

LEMMA CreateKeeps ==
    ASSUME StorageInv, StorageAssumption, NEW i \in Ids, NEW n \in Names, NEW t \in Types,
           \/ TeamCreates(i, n, t)
           \/ \E p \in Projects, es \in SUBSET Environments : ProjectCreates(p, i, n, t, es)
    PROVE  StorageInv' /\ InsertDoes(i, n, t)
  <1>1. links \in [Projects -> [Ids -> (SUBSET Environments) \cup {NoLink}]]
    BY DEF StorageInv, RowsShaped
  <1>2. CASE TeamCreates(i, n, t)
    <2>1. Insert(i, n, t) /\ links' = links
      BY <1>2 DEF TeamCreates
    <2> QED BY <1>1, <2>1, InsertIs, InsertKeeps
  <1>3. ASSUME NEW p \in Projects, NEW es \in SUBSET Environments, ProjectCreates(p, i, n, t, es)
        PROVE  StorageInv' /\ InsertDoes(i, n, t)
    <2>1. Insert(i, n, t) /\ links' = [links EXCEPT ![p][i] = es]
      BY <1>3 DEF ProjectCreates
    <2>2. InsertDoes(i, n, t)
      BY <2>1, InsertIs
    <2>3. /\ links' \in [Projects -> [Ids -> (SUBSET Environments) \cup {NoLink}]]
          /\ \A q \in Projects, k \in Ids : k # i => links'[q][k] = links[q][k]
      BY <1>1, <2>1
    <2> QED BY <2>2, <2>3, InsertKeeps
  <1> QED BY <1>2, <1>3

\* What a form that asks for work on a storage does to it.
Asks(r, kind) ==
    LET i == page[r].id IN
    /\ i \in Ids /\ Exists(i) /\ Waited(i) /\ i \in asked' /\ Leave(r)
    /\ asked \subseteq asked' /\ UNCHANGED <<used, links, dir, made, mounts>>
    /\ kind \in {"reset", "deprovision"} /\ (kind = "deprovision" => "delete" \in Forms)
    /\ \/ JobComes(kind, i) /\ faults' = faults
       \/ jobs' = jobs /\ Fault("refused")
    /\ IF kind = "deprovision" THEN StatusMoves(i, "deleted") /\ storage'[i].status = "deleted"
       ELSE StatusMoves(i, "resetting") \/ (StatusMoves(i, "active") /\ Fault("refused"))

LEMMA PageKnown ==
    ASSUME StorageInv, NEW r \in Requests, page[r].id # None
    PROVE  page[r].id \in Ids
BY DEF StorageInv, RowsShaped

LEMMA AsksKeeps ==
    ASSUME StorageInv, StorageAssumption, NEW r \in Requests, NEW kind, Asks(r, kind),
           asked' = asked \cup {page[r].id}, deleted' \subseteq asked'
    PROVE  StorageInv'
  <1> DEFINE i == page[r].id
  <1>1. /\ i \in Ids /\ Exists(i) /\ Leave(r) /\ UNCHANGED <<used, links, dir, made, mounts>>
        /\ i \in asked' /\ asked \subseteq asked'
    BY DEF Asks
  <1>2. NamesStay
    BY DEF Asks, StatusMoves
  <1>3. NamesKnown' /\ KeysStay /\ LinksKnown'
    BY <1>1, <1>2, KeysAreKept
  <1>4. i \in used /\ asked \subseteq used
    BY <1>1 DEF StorageInv, NamesKnown
  <1>5. /\ jobs' \in Seq(JobRecords) /\ Len(jobs') <= MaxJobs
        /\ \A j \in DOMAIN jobs' : JobKnown(j)'
    <2>1. CASE JobComes(kind, i)
      <3>1. kind = "deprovision" => "delete" \in Forms
        BY DEF Asks
      <3> QED BY <1>1, <1>3, <1>4, <2>1, <3>1, QueueGrows DEF JobComes
    <2>2. CASE jobs' = jobs
      BY <1>1, <1>3, <2>2, QueueStays DEF StorageInv, RowsShaped
    <2> QED BY <2>1, <2>2 DEF Asks
  <1>6. faults' = faults \/ (faults < MaxFaults /\ faults' = faults + 1)
    BY DEF Asks, Fault
  <1>7. /\ storage' \in [Ids -> StorageRows] /\ used \subseteq Ids
        /\ links \in [Projects -> [Ids -> (SUBSET Environments) \cup {NoLink}]]
    BY <1>2 DEF NamesStay, StorageInv, RowsShaped
  <1>8. DirsStep
    BY <1>1, DirsKept
  <1>9. asked' \subseteq used'
    BY <1>1, <1>4
  <1> QED BY <1>1, <1>3, <1>5, <1>6, <1>7, <1>8, <1>9, InvOfParts

LEMMA ResetIs ==
    ASSUME StorageInv, StorageAssumption, NEW r \in Requests, Reset(r)
    PROVE  StorageInv' /\ Asks(r, "reset")
  <1> DEFINE i == page[r].id
  <1>1. /\ i \in Ids /\ Exists(i) /\ Waited(i) /\ Leave(r) /\ asked' = asked \cup {i}
        /\ UNCHANGED <<used, links, dir, made, mounts, deleted>>
    BY PageKnown DEF Reset
  <1>0. {"resetting", "active"} \subseteq StorageStatuses \ {"none"}
    BY DEF StorageStatuses
  <1>4. deleted' \subseteq asked'
    BY <1>1 DEF StorageInv
  <1> HIDE DEF i
  <1>2. CASE EnqueueJob("reset", i) /\ storage' = Written(i, page[r].status, "resetting")
    <2>1. JobComes("reset", i) /\ faults' = faults
      BY <1>1, <1>2, JobEnqueued
    <2>2. StatusMoves(i, "resetting")
      <3>1. \E loaded : storage' = Written(i, loaded, "resetting")
        BY <1>2
      <3> QED BY <1>0, <1>1, <3>1, StatusIsMoved
    <2>3. Asks(r, "reset")
      BY <1>1, <2>1, <2>2 DEF Asks, i
    <2> QED BY <1>1, <1>4, <2>3, AsksKeeps DEF i
  <1>3. CASE NotQueued /\ storage' = [storage EXCEPT ![i].status = "active"]
    <2>1. StatusMoves(i, "active")
      BY <1>0, <1>1, <1>3, StatusIsMoved
    <2>2. Fault("refused") /\ jobs' = jobs
      BY <1>3 DEF NotQueued
    <2>3. Asks(r, "reset")
      BY <1>1, <2>1, <2>2 DEF Asks, i
    <2> QED BY <1>1, <1>4, <2>3, AsksKeeps DEF i
  <1> QED BY <1>2, <1>3 DEF Reset, i

LEMMA DeleteIs ==
    ASSUME StorageInv, StorageAssumption, NEW r \in Requests, Delete(r)
    PROVE  StorageInv' /\ Asks(r, "deprovision")
  <1> DEFINE i == page[r].id
  <1>1. /\ i \in Ids /\ Exists(i) /\ Waited(i) /\ Leave(r) /\ "delete" \in Forms
        /\ asked' = asked \cup {i} /\ deleted' = deleted \cup {i}
        /\ storage' = [storage EXCEPT ![i].status = "deleted"]
        /\ UNCHANGED <<used, links, dir, made, mounts>>
    BY PageKnown DEF Delete
  <1>0. "deleted" \in StorageStatuses \ {"none"}
    BY DEF StorageStatuses
  <1> HIDE DEF i
  <1>2. StatusMoves(i, "deleted")
    BY <1>0, <1>1, StatusIsMoved
  <1>3. storage'[i].status = "deleted"
    <2>1. storage \in [Ids -> StorageRows] /\ storage[i] \in StorageRows
      BY <1>1 DEF StorageInv, RowsShaped
    <2>2. [storage[i] EXCEPT !.status = "deleted"].status = "deleted"
      BY <2>1 DEF StorageRows
    <2> QED BY <1>1, <2>1, <2>2
  <1>4. \/ JobComes("deprovision", i) /\ faults' = faults
        \/ jobs' = jobs /\ Fault("refused")
    <2>1. CASE EnqueueJob("deprovision", i)
      BY <1>1, <2>1, JobEnqueued
    <2>2. CASE NotQueued
      BY <2>2 DEF NotQueued
    <2> QED BY <2>1, <2>2 DEF Delete, i
  <1>5. deleted' \subseteq asked'
    BY <1>1 DEF StorageInv
  <1>6. Asks(r, "deprovision")
    BY <1>1, <1>2, <1>3, <1>4 DEF Asks, i
  <1> QED BY <1>1, <1>5, <1>6, AsksKeeps DEF i

\* A request that only opens, leaves or links a storage.
QuietStep(r) ==
    \/ Stale(r) \/ \E i \in Ids : Open(r, i)
    \/ \E p \in Projects : \/ Disconnect(r, p)
                           \/ \E es \in SUBSET Environments : Connect(r, p, es) \/ EditLink(r, p, es)

LEMMA LinkKeeps ==
    ASSUME StorageInv, StorageAssumption, NEW r \in Requests, NEW p \in Projects, NEW i \in Ids,
           NEW es \in (SUBSET Environments) \cup {NoLink}, Exists(i) \/ es = NoLink,
           Leave(r), links' = [links EXCEPT ![p][i] = es],
           UNCHANGED <<storage, used, dir, made, mounts, jobs, asked, deleted, faults>>
    PROVE  StorageInv'
  <1>1. links \in [Projects -> [Ids -> (SUBSET Environments) \cup {NoLink}]]
    BY DEF StorageInv, RowsShaped
  <1>2. /\ links' \in [Projects -> [Ids -> (SUBSET Environments) \cup {NoLink}]]
        /\ \A q \in Projects, k \in Ids :
             links'[q][k] = IF q = p /\ k = i THEN es ELSE links[q][k]
    BY <1>1
  <1>3. LinksKnown'
    BY <1>2 DEF StorageInv, LinksKnown, Exists
  <1>4. NamesStay
    BY DEF NamesStay, StorageInv, RowsShaped, Exists
  <1>5. NamesKnown' /\ KeysStay
    BY <1>4, KeysAreKept
  <1>6. /\ jobs \in Seq(JobRecords) /\ Len(jobs) <= MaxJobs /\ \A j \in DOMAIN jobs' : JobKnown(j)'
        /\ storage \in [Ids -> StorageRows] /\ used \subseteq Ids
        /\ deleted \subseteq asked /\ asked \subseteq used
    BY <1>5, QueueStays DEF StorageInv, RowsShaped
  <1> QED BY <1>2, <1>3, <1>5, <1>6, DirsKept, InvOfParts

LEMMA QuietKeeps ==
    ASSUME StorageInv, StorageAssumption, NEW r \in Requests, QuietStep(r)
    PROVE  StorageInv' /\ UNCHANGED <<storage, used, dir, made, mounts, jobs, asked, deleted, faults>>
  <1> DEFINE i == page[r].id
  <1>1. NoLink \in (SUBSET Environments) \cup {NoLink}
    OBVIOUS
  <1>2. \A p \in Projects, k \in Ids : links[p][k] # NoLink => Exists(k)
    BY DEF StorageInv, LinksKnown
  <1>3. ASSUME NEW p \in Projects, Disconnect(r, p)
        PROVE  StorageInv' /\ UNCHANGED <<storage, used, dir, made, mounts, jobs, asked, deleted, faults>>
    <2>1. /\ i \in Ids /\ Leave(r) /\ links' = [links EXCEPT ![p][i] = NoLink]
          /\ UNCHANGED <<storage, used, dir, made, mounts, jobs, asked, deleted, faults>>
      BY <1>3, PageKnown DEF Disconnect
    <2> HIDE DEF i
    <2> QED BY <1>1, <2>1, LinkKeeps
  <1>4. ASSUME NEW p \in Projects, NEW es \in SUBSET Environments, Connect(r, p, es) \/ EditLink(r, p, es)
        PROVE  StorageInv' /\ UNCHANGED <<storage, used, dir, made, mounts, jobs, asked, deleted, faults>>
    <2>1. /\ i \in Ids /\ Leave(r) /\ Exists(i) /\ links' = [links EXCEPT ![p][i] = es]
          /\ UNCHANGED <<storage, used, dir, made, mounts, jobs, asked, deleted, faults>>
      BY <1>2, <1>4, PageKnown DEF Connect, EditLink
    <2> HIDE DEF i
    <2> QED BY <2>1, LinkKeeps
  <1>5. CASE Stale(r) \/ \E k \in Ids : Open(r, k)
    <2>1. UNCHANGED <<storage, used, links, dir, made, mounts, jobs, asked, deleted, faults>>
      BY <1>5 DEF Stale, Open
    <2>2. \/ Leave(r)
          \/ \E k \in Ids : page' = [page EXCEPT ![r] = [id |-> k, status |-> storage[k].status]]
      BY <1>5 DEF Stale, Open
    <2>3. NamesStay
      BY <2>1 DEF NamesStay, StorageInv, RowsShaped, Exists
    <2>4. NamesKnown' /\ KeysStay /\ LinksKnown'
      BY <2>1, <2>3, KeysAreKept
    <2>5. /\ jobs \in Seq(JobRecords) /\ Len(jobs) <= MaxJobs /\ \A j \in DOMAIN jobs' : JobKnown(j)'
          /\ storage \in [Ids -> StorageRows] /\ used \subseteq Ids
          /\ links \in [Projects -> [Ids -> (SUBSET Environments) \cup {NoLink}]]
          /\ deleted \subseteq asked /\ asked \subseteq used
      BY <2>1, <2>4, QueueStays DEF StorageInv, RowsShaped
    <2>6. DirsStep
      BY <2>1, DirsKept
    <2>7. StorageInv'
      BY <2>1, <2>2, <2>4, <2>5, <2>6, InvOfParts
    <2> QED BY <2>1, <2>7
  <1> QED BY <1>3, <1>4, <1>5 DEF QuietStep

\* What a container mounts, and what it makes.
Starts(p) ==
    /\ UNCHANGED <<storage, used, links, jobs, page, asked, deleted, faults>> /\ DirsStep
    /\ \A k \in DirKeys :
         \/ dir'[k] = dir[k]
         \/ /\ dir[k].gen = 0 /\ dir'[k].data = "empty" /\ dir'[k].gen = made[k] + 1
            /\ \E i \in Ids : Owns(i, k) /\ storage[i].status \in {"active", "resetting"}
    /\ mounts' \in [Projects -> SUBSET MountRecords]
    /\ \A q \in Projects : q # p => mounts'[q] = mounts[q]
    /\ \A m \in mounts'[p] : Owns(m.id, m.key) /\ dir'[m.key].gen = m.gen

LEMMA StartIs ==
    ASSUME StorageInv, StorageAssumption, NEW p \in Projects, NEW e \in Environments, StartContainer(p, e)
    PROVE  Starts(p)
  <1> DEFINE some == Mounted(p, e)
             ks == {KeyOf(storage[i]) : i \in some}
             new == {[key |-> KeyOf(storage[i]), gen |-> dir'[KeyOf(storage[i])].gen, id |-> i] : i \in some}
  <1>1. MakeMissing(ks) /\ mounts' = [mounts EXCEPT ![p] = new]
    BY DEF StartContainer
  <1>2. \A i \in some : /\ i \in Ids /\ Exists(i) /\ storage[i].status \in {"active", "resetting"}
                        /\ KeyOf(storage[i]) \in DirKeys /\ Owns(i, KeyOf(storage[i]))
    BY DEF Mounted, Exists, StorageInv, NamesKnown, Named, KeyOf, DirKeys, Owns
  <1>3. ks \in SUBSET DirKeys
    BY <1>2
  <1> HIDE DEF some
  <1>4. /\ DirsStep
        /\ \A k \in DirKeys :
             \/ dir'[k] = dir[k]
             \/ k \in ks /\ dir[k].gen = 0 /\ dir'[k].data = "empty" /\ dir'[k].gen = made[k] + 1
        /\ \A k \in ks : dir'[k].gen # 0
    <2> HIDE DEF ks
    <2> QED BY <1>1, <1>3, DirsMade
  <1>5. dir' \in [DirKeys -> [gen : Nat, data : Ids \cup {None, "empty"}]]
    BY <1>4 DEF DirsStep
  <1>6. ASSUME NEW m \in new
        PROVE  m \in MountRecords /\ Owns(m.id, m.key) /\ dir'[m.key].gen = m.gen
    <2>1. PICK i \in some :
             m = [key |-> KeyOf(storage[i]), gen |-> dir'[KeyOf(storage[i])].gen, id |-> i]
      BY <1>6
    <2>2. dir'[KeyOf(storage[i])].gen \in Nat \ {0}
      BY <1>2, <1>4, <1>5
    <2> QED BY <1>2, <2>1, <2>2 DEF MountRecords
  <1> HIDE DEF new
  <1>7. mounts \in [Projects -> SUBSET MountRecords]
    BY DEF StorageInv, RowsShaped
  <1>8. /\ mounts' \in [Projects -> SUBSET MountRecords] /\ mounts'[p] = new
        /\ \A q \in Projects : q # p => mounts'[q] = mounts[q]
    BY <1>1, <1>6, <1>7
  <1>9. ASSUME NEW k \in ks PROVE \E i \in Ids : Owns(i, k) /\ storage[i].status \in {"active", "resetting"}
    BY <1>2
  <1>10. UNCHANGED <<storage, used, links, jobs, page, asked, deleted, faults>>
    BY DEF StartContainer
  <1> HIDE DEF ks
  <1> QED BY <1>4, <1>6, <1>8, <1>9, <1>10 DEF Starts

LEMMA StartKeeps ==
    ASSUME StorageInv, StorageAssumption, NEW p \in Projects, Starts(p)
    PROVE  StorageInv'
  <1>1. /\ UNCHANGED <<storage, used, links, jobs, page, asked, deleted, faults>> /\ DirsStep
        /\ mounts' \in [Projects -> SUBSET MountRecords]
    BY DEF Starts
  <1>2. DirsKnown'
    <2>1. \A k \in DirKeys : dir'[k].gen <= made'[k] /\ (dir'[k].gen = 0 => dir'[k].data = None)
      BY <1>1 DEF DirsStep
    <2>2. ASSUME NEW q \in Projects, NEW m \in mounts'[q]
          PROVE  m.gen <= made'[m.key] /\ m.id \in used'
      <3> DEFINE k == m.key
      <3>1. m \in MountRecords
        BY <1>1
      <3>2. k \in DirKeys /\ m.gen \in Nat /\ m.id \in Ids
        BY <3>1 DEF MountRecords
      <3>3. CASE q = p
        <4>1. Owns(m.id, k) /\ dir'[k].gen = m.gen
          BY <3>3 DEF Starts
        <4>2. m.id \in used
          BY <3>2, <4>1 DEF Owns, StorageInv, NamesKnown
        <4> QED BY <1>1, <2>1, <3>2, <4>1, <4>2
      <3>4. CASE q # p
        <4>1. m \in mounts[q]
          BY <3>4 DEF Starts
        <4>2. m.gen <= made[k] /\ m.id \in used
          BY <4>1 DEF StorageInv, DirsKnown
        <4> HIDE DEF k
        <4>3. made'[k] >= made[k] /\ made'[k] \in Nat /\ made[k] \in Nat
          BY <1>1, <3>2 DEF DirsStep, StorageInv, RowsShaped
        <4>4. m.gen <= made'[k]
          BY <3>2, <4>2, <4>3
        <4> QED BY <1>1, <4>2, <4>4 DEF k
      <3> QED BY <3>3, <3>4
    <2> QED BY <2>1, <2>2 DEF DirsKnown
  <1>3. NamesStay
    BY <1>1 DEF NamesStay, StorageInv, RowsShaped, Exists
  <1>4. NamesKnown' /\ KeysStay /\ LinksKnown'
    BY <1>1, <1>3, KeysAreKept
  <1>5. \A j \in DOMAIN jobs' : JobKnown(j)'
    BY <1>1, <1>4, QueueStays
  <1>6. RowsShaped'
    BY <1>1 DEF RowsShaped, StorageInv, DirsStep
  <1> QED BY <1>1, <1>2, <1>4, <1>5, <1>6 DEF StorageInv

LEMMA SameNames ==
    ASSUME StorageInv, storage' = storage
    PROVE  NamesStay
BY DEF NamesStay, StorageInv, RowsShaped, Exists

\* A container writes to the directory it was started with.
Writes(k, i) ==
    /\ k \in DirKeys /\ i \in Ids /\ DirsStep /\ dir[k].gen # 0
    /\ dir'[k].gen = dir[k].gen /\ dir'[k].data = i
    /\ \A h \in DirKeys : h # k => dir'[h] = dir[h]
    /\ UNCHANGED <<storage, used, links, made, mounts, jobs, page, asked, deleted, faults>>

LEMMA WriteIs ==
    ASSUME StorageInv, StorageAssumption, NEW p \in Projects, Write(p)
    PROVE  StorageInv' /\ \E m \in mounts[p] : dir[m.key].gen = m.gen /\ Writes(m.key, m.id)
  <1>1. PICK m \in mounts[p] : dir[m.key].gen = m.gen /\ dir' = [dir EXCEPT ![m.key].data = m.id]
    BY DEF Write
  <1>2. UNCHANGED <<storage, used, links, made, mounts, jobs, page, asked, deleted, faults>>
    BY DEF Write
  <1>3. m \in MountRecords
    BY DEF StorageInv, RowsShaped
  <1> DEFINE k == m.key
             i == m.id
  <1>4. k \in DirKeys /\ i \in Ids /\ dir[k].gen # 0
    BY <1>1, <1>3 DEF MountRecords
  <1>5. dir' = [dir EXCEPT ![k].data = i] /\ made' = made
    BY <1>1, <1>2
  <1> HIDE DEF k, i
  <1>6. /\ DirsStep /\ dir'[k].gen = dir[k].gen /\ dir'[k].data = i
        /\ \A h \in DirKeys : h # k => dir'[h] = dir[h]
    BY <1>4, <1>5, DirWritten
  <1>7. NamesKnown' /\ KeysStay /\ LinksKnown'
    BY <1>2, SameNames, KeysAreKept
  <1>8. /\ jobs \in Seq(JobRecords) /\ Len(jobs) <= MaxJobs /\ \A j \in DOMAIN jobs' : JobKnown(j)'
        /\ storage \in [Ids -> StorageRows] /\ used \subseteq Ids
        /\ links \in [Projects -> [Ids -> (SUBSET Environments) \cup {NoLink}]]
        /\ deleted \subseteq asked /\ asked \subseteq used
    BY <1>2, <1>7, QueueStays DEF StorageInv, RowsShaped
  <1>9. StorageInv'
    BY <1>2, <1>6, <1>7, <1>8, InvOfParts
  <1>10. Writes(k, i)
    BY <1>2, <1>4, <1>6 DEF Writes
  <1> QED BY <1>1, <1>9, <1>10 DEF k, i

\* What a step of a job leaves alone.
JobStepFrame ==
    UNCHANGED <<used, mounts, page, asked, deleted>>
FaultCounted == faults' = faults \/ (faults < MaxFaults /\ faults' = faults + 1)

LEMMA WorkerKeeps ==
    ASSUME StorageInv, StorageAssumption, NEW j \in DOMAIN jobs, NEW step,
           NamesStay, JobMoves(j, step), SeenStays(j), step \in {"done", "queued"} \/ Running(j),
           DirsStep, JobStepFrame, FaultCounted, links' = links
    PROVE  StorageInv'
  <1>1. NamesKnown' /\ KeysStay /\ LinksKnown'
    BY KeysAreKept DEF JobStepFrame
  <1>2. /\ jobs' \in Seq(JobRecords) /\ Len(jobs') <= MaxJobs
        /\ used \subseteq Ids /\ deleted \subseteq asked /\ asked \subseteq used
        /\ links \in [Projects -> [Ids -> (SUBSET Environments) \cup {NoLink}]]
    BY DEF JobMoves, StorageInv, RowsShaped
  <1>3. \A h \in DOMAIN jobs' : JobKnown(h)'
    BY <1>1, QueueMoves DEF JobStepFrame
  <1> QED BY <1>1, <1>2, <1>3, InvOfParts DEF NamesStay, JobStepFrame, FaultCounted

LEMMA TakeIs ==
    ASSUME StorageInv, StorageAssumption, NEW j \in DOMAIN jobs, TakeJob(j)
    PROVE  /\ StorageInv' /\ jobs[j].at = "queued" /\ JobStepFrame
           /\ JobMoves(j, IF Exists(jobs[j].id) THEN "loaded" ELSE "done")
           /\ UNCHANGED <<storage, links, dir, made, faults>>
  <1> DEFINE i == jobs[j].id
             step == IF Exists(i) THEN "loaded" ELSE "done"
             new == [jobs[j] EXCEPT !.at = step, !.seen = storage[i]]
  <1>1. jobs[j] \in JobRecords /\ i \in Ids /\ JobKnown(j) /\ storage[i] \in StorageRows
    BY JobsAreShaped DEF StorageInv, RowsShaped
  <1>2. /\ new \in JobRecords /\ new.id = jobs[j].id /\ new.kind = jobs[j].kind
        /\ new.at = step /\ new.seen = storage[i]
    BY <1>1 DEF JobRecords, Steps
  <1>3. /\ jobs[j].at = "queued" /\ JobStepFrame /\ jobs' = [jobs EXCEPT ![j] = new]
        /\ UNCHANGED <<storage, links, dir, made, faults>>
    BY DEF TakeJob, JobStepFrame
  <1> HIDE DEF new, step
  <1>4. JobMoves(j, step) /\ jobs'[j] = new
    BY <1>2, <1>3, JobIsMoved
  <1>5. NamesKnown' /\ KeysStay /\ LinksKnown'
    BY <1>3, SameNames, KeysAreKept DEF JobStepFrame
  <1>6. ASSUME NEW h \in DOMAIN jobs' PROVE JobKnown(h)'
    <2>1. CASE h # j
      <3>1. h \in DOMAIN jobs /\ jobs'[h] = jobs[h]
        BY <1>4, <2>1 DEF JobMoves
      <3> QED BY <1>3, <1>5, <3>1, KnownStays DEF Running, JobStepFrame
    <2>2. CASE h = j
      <3>1. Exists(i) => Named(storage[i])
        BY <1>1 DEF StorageInv, NamesKnown
      <3>2. Running(j)' => Exists(i)
        BY <1>2, <1>4 DEF Running, step, Steps
      <3> QED BY <1>1, <1>2, <1>3, <1>4, <2>2, <3>1, <3>2 DEF JobKnown, JobStepFrame, Exists, i
    <2> QED BY <2>1, <2>2
  <1>7. /\ jobs' \in Seq(JobRecords) /\ Len(jobs') <= MaxJobs
        /\ storage \in [Ids -> StorageRows]
        /\ used \subseteq Ids /\ deleted \subseteq asked /\ asked \subseteq used
        /\ links \in [Projects -> [Ids -> (SUBSET Environments) \cup {NoLink}]]
    BY <1>4 DEF JobMoves, StorageInv, RowsShaped
  <1>8. StorageInv'
    BY <1>3, <1>5, <1>6, <1>7, DirsKept, InvOfParts DEF JobStepFrame
  <1> QED BY <1>3, <1>4, <1>8 DEF step, i

LEMMA MarkIs ==
    ASSUME StorageInv, StorageAssumption, NEW j \in DOMAIN jobs, Mark(j)
    PROVE  /\ StorageInv' /\ jobs[j].at = "loaded" /\ jobs[j].kind = "reset" /\ JobStepFrame
           /\ UNCHANGED <<links, dir, made, faults>>
           /\ \/ /\ Exists(jobs[j].id) /\ StatusMoves(jobs[j].id, "resetting")
                 /\ JobMoves(j, "marked") /\ SeenStays(j)
              \/ storage' = storage /\ JobMoves(j, "done") /\ SeenStays(j)
  <1> DEFINE i == jobs[j].id
  <1>1. jobs[j] \in JobRecords /\ i \in Ids /\ jobs[j].seen \in StorageRows
    BY JobsAreShaped
  <1>2. /\ jobs[j].at = "loaded" /\ jobs[j].kind = "reset" /\ JobStepFrame
        /\ UNCHANGED <<links, dir, made, faults>>
    BY DEF Mark, JobStepFrame
  <1>3. DirsStep /\ FaultCounted /\ Running(j)
    BY <1>2, DirsKept DEF FaultCounted, Running, Steps
  <1>4. CASE Exists(i)
    <2> DEFINE new == [jobs[j] EXCEPT !.at = "marked", !.seen = [jobs[j].seen EXCEPT !.status = "resetting"]]
    <2>0. /\ storage' = Written(i, jobs[j].seen.status, "resetting")
          /\ jobs' = [jobs EXCEPT ![j].at = "marked", ![j].seen.status = "resetting"]
      BY <1>4 DEF Mark, Commit
    <2>1. storage' = Written(i, jobs[j].seen.status, "resetting") /\ jobs' = [jobs EXCEPT ![j] = new]
      <3>1. jobs \in [DOMAIN jobs -> JobRecords] /\ jobs[j] \in JobRecords
        BY <1>1, LenProperties DEF StorageInv, RowsShaped
      <3> QED BY <2>0, <3>1 DEF JobRecords
    <2>2. /\ [jobs[j].seen EXCEPT !.status = "resetting"] \in StorageRows
          /\ [jobs[j].seen EXCEPT !.status = "resetting"].name = jobs[j].seen.name
          /\ [jobs[j].seen EXCEPT !.status = "resetting"].type = jobs[j].seen.type
      BY <1>1 DEF StorageRows, StorageStatuses
    <2>3. /\ new \in JobRecords /\ new.id = jobs[j].id /\ new.kind = jobs[j].kind /\ new.at = "marked"
          /\ new.seen = [jobs[j].seen EXCEPT !.status = "resetting"]
      BY <1>1, <2>2 DEF JobRecords, Steps
    <2> HIDE DEF new
    <2>4. JobMoves(j, "marked") /\ jobs'[j] = new
      BY <2>1, <2>3, JobIsMoved, ZenonT(60)
    <2>5. SeenStays(j)
      BY <2>2, <2>3, <2>4 DEF SeenStays
    <2>6. StatusMoves(i, "resetting")
      <3>1. "resetting" \in StorageStatuses \ {"none"} /\ \E loaded : storage' = Written(i, loaded, "resetting")
        BY <2>1 DEF StorageStatuses
      <3> QED BY <1>1, <1>4, <3>1, StatusIsMoved
    <2>7. NamesStay
      BY <2>6 DEF StatusMoves
    <2>8. StorageInv'
      BY <1>2, <1>3, <2>4, <2>5, <2>7, WorkerKeeps
    <2> QED BY <1>2, <1>4, <2>4, <2>5, <2>6, <2>8
  <1>5. CASE ~Exists(i)
    <2>1. JobAt(j, "done") /\ storage' = storage
      BY <1>5 DEF Mark
    <2>2. JobMoves(j, "done") /\ SeenStays(j)
      BY <2>1, JobStep
    <2>3. StorageInv'
      BY <1>2, <1>3, <2>1, <2>2, SameNames, WorkerKeeps
    <2> QED BY <1>2, <2>1, <2>2, <2>3
  <1> QED BY <1>4, <1>5

LEMMA TouchIs ==
    ASSUME StorageInv, StorageAssumption, NEW j \in DOMAIN jobs, Touch(j)
    PROVE  /\ StorageInv' /\ Ready(j) /\ WorkedOn(j, KeyOf(jobs[j].seen)) /\ JobStepFrame
           /\ JobMoves(j, "touched") /\ SeenStays(j) /\ UNCHANGED <<storage, links, faults>>
  <1>1. WorkedOn(j, KeyOf(jobs[j].seen)) /\ JobMoves(j, "touched") /\ SeenStays(j)
    BY TouchDoes
  <1>2. Ready(j) /\ JobStepFrame /\ UNCHANGED <<storage, links, faults>>
    BY DEF Touch, JobStepFrame
  <1>3. Running(j) /\ FaultCounted /\ DirsStep
    BY <1>1, <1>2 DEF Ready, Running, Steps, FaultCounted, WorkedOn
  <1> QED BY <1>1, <1>2, <1>3, SameNames, WorkerKeeps

\* The status of its storage is written by a job that ends, if the storage is there.
LEMMA ActivateIs ==
    ASSUME StorageInv, StorageAssumption, NEW j \in DOMAIN jobs, Activate(j)
    PROVE  /\ StorageInv' /\ jobs[j].at = "touched" /\ jobs[j].kind # "deprovision" /\ JobStepFrame
           /\ UNCHANGED <<links, dir, made, faults>> /\ JobMoves(j, "done") /\ SeenStays(j)
           /\ (Exists(jobs[j].id) /\ StatusMoves(jobs[j].id, "active")) \/ storage' = storage
  <1> DEFINE i == jobs[j].id
  <1>1. i \in Ids
    BY JobsAreShaped
  <1>2. /\ jobs[j].at = "touched" /\ jobs[j].kind # "deprovision" /\ JobAt(j, "done") /\ JobStepFrame
        /\ UNCHANGED <<links, dir, made, faults>>
    BY DEF Activate, JobStepFrame
  <1>3. JobMoves(j, "done") /\ SeenStays(j)
    BY <1>2, JobStep
  <1>4. (Exists(i) /\ StatusMoves(i, "active")) \/ storage' = storage
    <2>1. ASSUME Exists(i) PROVE StatusMoves(i, "active")
      <3>1. "active" \in StorageStatuses \ {"none"} /\ \E loaded : storage' = Written(i, loaded, "active")
        BY <2>1 DEF StorageStatuses, Activate, Commit
      <3> QED BY <1>1, <2>1, <3>1, StatusIsMoved
    <2>2. ~Exists(i) => storage' = storage
      BY DEF Activate
    <2> QED BY <2>1, <2>2
  <1>5. NamesStay
    BY <1>4, SameNames DEF StatusMoves
  <1>6. StorageInv'
    BY <1>2, <1>3, <1>5, DirsKept, WorkerKeeps DEF FaultCounted
  <1> QED BY <1>2, <1>3, <1>4, <1>6

LEMMA FailIs ==
    ASSUME StorageInv, StorageAssumption, NEW j \in DOMAIN jobs, Fail(j)
    PROVE  /\ StorageInv' /\ Fault("failed") /\ Ready(j) /\ JobStepFrame /\ UNCHANGED <<links, dir, made>>
           /\ JobMoves(j, "done") /\ SeenStays(j)
           /\ (Exists(jobs[j].id) /\ StatusMoves(jobs[j].id, "active")) \/ storage' = storage
  <1> DEFINE i == jobs[j].id
  <1>1. i \in Ids
    BY JobsAreShaped
  <1>2. /\ Fault("failed") /\ Ready(j) /\ JobAt(j, "done") /\ JobStepFrame /\ UNCHANGED <<links, dir, made>>
    BY DEF Fail, JobStepFrame
  <1>3. JobMoves(j, "done") /\ SeenStays(j)
    BY <1>2, JobStep
  <1>4. (Exists(i) /\ StatusMoves(i, "active")) \/ storage' = storage
    <2>1. ASSUME Exists(i), storage' = [storage EXCEPT ![i].status = "active"] PROVE StatusMoves(i, "active")
      <3>1. "active" \in StorageStatuses \ {"none"}
        BY DEF StorageStatuses
      <3> QED BY <1>1, <2>1, <3>1, StatusIsMoved
    <2> QED BY <2>1 DEF Fail
  <1>5. NamesStay
    BY <1>4, SameNames DEF StatusMoves
  <1>6. StorageInv'
    BY <1>2, <1>3, <1>5, DirsKept, WorkerKeeps DEF FaultCounted, Fault
  <1> QED BY <1>2, <1>3, <1>4, <1>6

LEMMA CrashIs ==
    ASSUME StorageInv, StorageAssumption, NEW j \in DOMAIN jobs, Crash(j)
    PROVE  /\ StorageInv' /\ Running(j) /\ JobStepFrame /\ UNCHANGED <<storage, links, dir, made>>
           /\ JobMoves(j, "queued") /\ SeenStays(j)
  <1>1. /\ Fault("killed") /\ Running(j) /\ JobAt(j, "queued") /\ JobStepFrame
        /\ UNCHANGED <<storage, links, dir, made>>
    BY DEF Crash, JobStepFrame
  <1>2. JobMoves(j, "queued") /\ SeenStays(j)
    BY <1>1, JobStep DEF Steps
  <1>3. StorageInv'
    BY <1>1, <1>2, SameNames, DirsKept, WorkerKeeps DEF FaultCounted, Fault
  <1> QED BY <1>1, <1>2, <1>3

LEMMA RemoveRowIs ==
    ASSUME StorageInv, StorageAssumption, NEW j \in DOMAIN jobs, RemoveRow(j)
    PROVE  /\ StorageInv' /\ jobs[j].at = "touched" /\ jobs[j].kind = "deprovision" /\ JobStepFrame
           /\ UNCHANGED <<dir, made, faults>> /\ JobMoves(j, "done") /\ SeenStays(j)
           /\ storage'[jobs[j].id].status = "none"
           /\ \A k \in Ids : k # jobs[j].id => storage'[k] = storage[k]
  <1> DEFINE i == jobs[j].id
  <1>1. i \in Ids
    BY JobsAreShaped
  <1>2. /\ jobs[j].at = "touched" /\ jobs[j].kind = "deprovision" /\ JobAt(j, "done") /\ JobStepFrame
        /\ UNCHANGED <<dir, made, faults>> /\ storage' = [storage EXCEPT ![i] = NoRow]
        /\ links' = [p \in Projects |-> [links[p] EXCEPT ![i] = NoLink]]
    BY DEF RemoveRow, JobStepFrame
  <1>3. JobMoves(j, "done") /\ SeenStays(j)
    BY <1>2, JobStep
  <1>4. /\ storage \in [Ids -> StorageRows] /\ NoRow \in StorageRows
        /\ links \in [Projects -> [Ids -> (SUBSET Environments) \cup {NoLink}]]
    BY DEF StorageInv, RowsShaped, NoRow, StorageRows, StorageStatuses
  <1> HIDE DEF i
  <1>5. /\ storage' \in [Ids -> StorageRows] /\ storage'[i].status = "none"
        /\ \A k \in Ids : k # i => storage'[k] = storage[k]
    BY <1>1, <1>2, <1>4 DEF NoRow
  <1>6. /\ links' \in [Projects -> [Ids -> (SUBSET Environments) \cup {NoLink}]]
        /\ \A p \in Projects, k \in Ids : links'[p][k] = IF k = i THEN NoLink ELSE links[p][k]
    BY <1>1, <1>2, <1>4
  <1>7. LinksKnown'
    BY <1>5, <1>6 DEF LinksKnown, StorageInv, Exists
  <1>8. NamesKnown'
    BY <1>2, <1>5 DEF NamesKnown, StorageInv, Exists, JobStepFrame
  <1>9. KeysStay
    BY <1>5 DEF KeysStay, Exists, StorageInv, RowsShaped
  <1>10. \A h \in DOMAIN jobs' : JobKnown(h)'
    BY <1>2, <1>3, <1>9, QueueMoves DEF JobStepFrame
  <1>11. /\ jobs' \in Seq(JobRecords) /\ Len(jobs') <= MaxJobs
         /\ used \subseteq Ids /\ deleted \subseteq asked /\ asked \subseteq used
    BY <1>3 DEF JobMoves, StorageInv, RowsShaped
  <1>12. StorageInv'
    BY <1>2, <1>5, <1>6, <1>7, <1>8, <1>10, <1>11, DirsKept, InvOfParts DEF JobStepFrame
  <1> QED BY <1>2, <1>3, <1>5, <1>12 DEF i

-----------------------------------------------------------------------------
(* Storages: while people wait, a directory holds its owner's data.        *)

LEMMA OwnerIsOne ==
    ASSUME StorageInv, NEW k \in DirKeys, NEW i \in Ids, NEW h \in Ids, Owns(i, k), Owns(h, k)
    PROVE  h = i
BY DEF StorageInv, NamesKnown, Owns, KeyOf

LEMMA OwnsStays ==
    ASSUME NamesStay, NEW i \in Ids, NEW k
    PROVE  Owns(i, k)' <=> Owns(i, k)
BY DEF NamesStay, Owns, KeyOf

\* The job j moves on: the jobs of the other storages are not disturbed.
LEMMA OthersOneJob ==
    ASSUME StorageInv, OwnInv, NEW j \in DOMAIN jobs, jobs[j].at # "done", NEW step, JobMoves(j, step),
           \A k \in Ids : k # jobs[j].id => storage'[k] = storage[k],
           \A k \in DirKeys : k # KeyOf(storage[jobs[j].id]) => dir'[k] = dir[k],
           step # "done" =>
             /\ storage'[jobs[j].id].status # "none"
             /\ jobs[j].kind = "deprovision" =>
                  /\ storage'[jobs[j].id].status = "deleted"
                  /\ step = "touched" => dir'[KeyOf(jobs'[j].seen)].gen = 0
    PROVE  \A h \in DOMAIN jobs' : jobs'[h].at # "done" => OneJob(h)'
  <1> DEFINE i == jobs[j].id
  <1>1. OneJob(j) /\ i \in Ids /\ Exists(i)
    BY JobsAreShaped DEF OwnInv, OneJob
  <1>2. SUFFICES ASSUME NEW h \in DOMAIN jobs, jobs'[h].at # "done" PROVE OneJob(h)'
    BY DEF JobMoves
  <1>3. CASE h # j
    <2>1. jobs'[h] = jobs[h] /\ OneJob(h) /\ JobKnown(h) /\ jobs[h].id \in Ids
      BY <1>2, <1>3, JobsAreShaped DEF JobMoves, OwnInv
    <2>2. jobs[h].id # i /\ storage'[jobs[h].id] = storage[jobs[h].id] /\ Exists(jobs[h].id)
      BY <1>1, <1>2, <1>3, <2>1 DEF OneJob
    <2>3. ASSUME NEW k \in DOMAIN jobs', jobs'[k].at # "done", jobs'[k].id = jobs'[h].id PROVE k = h
      BY <2>1, <2>2, <2>3 DEF OneJob, JobMoves
    <2>4. ASSUME jobs[h].kind = "deprovision", jobs[h].at = "touched" PROVE dir'[KeyOf(jobs[h].seen)].gen = 0
      <3> DEFINE k == KeyOf(jobs[h].seen)
      <3>1. k = KeyOf(storage[jobs[h].id]) /\ Named(jobs[h].seen) /\ dir[k].gen = 0
        BY <2>1, <2>2, <2>4 DEF JobKnown, OneJob, Running, Steps
      <3>2. k \in DirKeys
        BY <3>1 DEF KeyOf, Named, DirKeys
      <3>3. k # KeyOf(storage[i])
        BY <1>1, <2>1, <2>2, <3>1, <3>2, OwnerIsOne DEF Owns
      <3> QED BY <3>1, <3>2, <3>3
    <2> QED BY <2>1, <2>2, <2>3, <2>4 DEF OneJob, Exists
  <1>4. CASE h = j
    <2>1. jobs'[j].id = i /\ jobs'[j].kind = jobs[j].kind /\ jobs'[j].at = step /\ step # "done"
      BY <1>2, <1>4 DEF JobMoves
    <2>2. ASSUME NEW k \in DOMAIN jobs', jobs'[k].at # "done", jobs'[k].id = i PROVE k = j
      BY <1>1, <2>2 DEF OneJob, JobMoves
    <2> QED BY <1>4, <2>1, <2>2 DEF OneJob, Exists
  <1> QED BY <1>3, <1>4

LEMMA SameOwners ==
    ASSUME StorageInv, OwnInv, NamesStay, UNCHANGED <<dir, mounts>>
    PROVE  /\ \A k \in DirKeys : dir'[k].data \in Ids => Owns(dir[k].data, k)'
           /\ \A p \in Projects : \A m \in mounts'[p] : dir'[m.key].gen = m.gen => Owns(m.id, m.key)'
  <1>1. \A p \in Projects : \A m \in mounts[p] : m.id \in Ids
    BY DEF StorageInv, RowsShaped, MountRecords
  <1>2. ASSUME NEW k \in DirKeys, dir[k].data \in Ids PROVE Owns(dir[k].data, k)'
    BY <1>2, OwnsStays DEF OwnInv
  <1>3. ASSUME NEW p \in Projects, NEW m \in mounts[p], dir[m.key].gen = m.gen PROVE Owns(m.id, m.key)'
    BY <1>1, <1>3, OwnsStays DEF OwnInv
  <1> QED BY <1>2, <1>3

\* Steps of jobs that touch no directory.
LEMMA OwnMoves ==
    ASSUME StorageInv, OwnInv, NEW j \in DOMAIN jobs, jobs[j].at # "done", NEW step, JobMoves(j, step),
           UNCHANGED <<dir, mounts>>, step # "touched",
           storage' = storage \/ \E s : StatusMoves(jobs[j].id, s),
           step # "done" => storage' = storage \/ jobs[j].kind # "deprovision"
    PROVE  OwnInv'
  <1>1. OneJob(j) /\ jobs[j].id \in Ids
    BY JobsAreShaped DEF OwnInv
  <1>2. NamesStay /\ \A k \in Ids : k # jobs[j].id => storage'[k] = storage[k]
    BY SameNames DEF StatusMoves
  <1>3. \A h \in DOMAIN jobs' : jobs'[h].at # "done" => OneJob(h)'
    <2>1. Exists(jobs[j].id) => storage'[jobs[j].id].status # "none"
      BY <1>1, <1>2 DEF NamesStay, Exists
    <2> QED BY <1>1, <1>2, <2>1, OthersOneJob DEF OneJob
  <1> QED BY <1>2, <1>3, SameOwners DEF OwnInv

LEMMA OwnTouched ==
    ASSUME StorageInv, StorageAssumption, OwnInv, NEW j \in DOMAIN jobs, Touch(j)
    PROVE  OwnInv'
  <1> DEFINE i == jobs[j].id
             k == KeyOf(jobs[j].seen)
  <1>1. /\ Ready(j) /\ WorkedOn(j, k) /\ JobStepFrame /\ JobMoves(j, "touched") /\ SeenStays(j)
        /\ storage' = storage
    BY TouchIs
  <1>2. jobs[j].at # "done" /\ Running(j)
    BY <1>1 DEF Ready, Running, Steps
  <1>3. OneJob(j) /\ i \in Ids /\ Exists(i) /\ JobKnown(j)
    BY <1>2, JobsAreShaped DEF OwnInv, OneJob
  <1>4. k = KeyOf(storage[i]) /\ k \in DirKeys /\ Owns(i, k)
    BY <1>1, <1>2, <1>3 DEF JobKnown, WorkedOn, Owns
  <1>5. KeyOf(jobs'[j].seen) = k
    BY <1>1 DEF SeenStays, KeyOf
  <1>6. \A h \in DOMAIN jobs' : jobs'[h].at # "done" => OneJob(h)'
    <2>1. jobs[j].kind = "deprovision" => storage[i].status = "deleted" /\ dir'[k].gen = 0
      BY <1>1, <1>3 DEF OneJob, WorkedOn
    <2>2. \A h \in DirKeys : h # k => dir'[h] = dir[h]
      BY <1>1 DEF WorkedOn
    <2> HIDE DEF k
    <2> QED BY <1>1, <1>2, <1>3, <1>4, <1>5, <2>1, <2>2, OthersOneJob DEF Exists
  <1> HIDE DEF k
  <1>7. NamesStay
    BY <1>1, SameNames
  <1>8. ASSUME NEW h \in DirKeys, dir'[h].data \in Ids PROVE Owns(dir[h].data, h)'
    <2>1. dir'[h] = dir[h]
      BY <1>1, <1>8 DEF WorkedOn, StorageAssumption
    <2>2. Owns(dir[h].data, h)
      BY <1>8, <2>1 DEF OwnInv
    <2> QED BY <1>1, <2>1, <2>2 DEF Owns, Exists
  <1>9. ASSUME NEW p \in Projects, NEW m \in mounts[p], dir'[m.key].gen = m.gen PROVE Owns(m.id, m.key)'
    <2>1. m \in MountRecords /\ m.gen <= made[m.key]
      BY DEF StorageInv, RowsShaped, DirsKnown
    <2>2. m.key \in DirKeys /\ m.gen \in Nat \ {0} /\ m.id \in Ids
      BY <2>1 DEF MountRecords
    <2> DEFINE h == m.key
    <2>3. made[h] \in Nat /\ dir'[h].gen \in {0, dir[h].gen, made[h] + 1}
      BY <1>1, <2>2 DEF WorkedOn, DirsStep, StorageInv, RowsShaped
    <2>4. h \in DirKeys /\ m.gen <= made[h] /\ dir'[h].gen = m.gen
      BY <1>9, <2>1, <2>2
    <2> HIDE DEF h
    <2>5. dir[h].gen = m.gen
      BY <2>2, <2>3, <2>4
    <2>6. Owns(m.id, m.key)
      BY <2>5 DEF OwnInv, h
    <2> QED BY <1>1, <2>6 DEF Owns, Exists
  <1>10. mounts' = mounts
    BY <1>1 DEF JobStepFrame
  <1> QED BY <1>6, <1>8, <1>9, <1>10 DEF OwnInv

LEMMA OwnRemoved ==
    ASSUME StorageInv, StorageAssumption, OwnInv, NEW j \in DOMAIN jobs, RemoveRow(j)
    PROVE  OwnInv'
  <1> DEFINE i == jobs[j].id
             k == KeyOf(jobs[j].seen)
  <1>1. /\ jobs[j].at = "touched" /\ jobs[j].kind = "deprovision" /\ JobStepFrame
        /\ UNCHANGED <<dir, made>> /\ JobMoves(j, "done")
        /\ \A h \in Ids : h # i => storage'[h] = storage[h]
    BY RemoveRowIs
  <1>2. OneJob(j) /\ i \in Ids /\ Exists(i) /\ JobKnown(j) /\ dir[k].gen = 0
    BY <1>1, JobsAreShaped DEF OwnInv, OneJob
  <1>3. k = KeyOf(storage[i]) /\ k \in DirKeys
    BY <1>1, <1>2 DEF JobKnown, Running, Steps, Named, KeyOf, DirKeys
  <1>4. \A h \in DOMAIN jobs' : jobs'[h].at # "done" => OneJob(h)'
    BY <1>1, OthersOneJob
  <1>5. dir[k].data \notin Ids
    BY <1>2, <1>3, DirsShaped DEF StorageAssumption
  <1> HIDE DEF k
  <1>6. ASSUME NEW h \in DirKeys, dir[h].data \in Ids PROVE Owns(dir[h].data, h)'
    <2>1. Owns(dir[h].data, h)
      BY <1>6 DEF OwnInv
    <2>2. dir[h].data # i
      BY <1>3, <1>5, <1>6, <2>1 DEF Owns
    <2> QED BY <1>1, <1>6, <2>1, <2>2 DEF Owns, Exists
  <1>7. ASSUME NEW p \in Projects, NEW m \in mounts[p], dir[m.key].gen = m.gen PROVE Owns(m.id, m.key)'
    <2>1. m \in MountRecords
      BY DEF StorageInv, RowsShaped
    <2>2. m.gen # 0 /\ m.id \in Ids
      BY <2>1 DEF MountRecords
    <2>3. Owns(m.id, m.key)
      BY <1>7 DEF OwnInv
    <2>4. m.id # i
      BY <1>2, <1>3, <1>7, <2>2, <2>3 DEF Owns
    <2> QED BY <1>1, <2>2, <2>3, <2>4 DEF Owns, Exists
  <1> QED BY <1>1, <1>4, <1>6, <1>7 DEF OwnInv, JobStepFrame

LEMMA OwnStarts ==
    ASSUME StorageInv, StorageAssumption, OwnInv, NEW p \in Projects, Starts(p)
    PROVE  OwnInv'
  <1>1. /\ storage' = storage /\ jobs' = jobs /\ DirsStep
        /\ mounts' \in [Projects -> SUBSET MountRecords]
    BY DEF Starts
  <1>2. ASSUME NEW j \in DOMAIN jobs, jobs[j].at # "done" PROVE OneJob(j)'
    <2>1. OneJob(j) /\ JobKnown(j) /\ jobs[j].id \in Ids
      BY <1>2, JobsAreShaped DEF OwnInv
    <2>2. ASSUME jobs[j].kind = "deprovision", jobs[j].at = "touched" PROVE dir'[KeyOf(jobs[j].seen)].gen = 0
      <3> DEFINE k == KeyOf(jobs[j].seen)
                 i == jobs[j].id
      <3>1. k = KeyOf(storage[i]) /\ Named(jobs[j].seen) /\ Exists(i) /\ dir[k].gen = 0
            /\ storage[i].status = "deleted"
        BY <2>1, <2>2 DEF JobKnown, OneJob, Running, Steps
      <3>2. k \in DirKeys /\ Owns(i, k)
        BY <3>1 DEF KeyOf, Named, DirKeys, Owns
      <3> HIDE DEF k, i
      <3>3. ASSUME NEW h \in Ids, Owns(h, k) PROVE storage[h].status \notin {"active", "resetting"}
        <4>1. h = i
          BY <2>1, <3>2, <3>3, OwnerIsOne DEF i
        <4> QED BY <3>1, <4>1
      <3>4. dir'[k] = dir[k]
        BY <3>2, <3>3 DEF Starts
      <3> QED BY <3>1, <3>4 DEF k
    <2> QED BY <1>1, <2>1, <2>2 DEF OneJob, Exists
  <1>3. ASSUME NEW k \in DirKeys, dir'[k].data \in Ids PROVE Owns(dir[k].data, k)'
    <2>1. dir'[k] = dir[k]
      BY <1>3 DEF Starts, StorageAssumption
    <2>2. Owns(dir[k].data, k)
      BY <1>3, <2>1 DEF OwnInv
    <2> QED BY <1>1, <2>1, <2>2 DEF Owns, Exists
  <1>4. ASSUME NEW q \in Projects, NEW m \in mounts'[q], dir'[m.key].gen = m.gen
        PROVE  Owns(m.id, m.key)
    <2>1. CASE q = p
      BY <2>1 DEF Starts
    <2>2. CASE q # p
      <3>1. m \in mounts[q]
        BY <2>2 DEF Starts
      <3>2. m \in MountRecords /\ m.gen <= made[m.key]
        BY <3>1 DEF StorageInv, RowsShaped, DirsKnown
      <3> DEFINE h == m.key
      <3>3. h \in DirKeys /\ m.gen \in Nat /\ made[h] \in Nat /\ m.gen <= made[h]
        BY <3>2 DEF MountRecords, StorageInv, RowsShaped
      <3>4. dir'[h].gen = m.gen
        BY <1>4
      <3> HIDE DEF h
      <3>5. dir[h].gen = m.gen
        BY <3>3, <3>4 DEF Starts
      <3> QED BY <3>1, <3>5 DEF OwnInv, h
    <2> QED BY <2>1, <2>2
  <1>5. ASSUME NEW q \in Projects, NEW m \in mounts'[q], dir'[m.key].gen = m.gen
        PROVE  Owns(m.id, m.key)'
    <2>1. Owns(m.id, m.key)
      BY <1>4, <1>5
    <2> QED BY <1>1, <2>1 DEF Owns, Exists
  <1> QED BY <1>1, <1>2, <1>3, <1>5 DEF OwnInv

LEMMA OwnWrites ==
    ASSUME StorageInv, StorageAssumption, OwnInv, NEW p \in Projects, Write(p)
    PROVE  OwnInv'
  <1>1. PICK m \in mounts[p] : dir[m.key].gen = m.gen /\ Writes(m.key, m.id)
    BY WriteIs
  <1> DEFINE k == m.key
             i == m.id
  <1>2. Owns(i, k) /\ Writes(k, i)
    BY <1>1 DEF OwnInv
  <1> HIDE DEF k, i
  <1>3. /\ storage' = storage /\ jobs' = jobs /\ mounts' = mounts /\ k \in DirKeys /\ i \in Ids
        /\ dir'[k].gen = dir[k].gen /\ dir'[k].data = i
        /\ \A h \in DirKeys : h # k => dir'[h] = dir[h]
    BY <1>2 DEF Writes
  <1>4. \A h \in DirKeys : dir'[h].gen = dir[h].gen
    BY <1>3
  <1>5. ASSUME NEW j \in DOMAIN jobs, jobs[j].at # "done" PROVE OneJob(j)'
    <2>1. OneJob(j) /\ JobKnown(j)
      BY <1>5, JobsAreShaped DEF OwnInv
    <2>2. jobs[j].at = "touched" => KeyOf(jobs[j].seen) \in DirKeys
      BY <2>1 DEF JobKnown, Running, Steps, Named, KeyOf, DirKeys
    <2> QED BY <1>3, <1>4, <2>1, <2>2 DEF OneJob, Exists
  <1>6. ASSUME NEW h \in DirKeys, dir'[h].data \in Ids PROVE Owns(dir[h].data, h)'
    <2>1. CASE h = k
      BY <1>2, <1>3, <2>1 DEF Owns, Exists
    <2>2. CASE h # k
      <3>1. dir'[h] = dir[h] /\ Owns(dir[h].data, h)
        BY <1>3, <1>6, <2>2 DEF OwnInv
      <3> QED BY <1>3, <3>1 DEF Owns, Exists
    <2> QED BY <2>1, <2>2
  <1>7. ASSUME NEW q \in Projects, NEW n \in mounts[q], dir'[n.key].gen = n.gen PROVE Owns(n.id, n.key)'
    <2>1. n.key \in DirKeys
      BY DEF StorageInv, RowsShaped, MountRecords
    <2>2. Owns(n.id, n.key)
      BY <1>4, <1>7, <2>1 DEF OwnInv
    <2> QED BY <1>3, <2>2 DEF Owns, Exists
  <1> QED BY <1>3, <1>5, <1>6, <1>7 DEF OwnInv

LEMMA OwnInserts ==
    ASSUME StorageInv, StorageAssumption, OwnInv, NEW i \in Ids, NEW n, NEW t, InsertDoes(i, n, t)
    PROVE  OwnInv'
  <1>1. /\ i \notin used /\ ~Exists(i) /\ storage'[i].status # "none"
        /\ \A k \in Ids : k # i => storage'[k] = storage[k]
        /\ UNCHANGED <<dir, mounts>>
        /\ JobComes("provision", i) \/ jobs' = jobs
    BY DEF InsertDoes
  <1>2. ASSUME NEW k \in Ids, NEW h, Owns(k, h) PROVE Owns(k, h)'
    <2>1. k # i
      BY <1>1, <1>2 DEF Owns
    <2> QED BY <1>1, <1>2, <2>1 DEF Owns, Exists
  <1>3. ASSUME NEW j \in DOMAIN jobs PROVE jobs[j].id \in Ids /\ jobs[j].id # i
    BY <1>1, JobsAreShaped DEF JobKnown
  <1>4. ASSUME NEW j \in DOMAIN jobs', jobs'[j].at # "done" PROVE OneJob(j)'
    <2>1. CASE j \in DOMAIN jobs
      <3>1. jobs'[j] = jobs[j] /\ OneJob(j) /\ storage'[jobs[j].id] = storage[jobs[j].id]
        BY <1>1, <1>3, <1>4, <2>1 DEF JobComes, OwnInv
      <3>2. ASSUME NEW k \in DOMAIN jobs', jobs'[k].at # "done", jobs'[k].id = jobs[j].id PROVE k = j
        <4>1. k \in DOMAIN jobs /\ jobs'[k] = jobs[k]
          BY <1>1, <1>3, <2>1, <3>2 DEF JobComes
        <4> QED BY <3>1, <3>2, <4>1 DEF OneJob
      <3> QED BY <1>1, <3>1, <3>2 DEF OneJob, Exists
    <2>2. CASE j \notin DOMAIN jobs
      <3>1. j = Len(jobs') /\ jobs'[j].id = i /\ jobs'[j].kind = "provision" /\ JobComes("provision", i)
        BY <1>1, <1>4, <2>2 DEF JobComes
      <3>2. ASSUME NEW k \in DOMAIN jobs', jobs'[k].id = i PROVE k = j
        BY <1>3, <3>1, <3>2 DEF JobComes
      <3> QED BY <1>1, <3>1, <3>2 DEF OneJob, Exists
    <2> QED BY <2>1, <2>2
  <1>5. \A p \in Projects : \A m \in mounts[p] : m.id \in Ids
    BY DEF StorageInv, RowsShaped, MountRecords
  <1>6. ASSUME NEW k \in DirKeys, dir[k].data \in Ids PROVE Owns(dir[k].data, k)'
    <2>1. Owns(dir[k].data, k) /\ dir[k].data # i
      BY <1>1, <1>6 DEF OwnInv, Owns
    <2> QED BY <1>1, <1>6, <2>1 DEF Owns, Exists
  <1>7. ASSUME NEW p \in Projects, NEW m \in mounts[p], dir[m.key].gen = m.gen PROVE Owns(m.id, m.key)'
    BY <1>2, <1>5, <1>7 DEF OwnInv
  <1> QED BY <1>1, <1>4, <1>6, <1>7 DEF OwnInv

LEMMA OwnAsks ==
    ASSUME StorageInv, StorageAssumption, OwnInv, Patient, NEW r \in Requests, NEW kind, Asks(r, kind)
    PROVE  OwnInv'
  <1> DEFINE i == page[r].id
  <1>1. /\ i \in Ids /\ Exists(i) /\ UNCHANGED <<dir, mounts>> /\ NamesStay
        /\ \A k \in Ids : k # i => storage'[k] = storage[k]
        /\ kind = "deprovision" => storage'[i].status = "deleted"
        /\ JobComes(kind, i) \/ jobs' = jobs
    BY DEF Asks, StatusMoves
  <1>2. \A j \in DOMAIN jobs : jobs[j].id = i => jobs[j].at = "done"
    BY DEF Asks, Waited
  <1> HIDE DEF i
  <1>3. \A j \in DOMAIN jobs : jobs[j].id \in Ids
    BY JobsAreShaped
  <1>4. ASSUME NEW j \in DOMAIN jobs', jobs'[j].at # "done" PROVE OneJob(j)'
    <2>1. CASE j \in DOMAIN jobs
      <3>1. jobs'[j] = jobs[j] /\ OneJob(j) /\ jobs[j].id # i /\ storage'[jobs[j].id] = storage[jobs[j].id]
        BY <1>1, <1>2, <1>3, <1>4, <2>1 DEF JobComes, OwnInv
      <3>2. ASSUME NEW k \in DOMAIN jobs', jobs'[k].at # "done", jobs'[k].id = jobs[j].id PROVE k = j
        <4>1. k \in DOMAIN jobs /\ jobs'[k] = jobs[k]
          BY <1>1, <2>1, <3>1, <3>2 DEF JobComes
        <4> QED BY <3>1, <3>2, <4>1 DEF OneJob
      <3> QED BY <1>1, <3>1, <3>2 DEF OneJob, Exists
    <2>2. CASE j \notin DOMAIN jobs
      <3>1. /\ j = Len(jobs') /\ jobs'[j].id = i /\ jobs'[j].kind = kind /\ jobs'[j].at = "queued"
            /\ JobComes(kind, i)
        BY <1>1, <1>4, <2>2 DEF JobComes
      <3>2. ASSUME NEW k \in DOMAIN jobs', jobs'[k].at # "done", jobs'[k].id = i PROVE k = j
        BY <1>2, <3>1, <3>2 DEF JobComes
      <3>3. storage'[i].status # "none"
        BY <1>1 DEF NamesStay, Exists
      <3> QED BY <1>1, <3>1, <3>2, <3>3 DEF OneJob, Exists
    <2> QED BY <2>1, <2>2
  <1> QED BY <1>1, <1>4, SameOwners DEF OwnInv

-----------------------------------------------------------------------------
(* Storages: unless jobs fail, who is active has a directory.              *)

LEMMA RemovingMoves ==
    ASSUME NEW j \in DOMAIN jobs, NEW step, JobMoves(j, step), NEW i,
           step # "done" \/ jobs[j].kind # "deprovision" \/ jobs[j].id # i
    PROVE  Removing(i) => Removing(i)'
  <1> SUFFICES ASSUME Removing(i) PROVE Removing(i)'
    OBVIOUS
  <1>1. PICK k \in DOMAIN jobs : jobs[k].id = i /\ jobs[k].kind = "deprovision" /\ jobs[k].at # "done"
    BY DEF Removing
  <1>2. /\ k \in DOMAIN jobs' /\ jobs'[k].id = i /\ jobs'[k].kind = "deprovision"
        /\ jobs'[k].at # "done"
    BY <1>1 DEF JobMoves
  <1> QED BY <1>2 DEF Removing

LEMMA RemovingGrows ==
    ASSUME NEW kind, NEW k, JobComes(kind, k), NEW i
    PROVE  Removing(i) => Removing(i)'
BY DEF JobComes, Removing

LEMMA HasDirStays ==
    ASSUME NEW i \in Ids, HasDir(i), storage'[i].name = storage[i].name, storage'[i].type = storage[i].type,
           storage'[i].status # "none" => Exists(i),
           Removing(i) => Removing(i)' \/ ~Exists(i),
           dir[KeyOf(storage[i])].gen # 0 => dir'[KeyOf(storage[i])].gen # 0 \/ Going(i)'
    PROVE  HasDir(i)'
BY DEF HasDir, Going, Exists, KeyOf

\* Steps of jobs that touch no directory.
LEMMA ActiveMoves ==
    ASSUME StorageInv, ActiveInv, NEW j \in DOMAIN jobs, NEW step, JobMoves(j, step), step # "touched",
           dir' = dir, storage' = storage \/ \E s : StatusMoves(jobs[j].id, s),
           step # "done" \/ jobs[j].kind # "deprovision" \/ ~Exists(jobs[j].id),
           storage'[jobs[j].id].status = "active" =>
             \/ storage[jobs[j].id].status = "active"
             \/ jobs[j].at = "touched" /\ jobs[j].kind # "deprovision"
    PROVE  ActiveInv'
  <1>1. NamesStay /\ \A k \in Ids : k # jobs[j].id => storage'[k] = storage[k]
    BY SameNames DEF StatusMoves
  <1>2. ASSUME NEW i \in Ids, HasDir(i) PROVE HasDir(i)'
    <2>1. Removing(i) => Removing(i)' \/ ~Exists(i)
      BY RemovingMoves
    <2>2. /\ storage'[i].name = storage[i].name /\ storage'[i].type = storage[i].type
          /\ storage'[i].status # "none" => Exists(i)
      BY <1>1 DEF NamesStay, Exists
    <2> QED BY <1>2, <2>1, <2>2, HasDirStays
  <1>3. ASSUME NEW i \in Ids, storage'[i].status = "active" PROVE HasDir(i)
    BY <1>1, <1>3 DEF ActiveInv
  <1>4. ASSUME NEW h \in DOMAIN jobs', jobs'[h].at = "touched", jobs'[h].kind # "deprovision"
        PROVE  HasDir(jobs[h].id)'
    <2>1. h # j /\ h \in DOMAIN jobs /\ jobs'[h] = jobs[h]
      BY <1>4 DEF JobMoves
    <2>2. jobs[h].id \in Ids /\ HasDir(jobs[h].id)
      BY <1>4, <2>1, JobsAreShaped DEF ActiveInv
    <2>3. \A i \in Ids : i = jobs[h].id => HasDir(i)'
      BY <1>2, <2>2
    <2> QED BY <2>1, <2>2, <2>3
  <1> QED BY <1>2, <1>3, <1>4 DEF ActiveInv

\* A directory is removed by the job of its only storage.
LEMMA OnlyOwn ==
    ASSUME StorageInv, Apart, Patient => OwnInv, NEW j \in DOMAIN jobs, jobs[j].at # "done", Running(j),
           NEW k \in DirKeys, KeyOf(jobs[j].seen) = k, NEW i \in Ids, Owns(i, k)
    PROVE  i = jobs[j].id
  <1>1. jobs[j].id \in Ids /\ JobKnown(j)
    BY JobsAreShaped
  <1>2. CASE Patient
    <2>1. Exists(jobs[j].id)
      BY <1>2 DEF OwnInv, OneJob
    <2>2. Owns(jobs[j].id, k)
      BY <1>1, <2>1 DEF Owns, JobKnown
    <2> QED BY <1>1, <2>2, OwnerIsOne
  <1>3. CASE ~Patient
    BY <1>1, <1>3 DEF Apart
  <1> QED BY <1>2, <1>3

LEMMA ActiveTouched ==
    ASSUME StorageInv, StorageAssumption, Apart, Patient => OwnInv, ActiveInv,
           NEW j \in DOMAIN jobs, Touch(j)
    PROVE  ActiveInv'
  <1> DEFINE k == KeyOf(jobs[j].seen)
  <1>1. /\ Ready(j) /\ WorkedOn(j, k) /\ JobMoves(j, "touched") /\ storage' = storage
    BY TouchIs
  <1>2. jobs[j].at # "done" /\ Running(j) /\ jobs[j].id \in Ids /\ JobKnown(j)
    BY <1>1, JobsAreShaped DEF Ready, Running, Steps
  <1>3. k \in DirKeys
    BY <1>1 DEF WorkedOn
  <1>4. ASSUME NEW i \in Ids, HasDir(i) PROVE HasDir(i)'
    <2>1. Removing(i) => Removing(i)'
      BY <1>1, RemovingMoves
    <2>2. ASSUME dir[KeyOf(storage[i])].gen # 0, ~Going(i)' PROVE dir'[KeyOf(storage[i])].gen # 0
      <3>1. Exists(i) /\ ~Removing(i)'
        BY <1>1, <2>2 DEF Going, Exists
      <3>2. KeyOf(storage[i]) \in DirKeys
        BY <3>1 DEF StorageInv, NamesKnown, Named, KeyOf, DirKeys
      <3>3. CASE KeyOf(storage[i]) # k
        BY <1>1, <2>2, <3>2, <3>3 DEF WorkedOn
      <3>4. CASE KeyOf(storage[i]) = k /\ jobs[j].kind # "deprovision"
        BY <1>1, <3>4 DEF WorkedOn
      <3>5. CASE KeyOf(storage[i]) = k /\ jobs[j].kind = "deprovision"
        <4>1. Owns(i, k)
          BY <3>1, <3>5 DEF Owns
        <4> HIDE DEF k
        <4>2. i = jobs[j].id
          BY <1>2, <1>3, <4>1, OnlyOwn DEF k
        <4>3. Removing(i)'
          BY <1>1, <3>5, <4>2 DEF Removing, JobMoves
        <4> QED BY <3>1, <4>3
      <3> QED BY <3>3, <3>4, <3>5
    <2> QED BY <1>1, <1>4, <2>1, <2>2, HasDirStays DEF Exists
  <1>5. jobs[j].kind # "deprovision" => \A i \in Ids : i = jobs[j].id => HasDir(i)'
    BY <1>1, <1>2 DEF WorkedOn, HasDir, Going, JobKnown, Exists
  <1>6. ASSUME NEW h \in DOMAIN jobs', jobs'[h].at = "touched", jobs'[h].kind # "deprovision"
        PROVE  HasDir(jobs[h].id)'
    <2>1. CASE h # j
      <3>1. h \in DOMAIN jobs /\ jobs'[h] = jobs[h]
        BY <1>1, <2>1 DEF JobMoves
      <3>2. jobs[h].id \in Ids /\ HasDir(jobs[h].id)
        BY <1>6, <3>1, JobsAreShaped DEF ActiveInv
      <3>3. \A i \in Ids : i = jobs[h].id => HasDir(i)'
        BY <1>4, <3>2
      <3> QED BY <3>1, <3>2, <3>3
    <2>2. CASE h = j
      <3>1. jobs'[j].id = jobs[j].id /\ jobs[j].kind # "deprovision"
        BY <1>1, <1>6, <2>2 DEF JobMoves
      <3> QED BY <1>2, <1>5, <2>2, <3>1
    <2> QED BY <2>1, <2>2
  <1>7. ASSUME NEW i \in Ids, storage'[i].status = "active" PROVE HasDir(i)'
    BY <1>1, <1>4, <1>7 DEF ActiveInv
  <1> QED BY <1>6, <1>7 DEF ActiveInv

LEMMA ActiveRemoved ==
    ASSUME StorageInv, StorageAssumption, ActiveInv, NEW j \in DOMAIN jobs, RemoveRow(j)
    PROVE  ActiveInv'
  <1>1. /\ jobs[j].kind = "deprovision" /\ dir' = dir /\ JobMoves(j, "done")
        /\ storage'[jobs[j].id].status = "none"
        /\ \A k \in Ids : k # jobs[j].id => storage'[k] = storage[k]
    BY RemoveRowIs
  <1>2. ASSUME NEW i \in Ids, HasDir(i) PROVE HasDir(i)'
    <2>1. CASE i = jobs[j].id
      BY <1>1, <2>1 DEF HasDir, Going, Exists
    <2>2. CASE i # jobs[j].id
      <3>1. Removing(i) => Removing(i)'
        BY <1>1, <2>2, RemovingMoves
      <3> QED BY <1>1, <1>2, <2>2, <3>1, HasDirStays DEF Exists
    <2> QED BY <2>1, <2>2
  <1>3. ASSUME NEW h \in DOMAIN jobs', jobs'[h].at = "touched", jobs'[h].kind # "deprovision"
        PROVE  HasDir(jobs[h].id)'
    <2>1. h # j /\ h \in DOMAIN jobs /\ jobs'[h] = jobs[h]
      BY <1>1, <1>3 DEF JobMoves
    <2>2. jobs[h].id \in Ids /\ HasDir(jobs[h].id)
      BY <1>3, <2>1, JobsAreShaped DEF ActiveInv
    <2>3. \A i \in Ids : i = jobs[h].id => HasDir(i)'
      BY <1>2, <2>2
    <2> QED BY <2>1, <2>2, <2>3
  <1>4. ASSUME NEW i \in Ids, storage'[i].status = "active" PROVE HasDir(i)'
    <2>1. storage[i].status = "active"
      BY <1>1, <1>4
    <2> QED BY <1>2, <2>1 DEF ActiveInv
  <1> QED BY <1>3, <1>4 DEF ActiveInv

\* Requests and containers: directories stay, jobs are only added.
LEMMA ActiveGrows ==
    ASSUME StorageInv, ActiveInv,
           \A k \in DirKeys : dir[k].gen # 0 => dir'[k].gen # 0,
           jobs' = jobs \/ \E kind, i : JobComes(kind, i),
           \A i \in used : /\ storage'[i].name = storage[i].name /\ storage'[i].type = storage[i].type
                           /\ storage'[i].status # "none" => Exists(i)
                           /\ storage'[i].status = "active" => storage[i].status = "active",
           \A i \in Ids \ used : storage'[i].status # "active"
    PROVE  ActiveInv'
  <1>1. used \subseteq Ids /\ \A i \in Ids : Exists(i) => KeyOf(storage[i]) \in DirKeys
    BY DEF StorageInv, RowsShaped, NamesKnown, Named, KeyOf, DirKeys
  <1>2. ASSUME NEW i \in used, HasDir(i) PROVE HasDir(i)'
    <2>1. Removing(i) => Removing(i)'
      BY RemovingGrows DEF Removing
    <2>2. CASE Exists(i)
      BY <1>1, <1>2, <2>1, <2>2, HasDirStays
    <2>3. CASE ~Exists(i)
      BY <2>3 DEF HasDir, Going, Exists
    <2> QED BY <2>2, <2>3
  <1>3. ASSUME NEW h \in DOMAIN jobs', jobs'[h].at = "touched", jobs'[h].kind # "deprovision"
        PROVE  HasDir(jobs[h].id)'
    <2>1. h \in DOMAIN jobs /\ jobs'[h] = jobs[h]
      BY <1>3 DEF JobComes
    <2>2. jobs[h].id \in used /\ HasDir(jobs[h].id)
      BY <1>3, <2>1, JobsAreShaped DEF ActiveInv, JobKnown
    <2>3. \A i \in used : i = jobs[h].id => HasDir(i)'
      BY <1>2, <2>2
    <2> QED BY <2>1, <2>2, <2>3
  <1>4. ASSUME NEW i \in Ids, storage'[i].status = "active" PROVE HasDir(i)'
    <2>1. i \in used /\ storage[i].status = "active"
      BY <1>4
    <2> QED BY <1>2, <2>1 DEF ActiveInv
  <1> QED BY <1>3, <1>4 DEF ActiveInv

-----------------------------------------------------------------------------
(* Storages: of volumes, a container sees the directory that is there.     *)

MountFits(m) ==
    /\ Exists(m.id) => KeyOf(storage[m.id]) = m.key
    /\ Going(m.id) \/ dir[m.key].gen = m.gen

LEMMA MountOfInv ==
    ASSUME StorageInv, MountInv, NEW p \in Projects, NEW m \in mounts[p]
    PROVE  /\ MountFits(m) /\ m.id \in Ids /\ m.id \in used /\ m.key \in DirKeys
           /\ m.gen \in Nat \ {0} /\ m.gen <= made[m.key]
  <1>1. m \in MountRecords /\ m.gen <= made[m.key] /\ m.id \in used
    BY DEF StorageInv, RowsShaped, DirsKnown
  <1> QED BY <1>1 DEF MountRecords, MountInv, MountFits

LEMMA MountFitsStill ==
    ASSUME NEW m, MountFits(m),
           storage'[m.id].status # "none" => /\ Exists(m.id) /\ storage'[m.id].name = storage[m.id].name
                                             /\ storage'[m.id].type = storage[m.id].type,
           Removing(m.id) => Removing(m.id)' \/ ~Exists(m.id),
           dir[m.key].gen = m.gen => dir'[m.key].gen = m.gen \/ Removing(m.id)'
    PROVE  MountFits(m)'
BY DEF MountFits, Going, Exists, KeyOf

LEMMA MountMoves ==
    ASSUME StorageInv, MountInv, NEW j \in DOMAIN jobs, NEW step, JobMoves(j, step),
           UNCHANGED <<dir, mounts>>,
           storage' = storage \/ \E s : StatusMoves(jobs[j].id, s),
           step # "done" \/ jobs[j].kind # "deprovision" \/ ~Exists(jobs[j].id)
    PROVE  MountInv'
  <1>1. NamesStay
    BY SameNames DEF StatusMoves
  <1>2. ASSUME NEW p \in Projects, NEW m \in mounts[p] PROVE MountFits(m)'
    <2>1. MountFits(m) /\ m.id \in Ids
      BY MountOfInv
    <2>2. Removing(m.id) => Removing(m.id)' \/ ~Exists(m.id)
      BY RemovingMoves
    <2>3. storage'[m.id].status # "none" => /\ Exists(m.id) /\ storage'[m.id].name = storage[m.id].name
                                            /\ storage'[m.id].type = storage[m.id].type
      BY <1>1, <2>1 DEF NamesStay, Exists
    <2> QED BY <2>1, <2>2, <2>3, MountFitsStill
  <1> QED BY <1>2 DEF MountInv, MountFits

LEMMA MountTouched ==
    ASSUME StorageInv, StorageAssumption, Types \subseteq {"volume"}, MountInv,
           "delete" \notin Forms \/ (Apart /\ (Patient => OwnInv)),
           NEW j \in DOMAIN jobs, Touch(j)
    PROVE  MountInv'
  <1> DEFINE k == KeyOf(jobs[j].seen)
  <1>1. /\ Ready(j) /\ WorkedOn(j, k) /\ JobMoves(j, "touched") /\ storage' = storage /\ mounts' = mounts
    BY TouchIs DEF JobStepFrame
  <1>2. jobs[j].at # "done" /\ Running(j) /\ jobs[j].id \in Ids /\ JobKnown(j)
    BY <1>1, JobsAreShaped DEF Ready, Running, Steps
  <1>3. k \in DirKeys /\ k[1] = "volume"
    BY <1>1 DEF WorkedOn, Named, KeyOf
  <1>4. ASSUME NEW p \in Projects, NEW m \in mounts[p] PROVE MountFits(m)'
    <2>1. MountFits(m) /\ m.id \in Ids /\ m.key \in DirKeys /\ m.gen \in Nat \ {0}
      BY MountOfInv
    <2>2. Removing(m.id) => Removing(m.id)'
      BY <1>1, RemovingMoves
    <2>3. CASE m.key # k
      <3>1. dir'[m.key] = dir[m.key]
        BY <1>1, <2>1, <2>3 DEF WorkedOn
      <3> QED BY <1>1, <2>1, <2>2, <3>1, MountFitsStill DEF Exists
    <2>4. CASE m.key = k /\ jobs[j].kind # "deprovision"
      <3>1. jobs[j].kind \in {"provision", "reset"}
        BY <2>4, JobsAreShaped DEF JobRecords
      <3>2. dir[k].gen = m.gen => dir'[k].gen = m.gen
        BY <1>1, <1>3, <2>1, <3>1 DEF WorkedOn
      <3> QED BY <1>1, <2>1, <2>2, <2>4, <3>2, MountFitsStill DEF Exists
    <2>5. CASE m.key = k /\ jobs[j].kind = "deprovision"
      <3>1. Apart /\ (Patient => OwnInv)
        BY <1>2, <2>5 DEF JobKnown
      <3>2. CASE Exists(m.id)
        <4>1. Owns(m.id, k)
          BY <2>1, <2>5, <3>2 DEF MountFits, Owns
        <4> HIDE DEF k
        <4>2. m.id = jobs[j].id
          BY <1>2, <1>3, <2>1, <3>1, <4>1, OnlyOwn DEF k
        <4>3. Removing(m.id)'
          BY <1>1, <2>5, <4>2 DEF Removing, JobMoves
        <4> QED BY <1>1, <2>1, <4>3, MountFitsStill DEF Exists
      <3>3. CASE ~Exists(m.id)
        BY <1>1, <3>3 DEF MountFits, Going, Exists
      <3> QED BY <3>2, <3>3
    <2> QED BY <2>3, <2>4, <2>5
  <1> QED BY <1>1, <1>4 DEF MountInv, MountFits

LEMMA MountRemoved ==
    ASSUME StorageInv, StorageAssumption, MountInv, NEW j \in DOMAIN jobs, RemoveRow(j)
    PROVE  MountInv'
  <1>1. /\ dir' = dir /\ JobMoves(j, "done") /\ mounts' = mounts
        /\ storage'[jobs[j].id].status = "none"
        /\ \A k \in Ids : k # jobs[j].id => storage'[k] = storage[k]
    BY RemoveRowIs DEF JobStepFrame
  <1>2. ASSUME NEW p \in Projects, NEW m \in mounts[p] PROVE MountFits(m)'
    <2>1. MountFits(m) /\ m.id \in Ids
      BY MountOfInv
    <2>2. CASE m.id = jobs[j].id
      BY <1>1, <2>2 DEF MountFits, Going, Exists
    <2>3. CASE m.id # jobs[j].id
      <3>1. Removing(m.id) => Removing(m.id)'
        BY <1>1, <2>3, RemovingMoves
      <3> QED BY <1>1, <2>1, <2>3, <3>1, MountFitsStill DEF Exists
    <2> QED BY <2>2, <2>3
  <1> QED BY <1>1, <1>2 DEF MountInv, MountFits

\* Requests: jobs are only added, and directories are left alone.
LEMMA MountGrows ==
    ASSUME StorageInv, MountInv, mounts' = mounts,
           \A k \in DirKeys : dir'[k].gen = dir[k].gen,
           jobs' = jobs \/ \E kind, i : JobComes(kind, i),
           \A i \in used : /\ storage'[i].name = storage[i].name /\ storage'[i].type = storage[i].type
                           /\ storage'[i].status # "none" => Exists(i)
    PROVE  MountInv'
  <1>1. ASSUME NEW p \in Projects, NEW m \in mounts[p] PROVE MountFits(m)'
    <2>1. MountFits(m) /\ m.id \in used /\ m.key \in DirKeys
      BY MountOfInv
    <2>2. Removing(m.id) => Removing(m.id)'
      BY RemovingGrows DEF Removing
    <2> QED BY <2>1, <2>2, MountFitsStill
  <1> QED BY <1>1 DEF MountInv, MountFits

LEMMA MountStarts ==
    ASSUME StorageInv, MountInv, NEW p \in Projects, Starts(p)
    PROVE  MountInv'
  <1>1. /\ storage' = storage /\ jobs' = jobs /\ mounts' \in [Projects -> SUBSET MountRecords]
    BY DEF Starts
  <1>2. ASSUME NEW q \in Projects, NEW m \in mounts'[q] PROVE MountFits(m)'
    <2>1. CASE q = p
      <3>1. Owns(m.id, m.key) /\ dir'[m.key].gen = m.gen
        BY <2>1 DEF Starts
      <3> QED BY <1>1, <3>1 DEF MountFits, Owns, Exists
    <2>2. CASE q # p
      <3>1. m \in mounts[q]
        BY <2>2 DEF Starts
      <3>2. MountFits(m) /\ m.key \in DirKeys /\ m.gen # 0
        BY <3>1, MountOfInv
      <3>3. dir[m.key].gen = m.gen => dir'[m.key] = dir[m.key]
        BY <3>2 DEF Starts
      <3>4. Removing(m.id) => Removing(m.id)'
        BY <1>1 DEF Removing
      <3> QED BY <1>1, <3>2, <3>3, <3>4, MountFitsStill DEF Exists
    <2> QED BY <2>1, <2>2
  <1> QED BY <1>2 DEF MountInv, MountFits

-----------------------------------------------------------------------------
(* Storages: the theorems.                                                 *)

\* What a step has to be shown to do, beyond keeping rows, jobs and directories.
Rest ==
    /\ Patient => OwnInv
    /\ Apart /\ JobsSucceed => ActiveInv
    /\ OnlyVolumes => MountInv

LEMMA RestStays ==
    ASSUME Rest, UNCHANGED <<storage, dir, mounts, jobs>>
    PROVE  Rest'
  <1>1. OwnInv => OwnInv'
    BY DEF OwnInv, OneJob, Owns, Exists
  <1>2. ActiveInv => ActiveInv'
    BY DEF ActiveInv, HasDir, Going, Removing, Exists
  <1>3. MountInv => MountInv'
    BY DEF MountInv, Going, Removing, Exists
  <1> QED BY <1>1, <1>2, <1>3 DEF Rest

LEMMA RestOfCreate ==
    ASSUME StorageInv, StorageAssumption, Rest, NEW i \in Ids, NEW n, NEW t, InsertDoes(i, n, t)
    PROVE  Rest'
  <1>1. /\ i \notin used /\ storage'[i].status = "pending" /\ UNCHANGED <<dir, mounts>>
        /\ \A k \in Ids : k # i => storage'[k] = storage[k]
        /\ JobComes("provision", i) \/ jobs' = jobs
    BY DEF InsertDoes
  <1>2. used \subseteq Ids /\ \A k \in Ids : storage'[k].status = "active" => storage[k].status = "active"
    BY <1>1 DEF StorageInv, RowsShaped
  <1>3. \A k \in used : /\ storage'[k].name = storage[k].name /\ storage'[k].type = storage[k].type
                        /\ storage'[k].status # "none" => Exists(k)
                        /\ storage'[k].status = "active" => storage[k].status = "active"
    BY <1>1, <1>2 DEF Exists
  <1>4. \A k \in Ids \ used : storage'[k].status # "active"
    BY <1>1, <1>2 DEF StorageInv, NamesKnown, Exists
  <1>5. OwnInv => OwnInv'
    BY OwnInserts
  <1>6. ActiveInv => ActiveInv'
    BY <1>1, <1>3, <1>4, ActiveGrows
  <1>7. MountInv => MountInv'
    BY <1>1, <1>3, MountGrows
  <1> QED BY <1>5, <1>6, <1>7 DEF Rest

LEMMA RestOfAsk ==
    ASSUME StorageInv, StorageAssumption, Rest, NEW r \in Requests, NEW kind, Asks(r, kind)
    PROVE  Rest'
  <1>1. /\ UNCHANGED <<dir, mounts>> /\ NamesStay
        /\ \A k \in Ids : k # page[r].id => storage'[k] = storage[k]
        /\ page[r].id \in Ids
    BY DEF Asks, StatusMoves
  <1>2. jobs' = jobs \/ \E k, i : JobComes(k, i)
    BY DEF Asks
  <1>3. \A k \in used : /\ storage'[k].name = storage[k].name /\ storage'[k].type = storage[k].type
                        /\ storage'[k].status # "none" => Exists(k)
    BY <1>1 DEF NamesStay, Exists, StorageInv, RowsShaped
  <1>4. ASSUME JobsSucceed PROVE \A k \in Ids : storage'[k].status = "active" => storage[k].status = "active"
    <2>1. ~Fault("refused")
      BY <1>4 DEF JobsSucceed, Fault
    <2>2. StatusMoves(page[r].id, "resetting") \/ storage'[page[r].id].status = "deleted"
      BY <2>1 DEF Asks
    <2> QED BY <1>1, <2>2 DEF StatusMoves
  <1>5. Patient /\ OwnInv => OwnInv'
    BY OwnAsks
  <1>6. ASSUME JobsSucceed, ActiveInv PROVE ActiveInv'
    <2>1. \A k \in Ids \ used : storage'[k].status # "active"
      BY <1>1, <1>4, <1>6 DEF StorageInv, NamesKnown, Exists
    <2>2. \A k \in used : storage'[k].status = "active" => storage[k].status = "active"
      BY <1>4, <1>6 DEF StorageInv, RowsShaped
    <2> QED BY <1>1, <1>2, <1>3, <1>6, <2>1, <2>2, ActiveGrows
  <1>7. MountInv => MountInv'
    BY <1>1, <1>2, <1>3, MountGrows
  <1> QED BY <1>5, <1>6, <1>7 DEF Rest

LEMMA RestOfStart ==
    ASSUME StorageInv, StorageAssumption, Rest, NEW p \in Projects, Starts(p)
    PROVE  Rest'
  <1>1. storage' = storage /\ jobs' = jobs
    BY DEF Starts
  <1>2. \A k \in DirKeys : dir[k].gen # 0 => dir'[k].gen # 0
    BY DEF Starts
  <1>3. \A k \in Ids \ used : storage'[k].status # "active"
    BY <1>1 DEF StorageInv, NamesKnown, Exists
  <1>4. OwnInv => OwnInv'
    BY OwnStarts
  <1>5. ActiveInv => ActiveInv'
    BY <1>1, <1>2, <1>3, ActiveGrows DEF Exists
  <1>6. MountInv => MountInv'
    BY MountStarts
  <1> QED BY <1>4, <1>5, <1>6 DEF Rest

LEMMA RestOfWrite ==
    ASSUME StorageInv, StorageAssumption, Rest, NEW p \in Projects, Write(p)
    PROVE  Rest'
  <1>1. \E k, i : Writes(k, i)
    BY WriteIs
  <1>2. storage' = storage /\ jobs' = jobs /\ mounts' = mounts /\ \A k \in DirKeys : dir'[k].gen = dir[k].gen
    BY <1>1 DEF Writes
  <1>3. \A k \in Ids \ used : storage'[k].status # "active"
    BY <1>2 DEF StorageInv, NamesKnown, Exists
  <1>4. OwnInv => OwnInv'
    BY OwnWrites
  <1>5. ActiveInv => ActiveInv'
    BY <1>2, <1>3, ActiveGrows DEF Exists
  <1>6. MountInv => MountInv'
    BY <1>2, MountGrows DEF Exists
  <1> QED BY <1>4, <1>5, <1>6 DEF Rest

\* Steps of a job that touch no directory.
LEMMA RestOfMove ==
    ASSUME StorageInv, StorageAssumption, Rest, NEW j \in DOMAIN jobs, jobs[j].at # "done",
           NEW step, JobMoves(j, step), step # "touched", UNCHANGED <<dir, mounts>>,
           storage' = storage \/ \E s : StatusMoves(jobs[j].id, s),
           step # "done" => storage' = storage \/ jobs[j].kind # "deprovision",
           JobsSucceed => \/ step # "done" \/ jobs[j].kind # "deprovision" \/ ~Exists(jobs[j].id),
           JobsSucceed /\ storage'[jobs[j].id].status = "active" =>
             \/ storage[jobs[j].id].status = "active"
             \/ jobs[j].at = "touched" /\ jobs[j].kind # "deprovision"
    PROVE  Rest'
  <1>1. OwnInv => OwnInv'
    BY OwnMoves
  <1>2. JobsSucceed /\ ActiveInv => ActiveInv'
    BY ActiveMoves
  <1>3. ASSUME OnlyVolumes, MountInv PROVE MountInv'
    <2>1. step # "done" \/ jobs[j].kind # "deprovision" \/ ~Exists(jobs[j].id)
      BY <1>3, JobsAreShaped DEF OnlyVolumes, JobKnown
    <2> QED BY <1>3, <2>1, MountMoves
  <1> QED BY <1>1, <1>2, <1>3 DEF Rest

LEMMA RestOfTouch ==
    ASSUME StorageInv, StorageAssumption, Rest, NEW j \in DOMAIN jobs, Touch(j)
    PROVE  Rest'
  <1>1. OwnInv => OwnInv'
    BY OwnTouched
  <1>2. Apart /\ JobsSucceed => ActiveInv'
    BY ActiveTouched DEF Rest
  <1>3. OnlyVolumes => MountInv'
    BY MountTouched DEF Rest, OnlyVolumes
  <1> QED BY <1>1, <1>2, <1>3 DEF Rest

LEMMA RestOfJob ==
    ASSUME StorageInv, StorageAssumption, Rest, NEW j \in DOMAIN jobs, Step(j) \/ Fail(j) \/ Crash(j)
    PROVE  Rest' /\ StorageInv'
  <1>1. CASE TakeJob(j)
    <2>1. /\ StorageInv' /\ jobs[j].at = "queued" /\ storage' = storage /\ UNCHANGED <<dir, mounts>>
          /\ JobMoves(j, IF Exists(jobs[j].id) THEN "loaded" ELSE "done")
      BY <1>1, TakeIs DEF JobStepFrame
    <2>2. CASE Exists(jobs[j].id)
      BY <2>1, <2>2, RestOfMove
    <2>3. CASE ~Exists(jobs[j].id)
      BY <2>1, <2>3, RestOfMove
    <2> QED BY <2>1, <2>2, <2>3
  <1>2. CASE Mark(j)
    <2>1. /\ StorageInv' /\ jobs[j].at = "loaded" /\ jobs[j].kind = "reset" /\ UNCHANGED <<dir, mounts>>
          /\ \/ StatusMoves(jobs[j].id, "resetting") /\ JobMoves(j, "marked")
             \/ storage' = storage /\ JobMoves(j, "done")
      BY <1>2, MarkIs DEF JobStepFrame
    <2>2. CASE StatusMoves(jobs[j].id, "resetting") /\ JobMoves(j, "marked")
      <3>1. storage'[jobs[j].id].status = "active" => storage[jobs[j].id].status = "active"
        BY <2>2 DEF StatusMoves
      <3> QED BY <2>1, <2>2, <3>1, RestOfMove
    <2>3. CASE storage' = storage /\ JobMoves(j, "done")
      BY <2>1, <2>3, RestOfMove
    <2> QED BY <2>1, <2>2, <2>3
  <1>3. CASE Touch(j)
    BY <1>3, TouchIs, RestOfTouch
  <1>4. CASE Activate(j)
    <2>1. /\ StorageInv' /\ jobs[j].at = "touched" /\ jobs[j].kind # "deprovision"
          /\ UNCHANGED <<dir, mounts>> /\ JobMoves(j, "done")
          /\ StatusMoves(jobs[j].id, "active") \/ storage' = storage
      BY <1>4, ActivateIs DEF JobStepFrame
    <2> QED BY <2>1, RestOfMove
  <1>5. CASE RemoveRow(j)
    <2>1. StorageInv'
      BY <1>5, RemoveRowIs
    <2> QED BY <1>5, <2>1, OwnRemoved, ActiveRemoved, MountRemoved DEF Rest
  <1>6. CASE Fail(j)
    <2>1. /\ StorageInv' /\ Fault("failed") /\ Ready(j) /\ UNCHANGED <<dir, mounts>> /\ JobMoves(j, "done")
          /\ StatusMoves(jobs[j].id, "active") \/ storage' = storage
      BY <1>6, FailIs DEF JobStepFrame
    <2>2. ~JobsSucceed
      BY <2>1 DEF JobsSucceed, Fault
    <2>3. jobs[j].at # "done"
      BY <2>1 DEF Ready
    <2> QED BY <2>1, <2>2, <2>3, RestOfMove
  <1>7. CASE Crash(j)
    <2>1. /\ StorageInv' /\ Running(j) /\ storage' = storage /\ UNCHANGED <<dir, mounts>>
          /\ JobMoves(j, "queued")
      BY <1>7, CrashIs DEF JobStepFrame
    <2>2. jobs[j].at # "done"
      BY <2>1 DEF Running, Steps
    <2> QED BY <2>1, <2>2, RestOfMove
  <1> QED BY <1>1, <1>2, <1>3, <1>4, <1>5, <1>6, <1>7 DEF Step

LEMMA StoragesStep ==
    ASSUME StorageInv, StorageAssumption, Rest, [StorageNext]_storageVars
    PROVE  StorageInv' /\ Rest'
  <1>1. ASSUME NEW i \in Ids, NEW n \in Names, NEW t \in Types,
               \/ TeamCreates(i, n, t)
               \/ \E p \in Projects, es \in SUBSET Environments : ProjectCreates(p, i, n, t, es)
        PROVE  StorageInv' /\ Rest'
    BY <1>1, CreateKeeps, RestOfCreate
  <1>2. ASSUME NEW r \in Requests, QuietStep(r) PROVE StorageInv' /\ Rest'
    BY <1>2, QuietKeeps, RestStays
  <1>3. ASSUME NEW r \in Requests, Reset(r) \/ Delete(r) PROVE StorageInv' /\ Rest'
    BY <1>3, ResetIs, DeleteIs, RestOfAsk
  <1>4. ASSUME NEW p \in Projects, Write(p) PROVE StorageInv' /\ Rest'
    BY <1>4, WriteIs, RestOfWrite
  <1>5. ASSUME NEW p \in Projects, NEW e \in Environments, StartContainer(p, e) PROVE StorageInv' /\ Rest'
    BY <1>5, StartIs, StartKeeps, RestOfStart
  <1>6. ASSUME NEW j \in DOMAIN jobs, Step(j) \/ Fail(j) \/ Crash(j) PROVE StorageInv' /\ Rest'
    BY <1>6, RestOfJob
  <1>7. CASE UNCHANGED storageVars
    <2>1. StorageInv'
      BY <1>7 DEF storageVars, StorageInv, RowsShaped, NamesKnown, Exists, DirsKnown, LinksKnown,
                  JobKnown, Running, Named
    <2> QED BY <1>7, <2>1, RestStays DEF storageVars
  <1> QED BY <1>1, <1>2, <1>3, <1>4, <1>5, <1>6, <1>7 DEF StorageNext, QuietStep

LEMMA StoragesBegin ==
    ASSUME StorageAssumption, StorageInit
    PROVE  StorageInv /\ Rest
  <1>1. \A i \in Ids : ~Exists(i) /\ storage[i].status = "none"
    BY DEF StorageInit, Exists, NoRow
  <1>2. jobs = <<>> /\ DOMAIN jobs = {} /\ Len(jobs) = 0 /\ jobs \in Seq(JobRecords)
    BY EmptySeq DEF StorageInit
  <1>3. RowsShaped
    BY <1>2 DEF StorageInit, RowsShaped, NoRow, NoDir, NoPage, StorageRows, StorageStatuses
  <1>4. NamesKnown /\ LinksKnown /\ DirsKnown
    BY <1>1 DEF StorageInit, NamesKnown, LinksKnown, DirsKnown, NoDir
  <1>5. StorageInv
    BY <1>2, <1>3, <1>4 DEF StorageInit, StorageInv, StorageAssumption
  <1>6. OwnInv /\ ActiveInv /\ MountInv
    BY <1>1, <1>2 DEF StorageInit, OwnInv, ActiveInv, MountInv, NoDir, StorageAssumption
  <1> QED BY <1>5, <1>6 DEF Rest

\* The invariant the other theorems about storages rest on.
THEOREM StoragesInvariant == StorageAssumption => (StorageSpec => []StoragesInv)
  <1> SUFFICES ASSUME StorageAssumption PROVE StorageSpec => []StoragesInv
    OBVIOUS
  <1>1. StorageInit => StoragesInv
    BY StoragesBegin DEF StoragesInv, Rest
  <1>2. StoragesInv /\ [StorageNext]_storageVars => StoragesInv'
    BY StoragesStep DEF StoragesInv, Rest
  <1> QED BY <1>1, <1>2, PTL DEF StorageSpec

LEMMA StoragesFollow ==
    ASSUME StorageAssumption, StoragesInv
    PROVE  StorageTypeOK /\ StoragesConsistent
  <1>1. StorageInv /\ Rest
    BY DEF StoragesInv, Rest
  <1>2. StorageTypeOK
    <2>1. \A i \in Ids : /\ storage[i].name \in Names \cup {None}
                         /\ storage[i].status \in {"none", "pending", "active", "resetting", "deleted"}
                         /\ Exists(i) => i \in used
      BY <1>1 DEF StorageInv, RowsShaped, NamesKnown, StorageRows, StorageStatuses
    <2>2. \A p \in Projects, i \in Ids :
            /\ links[p][i] = NoLink \/ links[p][i] \subseteq Environments
            /\ Exists(i) \/ links[p][i] = NoLink
      BY <1>1 DEF StorageInv, RowsShaped, LinksKnown
    <2>3. \A k \in DirKeys : dir[k].gen <= made[k] /\ dir[k].data \in Ids \cup {None, "empty"}
      BY <1>1, DirsShaped
    <2>4. /\ deleted \subseteq asked /\ asked \subseteq used
          /\ faults <= MaxFaults /\ Len(jobs) <= MaxJobs
      BY <1>1 DEF StorageInv
    <2> QED BY <2>1, <2>2, <2>3, <2>4 DEF StorageTypeOK
  <1>3. ASSUME Patient PROVE OwnDataOnly
    <2>1. SUFFICES ASSUME NEW i \in Ids, Exists(i) PROVE dir[KeyOf(storage[i])].data \in {i, "empty", None}
      BY DEF OwnDataOnly
    <2> DEFINE k == KeyOf(storage[i])
    <2>2. k \in DirKeys /\ Owns(i, k)
      BY <1>1, <2>1 DEF StorageInv, NamesKnown, Named, KeyOf, DirKeys, Owns
    <2> HIDE DEF k
    <2>3. dir[k].data \in Ids => Owns(dir[k].data, k)
      BY <1>1, <1>3, <2>2 DEF Rest, OwnInv
    <2>4. dir[k].data \in Ids => dir[k].data = i
      BY <1>1, <2>2, <2>3, OwnerIsOne
    <2>5. dir[k].data \in Ids \cup {None, "empty"}
      BY <1>1, <2>2, DirsShaped
    <2> QED BY <2>4, <2>5 DEF k
  <1>4. ActiveInv => ActiveHasDirectory
    BY DEF ActiveInv, ActiveHasDirectory, HasDir, Going, Exists
  <1>5. ASSUME MountInv PROVE MountIsCurrent
    BY <1>5 DEF MountInv, MountIsCurrent, Going, Exists
  <1> QED BY <1>1, <1>2, <1>3, <1>4, <1>5 DEF StoragesConsistent, Rest

\* Whatever the storages, their names and the people: rows, links and directories
\* fit together; of people who wait for the jobs of a storage, a directory holds
\* its own storage's data only; and, unless jobs fail, an active storage has its
\* directory and a container sees the volume that is there.
THEOREM StoragesStayConsistent ==
    StorageAssumption => (StorageSpec => [](StorageTypeOK /\ StoragesConsistent))
  <1> SUFFICES ASSUME StorageAssumption
               PROVE  StorageSpec => [](StorageTypeOK /\ StoragesConsistent)
    OBVIOUS
  <1>1. StorageSpec => []StoragesInv
    BY StoragesInvariant
  <1>2. StoragesInv => StorageTypeOK /\ StoragesConsistent
    BY StoragesFollow
  <1> QED BY <1>1, <1>2, PTL

LEMMA DataStays ==
    ASSUME StorageAssumption, Patient, StorageInv, Rest, [StorageNext]_storageVars
    PROVE  KeepsData
  <1> SUFFICES ASSUME NEW k \in DirKeys, dir[k].data \in Ids \ asked PROVE dir'[k].data = dir[k].data
    BY DEF KeepsData
  <1> DEFINE i == dir[k].data
  <1>1. Owns(i, k) /\ OwnInv /\ dir[k].gen # 0 /\ i \in Ids /\ i \notin asked
    BY DirsShaped DEF Rest, OwnInv, StorageAssumption
  <1>2. dir' = dir => dir'[k].data = dir[k].data
    OBVIOUS
  <1>3. ASSUME NEW p \in Projects, NEW e \in Environments, StartContainer(p, e) PROVE dir'[k].data = i
    BY <1>1, <1>3, StartIs DEF Starts
  <1>4. ASSUME NEW p \in Projects, Write(p) PROVE dir'[k].data = i
    <2>1. PICK m \in mounts[p] : dir[m.key].gen = m.gen /\ Writes(m.key, m.id)
      BY <1>4, WriteIs
    <2>2. Owns(m.id, m.key)
      BY <2>1 DEF Rest, OwnInv
    <2>3. CASE m.key = k
      <3>1. m.id \in Ids /\ dir'[k].data = m.id
        BY <2>1, <2>3 DEF Writes
      <3> HIDE DEF i
      <3>2. m.id = i
        BY <1>1, <2>2, <2>3, <3>1, OwnerIsOne
      <3> QED BY <3>1, <3>2
    <2>4. CASE m.key # k
      BY <2>1, <2>4 DEF Writes
    <2> QED BY <2>3, <2>4
  <1>5. ASSUME NEW j \in DOMAIN jobs, Touch(j) PROVE dir'[k].data = i
    <2>1. Ready(j) /\ WorkedOn(j, KeyOf(jobs[j].seen))
      BY <1>5, TouchIs
    <2>2. jobs[j].at # "done" /\ Running(j) /\ jobs[j].id \in Ids /\ JobKnown(j)
      BY <2>1, JobsAreShaped DEF Ready, Running, Steps
    <2>3. CASE KeyOf(jobs[j].seen) = k
      <3> HIDE DEF i
      <3>1. i = jobs[j].id
        BY <1>1, <2>2, <2>3, OnlyOwn DEF Apart
      <3>2. jobs[j].kind = "provision"
        BY <1>1, <2>2, <3>1 DEF JobKnown
      <3> QED BY <1>1, <2>1, <2>3, <3>2 DEF WorkedOn, i
    <2>4. CASE KeyOf(jobs[j].seen) # k
      BY <2>1, <2>4 DEF WorkedOn
    <2> QED BY <2>3, <2>4
  <1>6. ASSUME NEW n \in Ids, NEW s \in Names, NEW t \in Types,
               \/ TeamCreates(n, s, t)
               \/ \E p \in Projects, es \in SUBSET Environments : ProjectCreates(p, n, s, t, es)
        PROVE  dir' = dir
    BY <1>6 DEF TeamCreates, ProjectCreates, Insert
  <1>7. ASSUME NEW r \in Requests, QuietStep(r) \/ Reset(r) \/ Delete(r) PROVE dir' = dir
    BY <1>7 DEF QuietStep, Stale, Open, Connect, EditLink, Disconnect, Reset, Delete
  <1>8. ASSUME NEW j \in DOMAIN jobs,
               TakeJob(j) \/ Mark(j) \/ Activate(j) \/ RemoveRow(j) \/ Fail(j) \/ Crash(j)
        PROVE  dir' = dir
    BY <1>8 DEF TakeJob, Mark, Activate, RemoveRow, Fail, Crash
  <1>9. CASE UNCHANGED storageVars
    BY <1>9 DEF storageVars
  <1> QED BY <1>2, <1>3, <1>4, <1>5, <1>6, <1>7, <1>8, <1>9 DEF StorageNext, QuietStep, Step

\* Of people who wait, what a container wrote is lost only when its storage was
\* asked to be reset or deleted.
THEOREM DataIsKept ==
    StorageAssumption => (StorageSpec => [][Patient => KeepsData]_storageVars)
  <1> SUFFICES ASSUME StorageAssumption PROVE StorageSpec => [][Patient => KeepsData]_storageVars
    OBVIOUS
  <1>1. CASE Patient
    <2>1. StoragesInv /\ [StorageNext]_storageVars => [Patient => KeepsData]_storageVars
      BY <1>1, DataStays DEF StoragesInv, Rest
    <2> QED BY <2>1, StoragesInvariant, PTL DEF StorageSpec
  <1>2. CASE ~Patient
    <2>1. [Patient => KeepsData]_storageVars
      BY <1>2
    <2> QED BY <2>1, PTL
  <1> QED BY <1>1, <1>2

\* StoragesKept: storages stay consistent, and data is lost when it was asked to.
THEOREM StoragesAreKept == StorageAssumption => (StorageSpec => StoragesKept)
  <1> QED BY StoragesStayConsistent, DataIsKept, PTL DEF StoragesKept
=============================================================================
