--------------------------- MODULE StorageLifecycle ---------------------------
(***************************************************************************)
(* The storages of a team (src/app): database and volume rows, their links *)
(* to projects, the jobs that provision, reset and remove them, and the    *)
(* directories the containers of the projects mount.                       *)
(*                                                                         *)
(* A directory is found by the type and the name of its storage, not by    *)
(* its id, and the worker runs several jobs at once: what a job loaded may *)
(* be gone, or be another storage, when it touches the directory.          *)
(***************************************************************************)
EXTENDS Naturals, Sequences, FiniteSets

CONSTANTS
  Ids, Names, Types, Projects, Environments, Requests,
  None,
  Forms,        \* the forms that are submitted
  Patient,      \* TRUE: a storage is reset or deleted when none of its jobs is left
  MaxJobs,      \* bound: jobs ever enqueued
  Faults,       \* what may go wrong: "refused" enqueues, "failed" and "killed" jobs
  MaxFaults     \* bound: how often

StorageAssumption ==
  /\ Types \subseteq {"database", "volume"}
  /\ None \notin Ids \cup Names \cup Types /\ None # "empty" /\ "empty" \notin Ids
  /\ Faults \subseteq {"refused", "failed", "killed"}
  /\ Patient \in BOOLEAN /\ MaxJobs \in Nat /\ MaxFaults \in Nat

VARIABLES
  storage,     \* the Storage rows
  used,    \* ids given out
  links,   \* project -> storage -> the environments it mounts it in, or NoLink
  dir,     \* <<type, name>> -> the directory: its generation (0: none), whose data
  made,    \* <<type, name>> -> directories made so far
  mounts,  \* project -> what its running container has mounted
  jobs,    \* the jobs, in the order they were enqueued
  page,    \* request -> the storage whose page it loaded
  asked,   \* storages somebody asked to reset or delete (history)
  deleted, \* storages somebody asked to delete (history)
  faults

storageVars == <<storage, used, links, dir, made, mounts, jobs, page, asked, deleted, faults>>

DirKeys == Types \X Names
NoRow == [name |-> None, type |-> None, status |-> "none"]
NoLink == {None}
NoPage == [id |-> None, status |-> "none"]
NoDir == [gen |-> 0, data |-> None]
Exists(i) == storage[i].status # "none"
KeyOf(r) == <<r.type, r.name>>

StorageInit ==
  /\ storage = [i \in Ids |-> NoRow] /\ used = {}
  /\ links = [p \in Projects |-> [i \in Ids |-> NoLink]]
  /\ dir = [k \in DirKeys |-> NoDir] /\ made = [k \in DirKeys |-> 0]
  /\ mounts = [p \in Projects |-> {}]
  /\ jobs = <<>> /\ page = [r \in Requests |-> NoPage]
  /\ asked = {} /\ deleted = {} /\ faults = 0

---------------------------------------------------------------------------
(* Requests                                                                *)

Job(kind, i) == [kind |-> kind, id |-> i, at |-> "queued", seen |-> NoRow]
EnqueueJob(kind, i) == Len(jobs) < MaxJobs /\ jobs' = Append(jobs, Job(kind, i)) /\ UNCHANGED faults
Fault(kind) == kind \in Faults /\ faults < MaxFaults /\ faults' = faults + 1
\* redis refuses the job: it is logged, the request goes on.
NotQueued == Fault("refused") /\ UNCHANGED jobs

\* Mutant: the name of a deleted storage is free at once.
NameTakenAlive(n) == \E i \in Ids : storage[i].name = n /\ storage[i].status # "deleted"
NameTaken(n) == \E i \in Ids : storage[i].name = n

\* StorageCreateForm and the unique index: a name is free once its row is gone.
Insert(i, n, t) ==
  /\ i \notin used /\ ~NameTaken(n)
  /\ storage' = [storage EXCEPT ![i] = [name |-> n, type |-> t, status |-> "pending"]]
  /\ used' = used \cup {i}
  /\ EnqueueJob("provision", i) \/ NotQueued
  /\ UNCHANGED <<dir, made, mounts, page, asked, deleted>>

TeamCreates(i, n, t) == "create" \in Forms /\ Insert(i, n, t) /\ UNCHANGED links
\* From the page of a project: the row and its link are one transaction.
ProjectCreates(p, i, n, t, es) ==
  /\ "create_storage" \in Forms
  /\ Insert(i, n, t)
  /\ links' = [links EXCEPT ![p][i] = es]

\* get_storage_by_name, or the storages of the project's page.
Open(r, i) ==
  /\ page[r] = NoPage /\ storage[i].status \notin {"none", "deleted"}
  /\ page' = [page EXCEPT ![r] = [id |-> i, status |-> storage[i].status]]
  /\ UNCHANGED <<storage, used, links, dir, made, mounts, jobs, asked, deleted, faults>>

Leave(r) == page' = [page EXCEPT ![r] = NoPage]
\* The UPDATE of a row that is gone fails, and the request with it.
Stale(r) ==
  /\ page[r] # NoPage /\ ~Exists(page[r].id) /\ Leave(r)
  /\ UNCHANGED <<storage, used, links, dir, made, mounts, jobs, asked, deleted, faults>>

Waited(i) == Patient => \A j \in DOMAIN jobs : jobs[j].id = i => jobs[j].at = "done"
\* An UPDATE names the columns whose value differs from the one loaded.
Written(i, loaded, status) ==
  [storage EXCEPT ![i].status = IF loaded = status THEN @ ELSE status]

\* Without the job the status goes back to active.
Reset(r) ==
  LET i == page[r].id IN
  /\ "reset" \in Forms /\ i # None /\ Exists(i) /\ Waited(i) /\ Leave(r)
  /\ asked' = asked \cup {i}
  /\ \/ EnqueueJob("reset", i) /\ storage' = Written(i, page[r].status, "resetting")
     \/ NotQueued /\ storage' = [storage EXCEPT ![i].status = "active"]
  /\ UNCHANGED <<used, links, dir, made, mounts, deleted>>

Delete(r) ==
  LET i == page[r].id IN
  /\ "delete" \in Forms /\ i # None /\ Exists(i) /\ Waited(i) /\ Leave(r)
  /\ storage' = [storage EXCEPT ![i].status = "deleted"]
  /\ asked' = asked \cup {i} /\ deleted' = deleted \cup {i}
  /\ EnqueueJob("deprovision", i) \/ NotQueued
  /\ UNCHANGED <<used, links, dir, made, mounts>>

\* StorageProjectForm offers what is not connected; when another request has
\* connected it meanwhile, the environments of the link are replaced.
Connect(r, p, es) ==
  LET i == page[r].id IN
  /\ "connect" \in Forms /\ i # None /\ Exists(i) /\ Leave(r)
  /\ links' = [links EXCEPT ![p][i] = es]
  /\ UNCHANGED <<storage, used, dir, made, mounts, jobs, asked, deleted, faults>>

EditLink(r, p, es) ==
  LET i == page[r].id IN
  /\ "connect" \in Forms /\ i # None /\ links[p][i] # NoLink /\ Leave(r)
  /\ links' = [links EXCEPT ![p][i] = es]
  /\ UNCHANGED <<storage, used, dir, made, mounts, jobs, asked, deleted, faults>>

Disconnect(r, p) ==
  LET i == page[r].id IN
  /\ "disconnect" \in Forms /\ i # None /\ links[p][i] # NoLink /\ Leave(r)
  /\ links' = [links EXCEPT ![p][i] = NoLink]
  /\ UNCHANGED <<storage, used, dir, made, mounts, jobs, asked, deleted, faults>>

---------------------------------------------------------------------------
(* Containers                                                              *)

Mounted(p, e) ==
  {i \in Ids : /\ links[p][i] # NoLink /\ (links[p][i] = {} \/ e \in links[p][i])
               /\ storage[i].status \in {"active", "resetting"}}

\* Docker makes the missing source of a bind mount.
MakeMissing(ks) ==
  LET missing == {k \in ks : dir[k].gen = 0} IN
  /\ dir' = [k \in DirKeys |-> IF k \in missing THEN [gen |-> made[k] + 1, data |-> "empty"] ELSE dir[k]]
  /\ made' = [k \in DirKeys |-> IF k \in missing THEN made[k] + 1 ELSE made[k]]

StartContainer(p, e) ==
  LET storages == Mounted(p, e) IN
  /\ MakeMissing({KeyOf(storage[i]) : i \in storages})
  /\ mounts' = [mounts EXCEPT ![p] =
       {[key |-> KeyOf(storage[i]), gen |-> dir'[KeyOf(storage[i])].gen, id |-> i] : i \in storages}]
  /\ UNCHANGED <<storage, used, links, jobs, page, asked, deleted, faults>>

\* A container writes through its mount: the directory it was started with.
Write(p) ==
  \E m \in mounts[p] :
    /\ dir[m.key].gen = m.gen /\ dir' = [dir EXCEPT ![m.key].data = m.id]
    /\ UNCHANGED <<storage, used, links, made, mounts, jobs, page, asked, deleted, faults>>

---------------------------------------------------------------------------
(* Jobs                                                                    *)

Steps == {"queued", "loaded", "marked", "touched"}
Running(j) == jobs[j].at \in Steps \ {"queued"}
JobAt(j, step) == jobs' = [jobs EXCEPT ![j].at = step]

\* Mutant: only the job of a storage that was deleted has something to do.
TakeDeletedJob(j) ==
  /\ jobs[j].at = "queued"
  /\ jobs' = [jobs EXCEPT ![j].at = IF storage[jobs[j].id].status = "deleted" THEN "loaded" ELSE "done",
                          ![j].seen = storage[jobs[j].id]]
  /\ UNCHANGED <<storage, used, links, dir, made, mounts, page, asked, deleted, faults>>

\* The job of a storage that is gone has nothing to do.
TakeJob(j) ==
  LET i == jobs[j].id IN
  /\ jobs[j].at = "queued"
  /\ jobs' = [jobs EXCEPT ![j].at = IF Exists(i) THEN "loaded" ELSE "done", ![j].seen = storage[i]]
  /\ UNCHANGED <<storage, used, links, dir, made, mounts, page, asked, deleted, faults>>

Commit(j, status) == storage' = Written(jobs[j].id, jobs[j].seen.status, status)

\* reset_storage marks the row first; a row that is gone fails the job.
Mark(j) ==
  LET i == jobs[j].id IN
  /\ jobs[j].at = "loaded" /\ jobs[j].kind = "reset"
  /\ IF Exists(i)
     THEN /\ Commit(j, "resetting")
          /\ jobs' = [jobs EXCEPT ![j].at = "marked", ![j].seen.status = "resetting"]
     ELSE JobAt(j, "done") /\ UNCHANGED storage
  /\ UNCHANGED <<used, links, dir, made, mounts, page, asked, deleted, faults>>

Fresh(k) == /\ dir' = [dir EXCEPT ![k] = [gen |-> made[k] + 1, data |-> "empty"]]
            /\ made' = [made EXCEPT ![k] = @ + 1]
Keep == UNCHANGED <<dir, made>>

Ensure(k) == IF dir[k].gen = 0 THEN Fresh(k) ELSE Keep
RemoveDir(k) == dir' = [dir EXCEPT ![k] = NoDir] /\ UNCHANGED made
\* Mutant: the directory of a database is not made again.
ResetGone(k) == RemoveDir(k)
\* Mutant: a volume is removed and made again, as a database is.
ResetAnew(k) == Fresh(k)
\* A database directory is removed and made again, a volume is emptied.
ResetDir(k) ==
  IF k[1] = "database" \/ dir[k].gen = 0 THEN Fresh(k)
  ELSE dir' = [dir EXCEPT ![k].data = "empty"] /\ UNCHANGED made

Work(j) ==
  LET k == KeyOf(jobs[j].seen) IN
  CASE jobs[j].kind = "provision" -> Ensure(k)
    [] jobs[j].kind = "reset" -> ResetDir(k)
    [] jobs[j].kind = "deprovision" -> RemoveDir(k)

Ready(j) == jobs[j].at = IF jobs[j].kind = "reset" THEN "marked" ELSE "loaded"
Touch(j) ==
  /\ Ready(j) /\ Work(j) /\ JobAt(j, "touched")
  /\ UNCHANGED <<storage, used, links, mounts, page, asked, deleted, faults>>

Activate(j) ==
  LET i == jobs[j].id IN
  /\ jobs[j].at = "touched" /\ jobs[j].kind \in {"provision", "reset"} /\ JobAt(j, "done")
  /\ IF Exists(i) THEN Commit(j, "active") ELSE UNCHANGED storage
  /\ UNCHANGED <<used, links, dir, made, mounts, page, asked, deleted, faults>>

\* Mutant: the links stay.
RemoveRowOnly(j) ==
  LET i == jobs[j].id IN
  /\ jobs[j].at = "touched" /\ jobs[j].kind = "deprovision" /\ JobAt(j, "done")
  /\ storage' = [storage EXCEPT ![i] = NoRow]
  /\ UNCHANGED <<used, links, dir, made, mounts, page, asked, deleted, faults>>
RemoveRow(j) ==
  LET i == jobs[j].id IN
  /\ jobs[j].at = "touched" /\ jobs[j].kind = "deprovision" /\ JobAt(j, "done")
  /\ storage' = [storage EXCEPT ![i] = NoRow]
  /\ links' = [p \in Projects |-> [links[p] EXCEPT ![i] = NoLink]]
  /\ UNCHANGED <<used, dir, made, mounts, page, asked, deleted, faults>>

\* The work on the directory raises: the error is recorded, nothing tries again,
\* and a storage that was being reset is active.
Fail(j) ==
  LET i == jobs[j].id IN
  /\ Ready(j) /\ Fault("failed") /\ JobAt(j, "done")
  /\ storage' = IF Exists(i) /\ jobs[j].kind = "reset" THEN [storage EXCEPT ![i].status = "active"] ELSE storage
  /\ UNCHANGED <<used, links, dir, made, mounts, page, asked, deleted>>

\* The worker dies: arq runs the job again.
Crash(j) ==
  /\ Running(j) /\ Fault("killed") /\ JobAt(j, "queued")
  /\ UNCHANGED <<storage, used, links, dir, made, mounts, page, asked, deleted>>

---------------------------------------------------------------------------
Step(j) == TakeJob(j) \/ Mark(j) \/ Touch(j) \/ Activate(j) \/ RemoveRow(j)

StorageNext ==
  \/ \E i \in Ids, n \in Names, t \in Types :
       \/ TeamCreates(i, n, t)
       \/ \E p \in Projects, es \in SUBSET Environments : ProjectCreates(p, i, n, t, es)
  \/ \E r \in Requests :
       \/ Stale(r) \/ Reset(r) \/ Delete(r)
       \/ \E i \in Ids : Open(r, i)
       \/ \E p \in Projects :
            \/ Disconnect(r, p)
            \/ \E es \in SUBSET Environments : Connect(r, p, es) \/ EditLink(r, p, es)
  \/ \E p \in Projects : Write(p) \/ \E e \in Environments : StartContainer(p, e)
  \/ \E j \in DOMAIN jobs : Step(j) \/ Fail(j) \/ Crash(j)

StorageSpec == StorageInit /\ [][StorageNext]_storageVars
\* The worker goes on running the jobs of its queue.
StorageFairness == \A j \in 1..MaxJobs : WF_storageVars(j \in DOMAIN jobs /\ Step(j))

---------------------------------------------------------------------------
(* Properties                                                              *)

StorageTypeOK ==
  /\ \A i \in Ids : /\ storage[i].name \in Names \cup {None}
                    /\ storage[i].status \in {"none", "pending", "active", "resetting", "deleted"}
                    /\ Exists(i) => i \in used
  /\ \A p \in Projects, i \in Ids :
       /\ links[p][i] = NoLink \/ links[p][i] \subseteq Environments
       /\ Exists(i) \/ links[p][i] = NoLink
  /\ \A k \in DirKeys : dir[k].gen <= made[k] /\ dir[k].data \in Ids \cup {None, "empty"}
  /\ deleted \subseteq asked /\ asked \subseteq used
  /\ faults <= MaxFaults /\ Len(jobs) <= MaxJobs

\* The directory of a storage never holds what was written through another
\* one: a name is reserved until the directory of its last owner is removed.
OwnDataOnly ==
  \A i \in Ids : Exists(i) => dir[KeyOf(storage[i])].data \in {i, "empty", None}

Removing(i) == \E j \in DOMAIN jobs : jobs[j].id = i /\ jobs[j].kind = "deprovision"
                                       /\ jobs[j].at # "done"

\* provision_storage and reset_storage say "active" of a storage after they
\* made its directory: unless it is being removed, it is there.
ActiveHasDirectory ==
  \A i \in Ids : storage[i].status = "active" /\ ~Removing(i) => dir[KeyOf(storage[i])].gen # 0

\* A running container sees the directory of an active storage it mounts,
\* not one that was removed under it.
MountIsCurrent ==
  \A p \in Projects : \A m \in mounts[p] :
    storage[m.id].status = "active" /\ ~Removing(m.id) => dir[m.key].gen = m.gen

\* What a container wrote is lost only when its storage was asked to be
\* reset or deleted.
KeepsData == \A k \in DirKeys : dir[k].data \in Ids \ asked => dir'[k].data = dir[k].data

\* "Storage deleted.": a storage that was deleted does not come back.
DeletedStaysDeleted ==
  [][\A i \in Ids : storage[i].status = "deleted" => storage'[i].status \in {"deleted", "none"}]_storageVars

\* What holds of which storages: of people who wait for their jobs, that nobody
\* sees the data of somebody else; and unless jobs fail, of storages whose jobs do not mix (people
\* wait, or there is one storage), that an active storage has its directory and,
\* of volumes, that containers see it.
Apart == Patient \/ \A i, k \in Ids : i = k
JobsSucceed == Faults \subseteq {"killed"}
OnlyVolumes == Types \subseteq {"volume"} /\ ("delete" \notin Forms \/ (Apart /\ JobsSucceed))
StoragesConsistent ==
  /\ Patient => OwnDataOnly
  /\ Apart /\ JobsSucceed => ActiveHasDirectory
  /\ OnlyVolumes => MountIsCurrent

\* ... at every moment, where rows and directories fit together whatever happens;
\* and of people who wait for their jobs, what a container wrote is lost only when
\* its storage was asked to be reset or deleted.
StoragesKept == [](StorageTypeOK /\ StoragesConsistent) /\ [][Patient => KeepsData]_storageVars

---------------------------------------------------------------------------
(* What the properties rest on                                             *)

StorageStatuses == {"none", "pending", "active", "resetting", "deleted"}
StorageRows == [name : Names \cup {None}, type : Types \cup {None}, status : StorageStatuses]
JobRecords == [kind : {"provision", "reset", "deprovision"}, id : Ids,
               at : Steps \cup {"done"}, seen : StorageRows]
MountRecords == [key : DirKeys, gen : Nat \ {0}, id : Ids]

RowsShaped ==
  /\ storage \in [Ids -> StorageRows] /\ used \subseteq Ids
  /\ links \in [Projects -> [Ids -> (SUBSET Environments) \cup {NoLink}]]
  /\ dir \in [DirKeys -> [gen : Nat, data : Ids \cup {None, "empty"}]]
  /\ made \in [DirKeys -> Nat] /\ mounts \in [Projects -> SUBSET MountRecords]
  /\ jobs \in Seq(JobRecords)
  /\ page \in [Requests -> [id : Ids \cup {None}, status : StorageStatuses]]
  /\ faults \in Nat

\* A storage has a name of its own and a type.
Named(x) == x.name \in Names /\ x.type \in Types
NamesKnown ==
  \A i \in Ids : Exists(i) =>
    /\ Named(storage[i]) /\ i \in used
    /\ \A k \in Ids : Exists(k) /\ storage[k].name = storage[i].name => k = i

\* A directory that is not there holds nothing, and a mount is of one that was.
DirsKnown ==
  /\ \A k \in DirKeys : /\ dir[k].gen <= made[k]
                        /\ dir[k].gen = 0 => dir[k].data = None
  /\ \A p \in Projects : \A m \in mounts[p] : m.gen <= made[m.key] /\ m.id \in used

\* A job that runs has seen the name of its storage, which does not change.
JobKnown(j) ==
  LET i == jobs[j].id IN
  /\ i \in used
  /\ jobs[j].kind # "provision" => i \in asked
  /\ jobs[j].kind = "deprovision" => "delete" \in Forms
  /\ Running(j) => /\ Named(jobs[j].seen)
                   /\ Exists(i) => KeyOf(jobs[j].seen) = KeyOf(storage[i])

LinksKnown == \A p \in Projects, i \in Ids : Exists(i) \/ links[p][i] = NoLink

StorageInv ==
  /\ RowsShaped /\ NamesKnown /\ DirsKnown /\ LinksKnown
  /\ \A j \in DOMAIN jobs : JobKnown(j)
  /\ deleted \subseteq asked /\ asked \subseteq used
  /\ faults <= MaxFaults /\ Len(jobs) <= MaxJobs

\* While people wait, a storage has one job at a time, what it works on is there,
\* and what is removed was deleted and is not made again.
OneJob(j) ==
  /\ \A k \in DOMAIN jobs : jobs[k].at # "done" /\ jobs[k].id = jobs[j].id => k = j
  /\ Exists(jobs[j].id)
  /\ jobs[j].kind = "deprovision" => storage[jobs[j].id].status = "deleted"
  /\ jobs[j].kind = "deprovision" /\ jobs[j].at = "touched" => dir[KeyOf(jobs[j].seen)].gen = 0

\* The owner of a directory: who wrote to it, and who may.
Owns(i, k) == Exists(i) /\ KeyOf(storage[i]) = k

OwnInv ==
  /\ \A j \in DOMAIN jobs : jobs[j].at # "done" => OneJob(j)
  /\ \A k \in DirKeys : dir[k].data \in Ids => Owns(dir[k].data, k)
  /\ \A p \in Projects : \A m \in mounts[p] : dir[m.key].gen = m.gen => Owns(m.id, m.key)

\* Unless jobs fail: a storage that is active, or is about to be, has its directory.
Going(i) == ~Exists(i) \/ Removing(i)
HasDir(i) == Going(i) \/ dir[KeyOf(storage[i])].gen # 0
ActiveInv ==
  /\ \A i \in Ids : storage[i].status = "active" => HasDir(i)
  /\ \A j \in DOMAIN jobs :
       jobs[j].at = "touched" /\ jobs[j].kind # "deprovision" => HasDir(jobs[j].id)

\* Of volumes: a mount is of the directory that is there.
MountInv ==
  \A p \in Projects : \A m \in mounts[p] :
    /\ Exists(m.id) => KeyOf(storage[m.id]) = m.key
    /\ Going(m.id) \/ dir[m.key].gen = m.gen

\* All of it, each part of those it holds of.
StoragesInv ==
  /\ StorageInv
  /\ Patient => OwnInv
  /\ Apart /\ JobsSucceed => ActiveInv
  /\ OnlyVolumes => MountInv
=============================================================================
