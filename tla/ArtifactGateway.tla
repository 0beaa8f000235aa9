---------------------------- MODULE ArtifactGateway ----------------------------
(***************************************************************************)
(* services/artifact_gateway: static sites published as objects of a store *)
(* without transactions, one put at a time, and removed by retention, one  *)
(* delete at a time.  One lock covers a request; the process may die, or   *)
(* the store refuse, in the middle of it, and what was done stays done.    *)
(***************************************************************************)
EXTENDS Naturals, FiniteSets

CONSTANTS
  Revisions,
  Index,      \* index.html
  Files,      \* paths in archives, Index among them
  Bodies,     \* their contents
  Archives,   \* archives: functions from paths to contents
  Reconciliations,  \* reconciliation ids
  LastTime,   \* bound of the clock
  MaxBreaks   \* bound: calls the store refuses, and deaths of the process

ArtifactAssumption ==
  /\ Index \in Files
  /\ \A a \in Archives : DOMAIN a \subseteq Files /\ \A f \in DOMAIN a : a[f] \in Bodies
  /\ LastTime \in Nat \ {0} /\ MaxBreaks \in Nat

VARIABLES
  files,      \* the objects under files/ of each revision
  manifest,   \* manifest.json of each revision
  retention,  \* the evidence of each reconciliation
  serving,    \* the request that holds the lock
  clock,
  breaks,
  \* history
  acked,      \* the archive whose publication was answered with success
  nominated,  \* revisions a reconciliation deleted from
  emptied     \* the same, by reconciliation

siteVars == <<files, manifest, retention, serving, clock, breaks, acked, nominated, emptied>>
objects == <<files, manifest, retention>>
history == <<acked, nominated, emptied>>

NoArchive == [f \in {} |-> Index]
NoFile == [body |-> "none", at |-> 0]
NoManifest == [archive |-> NoArchive, at |-> 0]
NoRequest == [candidates |-> {}, retained |-> {}, cutoff |-> 0]
NoRecord == [request |-> NoRequest, deleted |-> {}]
Idle == [kind |-> "idle"]

SitesInit ==
  /\ files = [r \in Revisions |-> [f \in Files |-> NoFile]]
  /\ manifest = [r \in Revisions |-> NoManifest]
  /\ retention = [i \in Reconciliations |-> NoRecord]
  /\ serving = Idle /\ clock = 1 /\ breaks = 0
  /\ acked = [r \in Revisions |-> NoArchive] /\ nominated = {}
  /\ emptied = [i \in Reconciliations |-> {}]

---------------------------------------------------------------------------
(* Publishing                                                              *)

\* _extract: an archive without index.html is refused.
Extract(a) == Index \in DOMAIN a

Published(r, a) == acked' = [acked EXCEPT ![r] = a] /\ UNCHANGED <<nominated, emptied>>

\* Mutant: the manifest announces the files that will follow.
BeginPublishAnnounced(r, a) ==
  /\ serving = Idle /\ Extract(a)
  /\ manifest[r] = NoManifest
  /\ manifest' = [manifest EXCEPT ![r] = [archive |-> a, at |-> clock]]
  /\ serving' = [kind |-> "publish", rev |-> r, archive |-> a, left |-> DOMAIN a]
  /\ UNCHANGED <<files, retention, clock, breaks, history>>

\* publish_static as far as its first put.
BeginPublish(r, a) ==
  /\ serving = Idle /\ Extract(a)
  /\ IF manifest[r] # NoManifest
     THEN /\ UNCHANGED serving
          /\ IF manifest[r].archive = a THEN Published(r, a) ELSE UNCHANGED history
     ELSE /\ serving' = [kind |-> "publish", rev |-> r, archive |-> a, left |-> DOMAIN a]
          /\ UNCHANGED history
  /\ UNCHANGED <<objects, clock, breaks>>

\* Mutant: an object that is there is never put again.
PutAbsent(f) ==
  /\ serving.kind = "publish" /\ f \in serving.left
  /\ IF files[serving.rev][f] = NoFile
     THEN /\ files' = [files EXCEPT ![serving.rev][f] = [body |-> serving.archive[f], at |-> clock]]
          /\ serving' = [serving EXCEPT !.left = @ \ {f}]
     ELSE UNCHANGED files /\ serving' = Idle
  /\ UNCHANGED <<manifest, retention, clock, breaks, history>>

\* _put_immutable: the file is there, another one is there, or it is put.
PutFile(f) ==
  /\ serving.kind = "publish" /\ f \in serving.left
  /\ LET there == files[serving.rev][f] IN
     IF there = NoFile
     THEN /\ files' = [files EXCEPT ![serving.rev][f] = [body |-> serving.archive[f], at |-> clock]]
          /\ serving' = [serving EXCEPT !.left = @ \ {f}]
     ELSE /\ UNCHANGED files
          /\ serving' = IF there.body = serving.archive[f] THEN [serving EXCEPT !.left = @ \ {f}] ELSE Idle
  /\ UNCHANGED <<manifest, retention, clock, breaks, history>>

PutManifest ==
  /\ serving.kind = "publish" /\ serving.left = {}
  /\ manifest' = [manifest EXCEPT ![serving.rev] = [archive |-> serving.archive, at |-> clock]]
  /\ Published(serving.rev, serving.archive) /\ serving' = Idle
  /\ UNCHANGED <<files, retention, clock, breaks>>

---------------------------------------------------------------------------
(* Retention                                                               *)

\* The objects of a revision: its files, and the manifest.
Stored(r) == {f \in Files : files[r][f] # NoFile}
Times(r) == {files[r][f].at : f \in Stored(r)}
            \cup (IF manifest[r] = NoManifest THEN {} ELSE {manifest[r].at})

\* Mutant: the oldest object decides.
ExpiredOldest(r, cutoff) == \E t \in Times(r) : t < cutoff

\* There is something of the revision, all of it older than the cutoff.
Expired(r, cutoff) == Times(r) # {} /\ \A t \in Times(r) : t < cutoff

\* reconcile as far as its first delete.
BeginReconcile(i, q) ==
  /\ serving = Idle /\ q.cutoff <= clock /\ q.retained \cap q.candidates = {}
  /\ retention[i] = NoRecord
  /\ serving' = [kind |-> "reconcile", id |-> i, request |-> q, deleted |-> {},
            left |-> {r \in q.candidates : Expired(r, q.cutoff)}]
  /\ UNCHANGED <<objects, clock, breaks, history>>

\* The objects of a revision go one by one: the manifest comes last in the
\* listing, after its files.
DeleteObject(r) ==
  /\ serving.kind = "reconcile" /\ r \in serving.left
  /\ \/ \E f \in Stored(r) :
          /\ files' = [files EXCEPT ![r][f] = NoFile] /\ UNCHANGED manifest
          /\ serving' = IF Stored(r) = {f} /\ manifest[r] = NoManifest
                   THEN [serving EXCEPT !.left = @ \ {r}, !.deleted = @ \cup {r}] ELSE serving
     \/ /\ Stored(r) = {} /\ UNCHANGED files
        /\ manifest' = [manifest EXCEPT ![r] = NoManifest]
        /\ serving' = [serving EXCEPT !.left = @ \ {r}, !.deleted = @ \cup {r}]
  /\ nominated' = nominated \cup {r}
  /\ emptied' = [emptied EXCEPT ![serving.id] = @ \cup {r}]
  /\ UNCHANGED <<retention, clock, breaks, acked>>

\* Mutant: what was retained is recorded for what was deleted.
RecordRetained ==
  /\ serving.kind = "reconcile" /\ serving.left = {}
  /\ retention' = [retention EXCEPT ![serving.id] =
                     [request |-> serving.request, deleted |-> serving.request.retained]]
  /\ serving' = Idle
  /\ UNCHANGED <<files, manifest, clock, breaks, history>>

Record ==
  /\ serving.kind = "reconcile" /\ serving.left = {}
  /\ retention' = [retention EXCEPT ![serving.id] = [request |-> serving.request, deleted |-> serving.deleted]]
  /\ serving' = Idle
  /\ UNCHANGED <<files, manifest, clock, breaks, history>>

---------------------------------------------------------------------------

\* The store refuses a call, or the process dies: the lock is free again.
Break ==
  /\ serving # Idle /\ breaks < MaxBreaks
  /\ breaks' = breaks + 1 /\ serving' = Idle
  /\ UNCHANGED <<objects, clock, history>>

SitesTick ==
  /\ clock < LastTime /\ clock' = clock + 1
  /\ UNCHANGED <<objects, serving, breaks, history>>

Requests == [candidates : SUBSET Revisions, retained : SUBSET Revisions, cutoff : 1..LastTime]

Serve == (\E f \in Files : PutFile(f)) \/ PutManifest
         \/ (\E r \in Revisions : DeleteObject(r)) \/ Record

SitesNext ==
  \/ \E r \in Revisions, a \in Archives : BeginPublish(r, a)
  \/ \E i \in Reconciliations, q \in Requests : BeginReconcile(i, q)
  \/ Serve \/ Break \/ SitesTick

SitesSpec == SitesInit /\ [][SitesNext]_siteVars

---------------------------------------------------------------------------
(* Properties                                                              *)

\* The variables have their types.
PublishRequests == [kind : {"publish"}, rev : Revisions, archive : Archives, left : SUBSET Files]
ReconcileRequests == [kind : {"reconcile"}, id : Reconciliations, request : Requests,
                      deleted : SUBSET Revisions, left : SUBSET Revisions]

ArtifactTypeOK ==
  /\ files \in [Revisions -> [Files -> [body : Bodies \cup {"none"}, at : 0..LastTime]]]
  /\ manifest \in [Revisions -> [archive : Archives \cup {NoArchive}, at : 0..LastTime]]
  /\ retention \in [Reconciliations -> [request : Requests \cup {NoRequest},
                                        deleted : SUBSET Revisions]]
  /\ serving \in {Idle} \cup PublishRequests \cup ReconcileRequests
  /\ clock \in 1..LastTime /\ breaks \in 0..MaxBreaks
  /\ acked \in [Revisions -> Archives \cup {NoArchive}]
  /\ nominated \subseteq Revisions /\ emptied \in [Reconciliations -> SUBSET Revisions]

\* static_manifest and static_file: what a reader gets of a listed file.
Served(r, f) == files[r][f].body

\* A site that has a manifest is whole, and is the one whose publication was
\* confirmed, however many publications of it broke off before and whatever
\* others were tried; only retention takes from it.
PublishedIsWhole ==
  \A r \in Revisions \ nominated :
    LET a == manifest[r].archive IN
    /\ manifest[r] # NoManifest => \A f \in DOMAIN a : Served(r, f) = a[f]
    /\ acked[r] # NoArchive => a = acked[r]

\* Retention takes a revision only if it was nominated, not retained, and all
\* that is left of it is older than the cutoff.
RecentIsKept ==
  \A r \in Revisions :
    (\E f \in Files : files[r][f] # NoFile /\ files'[r][f] = NoFile)
      \/ (manifest[r] # NoManifest /\ manifest'[r] = NoManifest) =>
    /\ r \in serving.request.candidates \ serving.request.retained
    /\ \A t \in Times(r) : t < serving.request.cutoff

\* The record of a reconciliation names every revision it deleted.
DeletedIsRecorded ==
  \A i \in Reconciliations : retention[i] # NoRecord => emptied[i] \subseteq retention[i].deleted

\* A reconciliation that was begun is not continued with another request.
RequestIsFixed ==
  \A i \in Reconciliations : retention[i] # NoRecord => emptied[i] \subseteq retention[i].request.candidates

\* A site that has a manifest is whole, and as long as no request breaks off the
\* record of a reconciliation names what it deleted (artifact_gateway/artifacts.py).
SitesAreWhole ==
  /\ PublishedIsWhole
  /\ breaks = 0 => DeletedIsRecorded

\* A site stays whole, and what is kept or young is not taken from it.
SitesKept == [](ArtifactTypeOK /\ SitesAreWhole) /\ [][RecentIsKept]_siteVars
---------------------------------------------------------------------------
(* The inductive invariant                                                 *)

Publishes == serving.kind = "publish"
Reconciles == serving.kind = "reconcile"

\* What a manifest lists is stored, as long as retention did not touch it.
ManifestsHold ==
  \A r \in Revisions :
    /\ manifest[r] # NoManifest => manifest[r].archive \in Archives /\ manifest[r].at > 0
    /\ acked[r] # NoArchive => acked[r] \in Archives
    /\ r \notin nominated =>
         /\ manifest[r] # NoManifest =>
              \A f \in DOMAIN manifest[r].archive : files[r][f].body = manifest[r].archive[f]
         /\ acked[r] # NoArchive => manifest[r].archive = acked[r]

\* Objects that are there were put at some time.
PutsAreDated == \A r \in Revisions, f \in Files : files[r][f] # NoFile => files[r][f].at > 0

\* A publication has put the files it does not have left, and has the revision
\* to itself.
PublicationKnown ==
  Publishes =>
    /\ Index \in DOMAIN serving.archive /\ serving.left \subseteq DOMAIN serving.archive
    /\ manifest[serving.rev] = NoManifest
    /\ \A f \in DOMAIN serving.archive \ serving.left :
         files[serving.rev][f].body = serving.archive[f]

\* A reconciliation has revisions left that it may delete, and that are expired
\* as long as anything of them is there.
RetentionKnown ==
  Reconciles =>
    /\ retention[serving.id] = NoRecord
    /\ serving.left \subseteq serving.request.candidates \ serving.request.retained
    /\ serving.deleted \subseteq serving.request.candidates
    /\ \A r \in serving.left : \A t \in Times(r) : t < serving.request.cutoff

\* What was deleted under an id is recorded or is about to be, as long as no
\* reconciliation broke off.
DeletionsKnown ==
  /\ \A i \in Reconciliations : retention[i].deleted \subseteq retention[i].request.candidates
  /\ breaks = 0 => \A i \in Reconciliations :
       emptied[i] \subseteq IF Reconciles /\ serving.id = i
                           THEN serving.deleted \cup serving.left ELSE retention[i].deleted

SitesInv == ArtifactTypeOK /\ ManifestsHold /\ PutsAreDated /\ PublicationKnown
            /\ RetentionKnown /\ DeletionsKnown
================================================================================
