---------------------------- MODULE ApiIdempotency ----------------------------
(***************************************************************************)
(* Api::Idempotency::Execute around the mutations of the public API.  A    *)
(* request reads the resource it is about, and then one transaction takes  *)
(* the advisory lock of its key, looks for the key's record, runs the      *)
(* operation and stores the answer.  Some operations (cancel, roll back)   *)
(* insist on the version the request read; others (create, promote) do     *)
(* not.  Requests run concurrently, the operation may raise, and the       *)
(* server may die, or its answer be lost, between any two steps: the       *)
(* client then sends the request again.                                    *)
(***************************************************************************)
EXTENDS Naturals

CONSTANTS
    Keys,           \* Idempotency-Key values of one organization
    Digests,        \* fingerprints: an operation with its payload
    Guarded,        \* the fingerprints of operations that check the version
    Bodies,         \* what an operation may answer
    Requests,       \* server threads
    MaxRequests,    \* bound on requests
    MaxCrashes,     \* bound on crashed requests
    MaxAdvances     \* bound on changes of the resource by others

ApiAssumption ==
    /\ "none" \notin Digests \cup Bodies
    /\ Guarded \subseteq Digests
    /\ MaxRequests \in Nat /\ MaxCrashes \in Nat /\ MaxAdvances \in Nat

ASSUME ApiConstants == ApiAssumption

VARIABLES
    record,     \* idempotency_records
    version,    \* lock_version of the resource
    req,        \* what each thread is doing
    effects,    \* effects[k]: committed executions under key k
    told,       \* told[k]: answers given under key k, but for errors
    received, crashes, advances     \* how much of the bounds is spent

vars == <<record, version, req, effects, told, received, crashes, advances>>
bounds == <<received, crashes, advances>>

NoRecord == [digest |-> "none", result |-> "none"]
Record == [digest : Digests, result : Bodies]
Free == [pc |-> "idle", key |-> "none", digest |-> "none", seen |-> 0, body |-> "none"]

Request == [pc : {"idle", "lock", "find", "yield", "commit"},
            key : Keys \cup {"none"}, digest : Digests \cup {"none"},
            seen : Nat, body : Bodies \cup {"none"}]

IdemTypeOK ==
    /\ record \in [Keys -> Record \cup {NoRecord}]
    /\ version \in Nat
    /\ req \in [Requests -> Request]
    /\ effects \in [Keys -> Nat]
    /\ told \in [Keys -> SUBSET Record]

Init ==
    /\ record = [k \in Keys |-> NoRecord]
    /\ version = 0
    /\ req = [r \in Requests |-> Free]
    /\ effects = [k \in Keys |-> 0]
    /\ told = [k \in Keys |-> {}]
    /\ received = 0 /\ crashes = 0 /\ advances = 0

\* Mutant: the advisory lock is released when the look-up is done.
HoldsKeyToLookUp(r, k) == req[r].key = k /\ req[r].pc = "find"

\* acquire_lock!: held to the end of the transaction.
HoldsKey(r, k) == req[r].key = k /\ req[r].pc \in {"find", "yield", "commit"}

\* Mutant: the lock belongs to the session and is never given back.
KeyFreeOfSession(k) == (\A r \in Requests : ~HoldsKey(r, k)) /\ record[k] = NoRecord

KeyFree(k) == \A r \in Requests : ~HoldsKey(r, k)

\* Mutant: the operation compares the version without locking the row.
RowFreeAlways == TRUE

\* The row of the resource, which an operation locks until it commits.
RowFree == \A r \in Requests : req[r].pc # "commit"

Ends(r) == req' = [req EXCEPT ![r] = Free]
Goto(r, pc) == req' = [req EXCEPT ![r].pc = pc]

\* Mutant: a key is enough, whatever it was used for.
SameRequestAlways(r) == TRUE

SameRequest(r) == record[req[r].key].digest = req[r].digest

\* Mutant: a replay answers with what this execution of the request produced.
TellOwn(r, x) ==
    told' = [told EXCEPT ![req[r].key] =
                 @ \cup {[digest |-> req[r].digest, result |-> req[r].body]}]

Tell(r, x) ==
    told' = [told EXCEPT ![req[r].key] = @ \cup {[digest |-> req[r].digest, result |-> x]}]
-----------------------------------------------------------------------------
\* The controller finds the resource and authorizes; Execute checks the key.
Arrive(r, k, d) ==
    /\ req[r].pc = "idle"
    /\ received < MaxRequests
    /\ received' = received + 1
    /\ req' = [req EXCEPT ![r] = [Free EXCEPT !.pc = "lock", !.key = k, !.digest = d,
                                              !.seen = version]]
    /\ UNCHANGED <<record, version, effects, told, crashes, advances>>

Lock(r) ==
    /\ req[r].pc = "lock"
    /\ KeyFree(req[r].key)
    /\ Goto(r, "find")
    /\ UNCHANGED <<record, version, effects, told, bounds>>

\* A record is replayed, or is in conflict with the request; without one the
\* operation runs.
Find(r) ==
    /\ req[r].pc = "find"
    /\ \/ record[req[r].key] = NoRecord /\ Goto(r, "yield") /\ UNCHANGED told
       \/ /\ record[req[r].key] # NoRecord
          /\ Ends(r)
          /\ IF SameRequest(r) THEN Tell(r, record[req[r].key].result) ELSE UNCHANGED told
    /\ UNCHANGED <<record, version, effects, bounds>>

\* The operation locks the row, compares the version and does its work.
Yield(r, x) ==
    /\ req[r].pc = "yield"
    /\ RowFree
    /\ req[r].digest \in Guarded => req[r].seen = version
    /\ req' = [req EXCEPT ![r].pc = "commit", ![r].body = x]
    /\ UNCHANGED <<record, version, effects, told, bounds>>

\* It raises: the resource has changed since it was read, or it is invalid or
\* not authorized.  Everything is rolled back, and no record is kept.
Raise(r) ==
    /\ req[r].pc = "yield"
    /\ RowFree
    /\ Ends(r)
    /\ UNCHANGED <<record, version, effects, told, bounds>>

\* The record is inserted and the transaction commits with all the operation
\* did; on a record that has come into the table since, the unique index makes
\* it fail.
Commit(r) ==
    /\ req[r].pc = "commit"
    /\ Ends(r)
    /\ LET k == req[r].key IN
       IF record[k] = NoRecord
       THEN /\ record' = [record EXCEPT ![k] = [digest |-> req[r].digest,
                                                result |-> req[r].body]]
            /\ version' = version + 1
            /\ effects' = [effects EXCEPT ![k] = @ + 1]
            /\ Tell(r, req[r].body)
       ELSE UNCHANGED <<record, version, effects, told>>
    /\ UNCHANGED bounds

\* The thread dies; PostgreSQL rolls its transaction back.
Crash(r) ==
    /\ req[r].pc # "idle"
    /\ crashes < MaxCrashes
    /\ crashes' = crashes + 1
    /\ Ends(r)
    /\ UNCHANGED <<record, version, effects, told, received, advances>>

\* A callback or a job moves the resource on, under the lock of its row.
Advance ==
    /\ RowFree
    /\ advances < MaxAdvances
    /\ advances' = advances + 1
    /\ version' = version + 1
    /\ UNCHANGED <<record, req, effects, told, received, crashes>>

Step(r) ==
    \/ Lock(r) \/ Find(r)
    \/ \E x \in Bodies : Yield(r, x)
    \/ Raise(r) \/ Commit(r)

Next ==
    \/ \E r \in Requests : \/ \E k \in Keys, d \in Digests : Arrive(r, k, d)
                           \/ Step(r)
                           \/ Crash(r)
    \/ Advance

Spec == Init /\ [][Next]_vars

\* A thread that can go on does.
Fairness == \A r \in Requests : WF_vars(Step(r))
-----------------------------------------------------------------------------
\* The advisory lock does what it is there for: nobody comes to the insert of
\* a record that is there already, so no request ends with the error of the
\* unique index, which no controller rescues.
InsertIsAlone ==
    \A r \in Requests : req[r].pc = "commit" => record[req[r].key] = NoRecord

\* An operation that insists on a version commits on the one its request read,
\* whatever other keys, callbacks and jobs do meanwhile.
GuardedIsFresh ==
    \A r \in Requests :
        req[r].pc = "commit" /\ req[r].digest \in Guarded => req[r].seen = version

\* Nobody comes to the insert of an idempotency record that is there already,
\* nor commits what insists on a version on another one than its request read
\* (services/api/idempotency/execute.rb).
RequestsSafe == IdemTypeOK /\ InsertIsAlone /\ GuardedIsFresh

\* The records implement at-most-once execution of a key: the first request
\* to commit decides what the key was used for and how every later request
\* with it is answered, also after the resource has moved on; a request that
\* raised or died leaves nothing that would stop the next one.
Contract == INSTANCE ReceiptContract
            WITH Ids <- Keys, Results <- Bodies, outcome <- record

ExecutedOnce == Contract!Spec

\* The inductive invariant: one thread at a time is in the transaction of a key,
\* and one holds the row of the resource.
LocksHeld ==
    /\ \A k \in Keys : \A q, r \in Requests : HoldsKey(q, k) /\ HoldsKey(r, k) => q = r
    /\ \A q, r \in Requests : req[q].pc = "commit" /\ req[r].pc = "commit" => q = r

\* A request has a key and a fingerprint, and an answer once its operation ran;
\* past the look-up its key has no record.
RequestsShaped ==
    \A r \in Requests :
        /\ req[r].pc # "idle" => req[r].key \in Keys /\ req[r].digest \in Digests
        /\ req[r].pc = "commit" => req[r].body \in Bodies
        /\ req[r].pc \in {"yield", "commit"} => record[req[r].key] = NoRecord

\* Nothing was done or answered under a key without a record.
UnusedKeys ==
    \A k \in Keys : record[k] = NoRecord => effects[k] = 0 /\ told[k] = {}

IdemInv ==
    IdemTypeOK /\ LocksHeld /\ RequestsShaped /\ UnusedKeys /\ GuardedIsFresh
=============================================================================
