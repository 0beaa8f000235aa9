------------------------------ MODULE RowLocks ------------------------------
(***************************************************************************)
(* The locks that the control plane's transactions take on one alias and   *)
(* the deployments it routes to, and the order they take them in.  The     *)
(* module ControlPlane makes a service call one step because its locks     *)
(* protect it; here a call is the sequence of its lock requests, and what  *)
(* it read without a lock may have changed when it goes on.                *)
(*                                                                         *)
(* A transaction reads what is committed, shows its writes when it commits *)
(* and releases its locks then or when it fails.  The advisory locks of    *)
(* outbox keys are left out: two calls that publish one key hold another   *)
(* lock in common.  Both controllers name the alias after the revision's   *)
(* environment, so a deployment is routed to by one alias only.            *)
(***************************************************************************)
EXTENDS Naturals, FiniteSets

CONSTANTS
    Txs,            \* database connections, each in one call at a time
    Ready,          \* deployments with a ready revision at first
    Building,       \* Git deployments of which the build runs at first
    Ops,            \* the calls that happen
    MaxVersion      \* bound on the alias's lock_version

RowLocksAssumption ==
    /\ Ready \cap Building = {}
    /\ "none" \notin Ready \cup Building
    /\ Ops \subseteq {"promote", "rollback", "cancel", "build_event", "cancel_complete"}
    /\ MaxVersion \in Nat /\ IsFiniteSet(Txs)

ASSUME LocksConstants == RowLocksAssumption

VARIABLES
    alias,      \* the committed row; version 0 is the first save
    dep,        \* committed deployments; version counts from the initial state
    build,      \* committed builds
    outbox,     \* what was published for each version of the alias
    holds,      \* the locks of each transaction
    tx          \* where each transaction is and what it has read

lockVars == <<alias, dep, build, outbox, holds, tx>>

Deployments == Ready \cup Building
Versions == 0..(MaxVersion + Cardinality(Txs))
DepStatuses == {"building", "scanning", "ready", "promoted", "superseded", "canceling",
                "canceled", "failed"}
Routes == [current : Deployments \cup {"none"}, previous : Deployments \cup {"none"},
           version : Versions]
Unsaved == [current |-> "none", previous |-> "none", version |-> 0]

\* The errors a call can end with; "ok" covers the results the callers expect.
Results == {"ok", "not_ready", "changed", "in_use", "stale", "conflict", "not_unique",
            "deadlock"}

\* at: the lock a transaction asks for next, or "commit".
Idle(result) == [op |-> "none", at |-> "none", id |-> "none", version |-> 0,
                 old |-> "none", route |-> Unsaved, result |-> result]

Transactions == [op : Ops \cup {"none"},
                 at : {"none", "expected", "advisory", "alias", "deployment", "old", "build",
                       "commit"},
                 id : Deployments \cup {"none"}, version : Nat,
                 old : Deployments \cup {"none"}, route : Routes, result : Results]

LocksTypeOK ==
    /\ alias \in Routes
    /\ dep \in [Deployments -> [status : DepStatuses, version : Nat]]
    /\ build \in [Building -> {"running", "succeeded", "failed", "canceled"}]
    /\ outbox \in [Versions -> Routes]
    /\ tx \in [Txs -> Transactions]

LocksInit ==
    /\ alias = Unsaved
    /\ dep = [d \in Deployments |->
                [status |-> IF d \in Ready THEN "ready" ELSE "building", version |-> 0]]
    /\ build = [d \in Building |-> "running"]
    /\ outbox = [v \in Versions |-> Unsaved]
    /\ holds = [t \in Txs |-> {}]
    /\ tx = [t \in Txs |-> Idle("ok")]
-----------------------------------------------------------------------------
Wanted(t) ==
    CASE tx[t].at = "advisory"               -> <<"advisory", "none">>
      [] tx[t].at \in {"expected", "alias"}  -> <<"alias", "none">>
      [] tx[t].at = "deployment"             -> <<"deployment", tx[t].id>>
      [] tx[t].at = "old"                    -> <<"deployment", tx[t].old>>
      [] tx[t].at = "build"                  -> <<"build", tx[t].id>>
      [] OTHER                               -> <<"nothing", "none">>

Holders(l) == {t \in Txs : l \in holds[t]}
Waits(t) == Holders(Wanted(t)) \ {t} # {}

Goes(t, r) == tx' = [tx EXCEPT ![t] = r]

\* The transaction is granted the lock and goes on as r.
Proceeds(t, r) ==
    /\ ~Waits(t)
    /\ holds' = [holds EXCEPT ![t] = @ \cup {Wanted(t)}]
    /\ Goes(t, r)
    /\ UNCHANGED <<alias, dep, build, outbox>>

\* The transaction ends: its locks are gone.
Finishes(t, result) ==
    /\ Goes(t, Idle(result))
    /\ holds' = [holds EXCEPT ![t] = {}]

\* One that asked for a lock, saw what it protects and raises.
Raises(t, result) ==
    /\ ~Waits(t)
    /\ Finishes(t, result)
    /\ UNCHANGED <<alias, dep, build, outbox>>

Begins(t, op, at, d, v) ==
    /\ op \in Ops
    /\ tx[t].op = "none"
    /\ Goes(t, [Idle("ok") EXCEPT !.op = op, !.at = at, !.id = d, !.version = v])
    /\ UNCHANGED <<alias, dep, build, outbox, holds>>

Asks(t, op, at) == tx[t].op \in op /\ tx[t].at = at
Promoting == {"promote", "rollback"}
Saved == alias.current # "none"
-----------------------------------------------------------------------------
\* Mutant: the transaction starts at the alias, without the advisory lock.
AskPromoteUnlocked(t, d) ==
    /\ alias.version < MaxVersion
    /\ Begins(t, "promote", IF Saved THEN "alias" ELSE "deployment", d, 0)

AskPromote(t, d) ==
    /\ alias.version < MaxVersion
    /\ Begins(t, "promote", "advisory", d, 0)

\* Rollback is given the version that the page or the look-up of the alias saw.
AskRollback(t) ==
    /\ alias.version < MaxVersion
    /\ alias.previous # "none"
    /\ Begins(t, "rollback", "expected", alias.previous, alias.version)

\* Mutant: a rollback that lost waits for the version it was asked for.
RollbackWaits(t) ==
    /\ Asks(t, {"rollback"}, "expected")
    /\ alias.version = tx[t].version
    /\ Proceeds(t, [tx[t] EXCEPT !.at = "advisory"])

\* Rollback.call locks the row before it compares (StaleAlias); the previous
\* revision it was given is the alias's still when the version is.
RollbackChecks(t) ==
    /\ Asks(t, {"rollback"}, "expected")
    /\ IF alias.version = tx[t].version
       THEN Proceeds(t, [tx[t] EXCEPT !.at = "advisory"])
       ELSE Raises(t, "changed")

\* lock_alias!, then find_or_initialize_by: a new alias has no row to lock.
TakeAdvisory(t) ==
    /\ Asks(t, Promoting, "advisory")
    /\ Proceeds(t, [tx[t] EXCEPT !.at = IF Saved THEN "alias" ELSE "deployment"])

\* alias_record.lock! reads the row again.
TakeAlias(t) ==
    /\ Asks(t, Promoting, "alias")
    /\ Proceeds(t, [tx[t] EXCEPT !.at = "deployment", !.route = alias])

Promotable(d) == d \in Ready /\ dep[d].status \in {"ready", "promoted", "superseded"}

Repointed(r, d) ==
    [current |-> d, previous |-> r.current,
     version |-> IF r.current = "none" THEN 0 ELSE r.version + 1]

\* deployment.lock! and the checks; then the alias is repointed and the
\* deployment that loses it is looked at, without its lock.
TakeTarget(t) ==
    LET d == tx[t].id
        old == tx[t].route.current
        moved == [tx[t] EXCEPT !.at = "commit", !.route = Repointed(@, d)] IN
    /\ Asks(t, Promoting, "deployment")
    /\ IF ~Promotable(d) THEN Raises(t, "not_ready")
       ELSE IF old = d THEN Proceeds(t, [tx[t] EXCEPT !.at = "commit"])
       ELSE IF old = "none" \/ dep[old].status # "promoted" THEN Proceeds(t, moved)
       ELSE Proceeds(t, [moved EXCEPT !.at = "old", !.old = old, !.version = dep[old].version])

\* supersede_deployment!: Transition locks and raises StaleTransition.
TakeOld(t) ==
    /\ Asks(t, Promoting, "old")
    /\ IF dep[tx[t].old].version = tx[t].version
       THEN Proceeds(t, [tx[t] EXCEPT !.at = "commit"])
       ELSE Raises(t, "stale")

Moved(r, s) == [status |-> s, version |-> r.version + 1]

\* Mutant: the key of the routing command leaves the alias's version out.
PublishKeyOfAlias(route) == 0

\* The part of the idempotency key that changes.
PublishKey(route) == route.version

\* save! of a row that is there already or has moved on, and the Conflict of
\* OutboxEvents::Publish.
SaveError(route) ==
    IF route.version = 0 /\ Saved /\ alias # route THEN "not_unique"
    ELSE IF alias.version > route.version THEN "stale"
    ELSE IF outbox[PublishKey(route)] \notin {Unsaved, route} THEN "conflict"
    ELSE "ok"

CommitPromotion(t) ==
    LET route == tx[t].route  d == tx[t].id IN
    /\ Asks(t, Promoting, "commit")
    /\ IF SaveError(route) # "ok" THEN Raises(t, SaveError(route))
       ELSE /\ alias' = route
            /\ dep' = [e \in Deployments |->
                         IF e = d /\ dep[e].status # "promoted" THEN Moved(dep[e], "promoted")
                         ELSE IF e = tx[t].old THEN Moved(dep[e], "superseded")
                         ELSE dep[e]]
            /\ outbox' = [outbox EXCEPT ![PublishKey(route)] = route]
            /\ Finishes(t, "ok")
            /\ UNCHANGED build
-----------------------------------------------------------------------------
\* The controller looks the deployment up for its version.
AskCancel(t, d) ==
    /\ dep[d].status \in {"building", "scanning", "ready", "promoted", "superseded"}
    /\ Begins(t, "cancel", "deployment", d, dep[d].version)

\* Mutant: the checks are made without the lock.
CancelChecksUnlocked(t) ==
    /\ Asks(t, {"cancel"}, "deployment")
    /\ IF alias.current # tx[t].id /\ dep[tx[t].id].version = tx[t].version
       THEN /\ Goes(t, [tx[t] EXCEPT !.at = "commit"])
            /\ UNCHANGED <<alias, dep, build, outbox, holds>>
       ELSE Raises(t, "in_use")

\* Cancel: lock!, serving_alias?, the version.
CancelChecks(t) ==
    /\ Asks(t, {"cancel"}, "deployment")
    /\ IF alias.current # tx[t].id /\ dep[tx[t].id].version = tx[t].version
       THEN Proceeds(t, [tx[t] EXCEPT !.at = "commit"])
       ELSE Raises(t, "in_use")

CommitCancel(t) ==
    /\ Asks(t, {"cancel"}, "commit")
    /\ dep' = [dep EXCEPT ![tx[t].id] = Moved(@, "canceling")]
    /\ Finishes(t, "ok")
    /\ UNCHANGED <<alias, build, outbox>>

\* A result of the build, which quotes the version of the build's start.
AskBuildEvent(t, d) == Begins(t, "build_event", "deployment", d, 0)

\* Mutant: the event is applied to whatever version the deployment is at.
EventAlwaysApplies(t) == TRUE

EventApplies(t) == dep[tx[t].id].version = tx[t].version

\* BuildEvents::Consume locks the deployment, Builds::Complete and Fail the
\* build.
EventLocks(t) ==
    /\ Asks(t, {"build_event"}, "deployment")
    /\ IF EventApplies(t)
       THEN Proceeds(t, [tx[t] EXCEPT !.at = "build"])
       ELSE Raises(t, "ok")

\* Builds::Complete and Fail, which save the build and move the deployment.
CommitEvent(t) ==
    LET d == tx[t].id IN
    /\ Asks(t, {"build_event"}, "build")
    /\ ~Waits(t)
    /\ IF build[d] = "running"
       THEN \E s \in {"succeeded", "failed"} :
              /\ build' = [build EXCEPT ![d] = s]
              /\ dep' = [dep EXCEPT ![d] = Moved(@, IF s = "failed" THEN s ELSE "scanning")]
       ELSE UNCHANGED <<build, dep>>
    /\ Finishes(t, "ok")
    /\ UNCHANGED <<alias, outbox>>

\* BuildCancellations::Complete looks at the deployment without a lock.
AskCancelComplete(t, d) ==
    /\ dep[d].status = "canceling"
    /\ Begins(t, "cancel_complete", "build", d, dep[d].version)

\* Builds::Cancel locks the build, and Transition the deployment after it.
CompleteLocks(t) ==
    LET d == tx[t].id IN
    /\ Asks(t, {"cancel_complete"}, "build")
    /\ IF build[d] = "running" /\ dep[d].status = "canceling"
       THEN Proceeds(t, [tx[t] EXCEPT !.at = "deployment", !.version = dep[d].version])
       ELSE Raises(t, "ok")

CommitComplete(t) ==
    LET d == tx[t].id IN
    /\ Asks(t, {"cancel_complete"}, "deployment")
    /\ IF dep[d].version # tx[t].version THEN Raises(t, "stale")
       ELSE /\ ~Waits(t)
            /\ build' = [build EXCEPT ![d] = "canceled"]
            /\ dep' = [dep EXCEPT ![d] = Moved(@, "canceled")]
            /\ Finishes(t, "ok")
            /\ UNCHANGED <<alias, outbox>>
-----------------------------------------------------------------------------
\* Transactions that wait for each other in a circle.
Deadlocked(S) ==
    S # {} /\ \A t \in S : tx[t].op # "none" /\ Waits(t) /\ Holders(Wanted(t)) \cap S # {}

\* PostgreSQL raises in one of them.
DeadlockDetected(t) ==
    /\ \E S \in SUBSET Txs : t \in S /\ Deadlocked(S)
    /\ Finishes(t, "deadlock")
    /\ UNCHANGED <<alias, dep, build, outbox>>

Ask(t) ==
    \/ \E d \in Ready : AskPromote(t, d)
    \/ AskRollback(t)
    \/ \E d \in Deployments : AskCancel(t, d)
    \/ \E d \in Building : AskBuildEvent(t, d) \/ AskCancelComplete(t, d)

TxStep(t) ==
    \/ RollbackChecks(t) \/ TakeAdvisory(t) \/ TakeAlias(t) \/ TakeTarget(t)
    \/ TakeOld(t) \/ CommitPromotion(t)
    \/ CancelChecks(t) \/ CommitCancel(t)
    \/ EventLocks(t) \/ CommitEvent(t)
    \/ CompleteLocks(t) \/ CommitComplete(t)

LocksNext == \E t \in Txs : Ask(t) \/ TxStep(t) \/ DeadlockDetected(t)

LocksSpec == LocksInit /\ [][LocksNext]_lockVars
-----------------------------------------------------------------------------
(***************************************************************************)
(* Properties.                                                             *)
(***************************************************************************)
\* No transactions wait for each other in a circle, although the build's
\* callbacks lock the deployment before the build and the completion of a
\* cancellation the build before the deployment.  With rollbacks, which lock
\* the alias's row before its advisory lock, they do.
NoDeadlock == \A S \in SUBSET Txs : ~Deadlocked(S)

\* The environment URL leads to a promoted deployment, and the one before it
\* is not promoted any more, whatever promotions and cancellations meet.
ServedIsPromoted ==
    Saved => /\ dep[alias.current].status = "promoted"
             /\ \A d \in Deployments \ {alias.current} : dep[d].status # "promoted"

\* A call never fails for a reason its caller has no answer to: a deployment
\* that moved after the unlocked look at it, an alias saved twice, or a routing
\* command already published with other data.
OnlyExpectedErrors ==
    \A t \in Txs : tx[t].result \notin {"stale", "conflict", "not_unique"}

\* However promotions, cancellations and callbacks of a build overlap, they do
\* not wait for each other in a circle, the environment URL leads to the one
\* promoted deployment, and no call fails for a reason its caller has no answer
\* to (services/aliases, services/deployments, services/builds).
TransactionsSafe ==
    /\ LocksTypeOK
    /\ "rollback" \notin Ops => NoDeadlock
    /\ ServedIsPromoted
    /\ OnlyExpectedErrors

\* The inductive invariant.  A lock has one holder, and what a transaction
\* holds follows from where it is.
Locks == {<<"advisory", "none">>, <<"alias", "none">>}
         \cup {<<"deployment", d>> : d \in Deployments} \cup {<<"build", d>> : d \in Building}

HasTarget(t, d) ==
    \/ tx[t].op \in Promoting /\ tx[t].at \in {"old", "commit"} /\ d = tx[t].id
    \/ tx[t].op \in Promoting /\ tx[t].at = "commit" /\ d = tx[t].old
    \/ tx[t].op = "cancel" /\ tx[t].at = "commit" /\ d = tx[t].id
    \/ tx[t].op = "build_event" /\ tx[t].at = "build" /\ d = tx[t].id

InPromotion(t) ==
    tx[t].op \in Promoting /\ tx[t].at \in {"alias", "deployment", "old", "commit"}

HasBuild(t, d) == tx[t].op = "cancel_complete" /\ tx[t].at = "deployment" /\ d = tx[t].id

LocksKnown(t) ==
    /\ <<"advisory", "none">> \in holds[t] <=> InPromotion(t)
    /\ <<"alias", "none">> \in holds[t] =>
         InPromotion(t) \/ (tx[t].op = "rollback" /\ tx[t].at = "advisory")
    /\ \A d \in Deployments : <<"deployment", d>> \in holds[t] <=> HasTarget(t, d)
    /\ \A d \in Building : <<"build", d>> \in holds[t] <=> HasBuild(t, d)

HoldsKnown ==
    /\ holds \in [Txs -> SUBSET Locks]
    /\ \A q, r \in Txs : \A l \in holds[q] \cap holds[r] : q = r
    /\ \A t \in Txs : LocksKnown(t)

Cancelable == {"building", "scanning", "ready", "promoted", "superseded"}

\* What a promotion read and wrote while it has the advisory lock is still so.
PromotionFits(t) ==
    LET x == tx[t] IN
    /\ x.id \in Ready
    /\ x.at \in {"expected", "advisory", "alias", "deployment", "old", "commit"}
    /\ x.at = "expected" => x.op = "rollback"
    /\ x.at \in {"expected", "advisory", "alias"} => x.route = Unsaved /\ x.old = "none"
    /\ x.at = "deployment" => x.route = alias /\ x.old = "none"
    /\ x.at \in {"old", "commit"} =>
         \/ x.at = "commit" /\ alias.current = x.id /\ x.route = alias /\ x.old = "none"
         \/ alias.current # x.id /\ x.old = alias.current /\ x.route = Repointed(alias, x.id)
    /\ x.at = "old" => Saved /\ x.version = dep[x.old].version

\* A cancellation quotes a version at which the deployment could be canceled; a
\* deployment it has checked is not served.
CancelFits(t) ==
    LET x == tx[t]  d == dep[x.id] IN
    /\ x.at \in {"deployment", "commit"}
    /\ x.version =< d.version
    /\ x.version = d.version => d.status \in Cancelable
    /\ x.at = "commit" => x.version = d.version /\ alias.current # x.id

\* The callbacks of a build keep apart by the state of the deployment: the
\* result goes on at its first version, the completion while it is canceling.
CallbackFits(t) ==
    LET x == tx[t]  d == dep[x.id] IN
    /\ x.id \in Building
    /\ x.at \in {"deployment", "build"}
    /\ x.op = "build_event" => x.version = 0 /\ (x.at = "build" => d.version = 0)
    /\ x.op = "cancel_complete" /\ x.at = "deployment" =>
         d.status = "canceling" /\ x.version = d.version

StepKnown(t) ==
    /\ tx[t].op = "none" => tx[t].at = "none"
    /\ tx[t].op # "none" => tx[t].id \in Deployments
    /\ tx[t].op \in Promoting => PromotionFits(t)
    /\ tx[t].op = "cancel" => CancelFits(t)
    /\ tx[t].op \in {"build_event", "cancel_complete"} => CallbackFits(t)

StepsKnown == \A t \in Txs : StepKnown(t)

\* The alias routes to images, and the commands are those of its versions.
AliasFits ==
    /\ {alias.current, alias.previous} \subseteq Ready \cup {"none"}
    /\ ~Saved => alias = Unsaved /\ \A d \in Deployments : dep[d].status # "promoted"
    /\ Saved => outbox[alias.version] = alias
    /\ \A v \in Versions : v > alias.version \/ ~Saved => outbox[v] = Unsaved
    /\ \A d \in Deployments :
         dep[d].version = 0 => dep[d].status = IF d \in Ready THEN "ready" ELSE "building"

\* A promotion that has begun can count the version up.
InFlight == {t \in Txs : tx[t].op \in Promoting}
VersionsLeft == alias.version + Cardinality(InFlight) =< MaxVersion + Cardinality(Txs)

LocksInv ==
    /\ LocksTypeOK /\ HoldsKnown /\ StepsKnown /\ AliasFits /\ VersionsLeft
    /\ ServedIsPromoted /\ OnlyExpectedErrors
=============================================================================
