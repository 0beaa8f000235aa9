----------------------------- MODULE RailsProofs -----------------------------
(***************************************************************************)
(* Proofs about the ways the control plane serializes its requests.        *)
(*                                                                         *)
(* RowLocks, for any number of connections and deployments: transactions   *)
(* do not wait for each other in a circle as long as nobody rolls back,    *)
(* the environment URL leads to the one promoted deployment, and what a    *)
(* transaction read without a lock is still so when it matters.  The       *)
(* invariant LocksInv says of each transaction what it holds and what of   *)
(* the records cannot have changed at the step it is at.  A step either    *)
(* begins a call, grants it a lock, ends it without a change, or commits:  *)
(* the first sections show the invariant for these four, the actions are   *)
(* then cases of them.                                                     *)
(*                                                                         *)
(* ApiIdempotency, for any sets of keys, fingerprints, answers and server  *)
(* threads: the advisory lock and the row lock keep the invariant, and     *)
(* with it the records implement ReceiptContract.                          *)
(*                                                                         *)
(* AccountAccess, for any sets of users, links and server threads: what a  *)
(* thread read of the election or of its key before it took its lock is    *)
(* read again under it, so that one owner is elected and a key opens at    *)
(* most one session.                                                       *)
(*                                                                         *)
(* RequestLimiter, for any budgets, window, addresses and server threads:  *)
(* under its two advisory locks what a request counted is still so when it *)
(* records its attempt (CountStands).                                      *)
(***************************************************************************)
EXTENDS RowLocks, ApiIdempotency, AccountAccess, RequestLimiter, FiniteSetTheorems,
        SequenceTheorems, TLAPS

-----------------------------------------------------------------------------
(***************************************************************************)
(* Locks.                                                                  *)
(***************************************************************************)
\* The locks are apart.
LEMMA LockNames ==
    ASSUME NEW d, NEW e
    PROVE  /\ <<"deployment", d>> # <<"advisory", "none">>
           /\ <<"deployment", d>> # <<"alias", "none">>
           /\ <<"deployment", d>> # <<"build", e>>
           /\ <<"build", e>> # <<"advisory", "none">>
           /\ <<"build", e>> # <<"alias", "none">>
           /\ <<"advisory", "none">> # <<"alias", "none">>
           /\ <<"deployment", d>> = <<"deployment", e>> => d = e
           /\ <<"build", d>> = <<"build", e>> => d = e
OBVIOUS

\* A lock that is granted has had no other holder.
LEMMA GrantIsExclusive ==
    ASSUME HoldsKnown, NEW t \in Txs, NEW l \in Locks, Holders(l) \ {t} = {},
           holds' = [holds EXCEPT ![t] = @ \cup {l}]
    PROVE  /\ holds' \in [Txs -> SUBSET Locks]
           /\ \A q, r \in Txs : \A k \in holds'[q] \cap holds'[r] : q = r
  <1>1. holds \in [Txs -> SUBSET Locks]
    BY DEF HoldsKnown
  <1>2. holds' \in [Txs -> SUBSET Locks]
    BY <1>1
  <1>3. \A u \in Txs : u # t => l \notin holds[u]
    BY DEF Holders
  <1>4. ASSUME NEW q \in Txs, NEW r \in Txs, NEW k \in holds'[q] \cap holds'[r]
        PROVE  q = r
    <2>1. CASE k \in holds[q] \cap holds[r]
      BY <2>1 DEF HoldsKnown
    <2>2. CASE k \notin holds[q]
      <3>1. q = t /\ k = l
        BY <1>1, <1>4, <2>2
      <3>2. r = t
        BY <1>1, <1>3, <1>4, <3>1
      <3> QED BY <3>1, <3>2
    <2>3. CASE k \notin holds[r]
      <3>1. r = t /\ k = l
        BY <1>1, <1>4, <2>3
      <3>2. q = t
        BY <1>1, <1>3, <1>4, <3>1
      <3> QED BY <3>1, <3>2
    <2> QED BY <2>1, <2>2, <2>3
  <1> QED BY <1>2, <1>4

\* A transaction that ends gives its locks back.
LEMMA ReleaseIsExclusive ==
    ASSUME HoldsKnown, NEW t \in Txs, holds' = [holds EXCEPT ![t] = {}]
    PROVE  /\ holds' \in [Txs -> SUBSET Locks]
           /\ \A q, r \in Txs : \A k \in holds'[q] \cap holds'[r] : q = r
BY DEF HoldsKnown

\* What another transaction is at and holds is not touched.
LEMMA OthersLocks ==
    ASSUME HoldsKnown, NEW t \in Txs, NEW u \in Txs, u # t,
           tx'[u] = tx[u], holds'[u] = holds[u]
    PROVE  LocksKnown(u)'
  <1>1. LocksKnown(u)
    BY DEF HoldsKnown
  <1>2. /\ InPromotion(u)' <=> InPromotion(u)
        /\ \A d : HasTarget(u, d)' <=> HasTarget(u, d)
        /\ \A d : HasBuild(u, d)' <=> HasBuild(u, d)
    BY DEF InPromotion, HasTarget, HasBuild
  <1> QED BY <1>1, <1>2 DEF LocksKnown

\* What another transaction relies on is still so when nothing was committed.
LEMMA OthersStep ==
    ASSUME StepsKnown, NEW t \in Txs, NEW u \in Txs, u # t, tx'[u] = tx[u],
           UNCHANGED <<alias, dep, build, outbox>>
    PROVE  StepKnown(u)'
BY DEF StepsKnown, StepKnown, PromotionFits, CancelFits, CallbackFits, Saved, Repointed

\* The records' own part of the invariant when nothing was committed.
LEMMA RecordsKeep ==
    ASSUME LocksInv, UNCHANGED <<alias, dep, build, outbox>>
    PROVE  /\ alias' \in Routes
           /\ (dep \in [Deployments -> [status : DepStatuses, version : Nat]])'
           /\ (build \in [Building -> {"running", "succeeded", "failed", "canceled"}])'
           /\ (outbox \in [Versions -> Routes])'
           /\ AliasFits' /\ ServedIsPromoted'
BY DEF LocksInv, LocksTypeOK, AliasFits, ServedIsPromoted, Saved
(***************************************************************************)
(* Versions: as many are left as there are promotions in flight.           *)
(***************************************************************************)
LEMMA InFlightCounts ==
    /\ IsFiniteSet(InFlight)
    /\ Cardinality(InFlight) \in Nat
    /\ Cardinality(Txs) \in Nat
    /\ Cardinality(InFlight) =< Cardinality(Txs)
  <1>1. IsFiniteSet(Txs)
    BY LocksConstants DEF RowLocksAssumption
  <1>2. InFlight \subseteq Txs
    BY DEF InFlight
  <1> QED BY <1>1, <1>2, FS_Subset, FS_CardinalityType

\* Fewer promotions in flight need no more versions.
LEMMA VersionsKeep ==
    ASSUME VersionsLeft, alias' = alias, InFlight' \subseteq InFlight, alias.version \in Nat
    PROVE  VersionsLeft'
  <1>1. Cardinality(InFlight') =< Cardinality(InFlight) /\ Cardinality(InFlight') \in Nat
    BY InFlightCounts, FS_Subset, FS_CardinalityType
  <1>2. MaxVersion \in Nat
    BY LocksConstants DEF RowLocksAssumption
  <1> QED BY <1>1, <1>2, InFlightCounts DEF VersionsLeft

\* The next version of the alias is one that the constants allow for.
LEMMA NextVersion ==
    ASSUME LocksInv, NEW t \in Txs, tx[t].op \in Promoting
    PROVE  alias.version \in Nat /\ alias.version \in Versions /\ alias.version + 1 \in Versions
  <1>1. t \in InFlight
    BY DEF InFlight
  <1>2. Cardinality(InFlight) # 0
    BY <1>1, InFlightCounts, FS_EmptySet
  <1>3. alias.version \in Nat /\ alias.version \in Versions
    BY DEF LocksInv, LocksTypeOK, Routes, Versions
  <1>4. MaxVersion \in Nat
    BY LocksConstants DEF RowLocksAssumption
  <1>5. alias.version + Cardinality(InFlight) =< MaxVersion + Cardinality(Txs)
    BY DEF LocksInv, VersionsLeft
  <1> QED BY <1>2, <1>3, <1>4, <1>5, InFlightCounts DEF Versions

-----------------------------------------------------------------------------
(***************************************************************************)
(* The kinds of steps.                                                     *)
(***************************************************************************)
\* A transaction asks for a lock, gets it and goes on as r.
LEMMA Grant ==
    ASSUME LocksInv, NEW t \in Txs, NEW r \in Transactions, Proceeds(t, r),
           Wanted(t) \in Locks, r.op = tx[t].op, r.result = tx[t].result,
           LocksKnown(t)', StepKnown(t)'
    PROVE  LocksInv'
  <1>1. /\ tx \in [Txs -> Transactions]
        /\ tx' = [tx EXCEPT ![t] = r]
        /\ UNCHANGED <<alias, dep, build, outbox>>
        /\ holds \in [Txs -> SUBSET Locks]
        /\ holds' = [holds EXCEPT ![t] = @ \cup {Wanted(t)}]
    BY DEF LocksInv, LocksTypeOK, HoldsKnown, Proceeds, Goes
  <1>2. \A u \in Txs : u # t => tx'[u] = tx[u] /\ holds'[u] = holds[u]
    BY <1>1
  <1>3. LocksTypeOK'
    BY <1>1, RecordsKeep DEF LocksTypeOK
  <1>4. Holders(Wanted(t)) \ {t} = {}
    BY DEF Proceeds, Waits
  <1>5. HoldsKnown'
    BY <1>1, <1>2, <1>4, GrantIsExclusive, OthersLocks DEF LocksInv, HoldsKnown
  <1>6. StepsKnown'
    BY <1>1, <1>2, OthersStep DEF LocksInv, StepsKnown
  <1>7. VersionsLeft'
    <2>1. InFlight' \subseteq InFlight
      BY <1>1 DEF InFlight
    <2>2. alias.version \in Nat
      BY DEF LocksInv, LocksTypeOK, Routes, Versions
    <2> QED BY <1>1, <2>1, <2>2, VersionsKeep DEF LocksInv
  <1>8. OnlyExpectedErrors'
    BY <1>1 DEF LocksInv, OnlyExpectedErrors
  <1> QED BY <1>1, <1>3, <1>5, <1>6, <1>7, <1>8, RecordsKeep DEF LocksInv

\* The record of a transaction that has ended.
LEMMA IdleIsTransaction ==
    ASSUME NEW result \in Results
    PROVE  Idle(result) \in Transactions
  <1>1. Unsaved \in Routes
    <2>1. 0 \in Versions
      BY InFlightCounts, LocksConstants DEF Versions, RowLocksAssumption
    <2> QED BY <2>1 DEF Unsaved, Routes
  <1> QED BY <1>1 DEF Idle, Transactions

\* What an ended transaction is at, and that it holds nothing.
LEMMA IdleFits ==
    ASSUME NEW t \in Txs, NEW result, tx'[t] = Idle(result), holds'[t] = {}
    PROVE  LocksKnown(t)' /\ StepKnown(t)'
BY DEF LocksKnown, StepKnown, Idle, InPromotion, HasTarget, HasBuild, Promoting

\* A transaction ends, whether it committed or not.
LEMMA Ended ==
    ASSUME LocksInv, NEW t \in Txs, NEW result, Finishes(t, result),
           result \in Results \ {"stale", "conflict", "not_unique"}
    PROVE  /\ tx' \in [Txs -> Transactions]
           /\ \A u \in Txs : u # t => tx'[u] = tx[u]
           /\ HoldsKnown' /\ StepKnown(t)' /\ OnlyExpectedErrors'
           /\ InFlight' = InFlight \ {t}
  <1>1. /\ tx \in [Txs -> Transactions]
        /\ tx' = [tx EXCEPT ![t] = Idle(result)]
        /\ holds \in [Txs -> SUBSET Locks]
        /\ holds' = [holds EXCEPT ![t] = {}]
    BY DEF LocksInv, LocksTypeOK, HoldsKnown, Finishes, Goes
  <1>2. \A u \in Txs : u # t => tx'[u] = tx[u] /\ holds'[u] = holds[u]
    BY <1>1
  <1>3. tx'[t] = Idle(result) /\ holds'[t] = {}
    BY <1>1
  <1>4. tx' \in [Txs -> Transactions]
    BY <1>1, IdleIsTransaction
  <1>5. HoldsKnown'
    BY <1>1, <1>2, <1>3, ReleaseIsExclusive, OthersLocks, IdleFits DEF LocksInv, HoldsKnown
  <1>6. StepKnown(t)'
    BY <1>3, IdleFits
  <1>7. OnlyExpectedErrors'
    BY <1>1 DEF LocksInv, OnlyExpectedErrors, Idle
  <1>8. InFlight' = InFlight \ {t}
    BY <1>2, <1>3 DEF InFlight, Idle, Promoting
  <1> QED BY <1>2, <1>4, <1>5, <1>6, <1>7, <1>8

\* A transaction ends without having changed a record.
LEMMA Release ==
    ASSUME LocksInv, NEW t \in Txs, NEW result, Finishes(t, result),
           result \in Results \ {"stale", "conflict", "not_unique"},
           UNCHANGED <<alias, dep, build, outbox>>
    PROVE  LocksInv'
  <1>1. LocksTypeOK'
    BY Ended, RecordsKeep DEF LocksTypeOK
  <1>2. StepsKnown'
    BY Ended, OthersStep DEF LocksInv, StepsKnown
  <1>3. VersionsLeft'
    <2>1. alias.version \in Nat /\ InFlight' \subseteq InFlight
      BY Ended DEF LocksInv, LocksTypeOK, Routes, Versions
    <2> QED BY <2>1, VersionsKeep DEF LocksInv
  <1> QED BY <1>1, <1>2, <1>3, Ended, RecordsKeep DEF LocksInv

\* A call begins; it holds nothing yet.
LEMMA Begin ==
    ASSUME LocksInv, NEW t \in Txs, NEW op, NEW at, NEW d \in Deployments, NEW v \in Nat,
           Begins(t, op, at, d, v),
           \/ op = "promote" /\ at = "advisory"
           \/ op = "rollback" /\ at = "expected"
           \/ op \in {"cancel", "build_event"} /\ at = "deployment"
           \/ op = "cancel_complete" /\ at = "build",
           op \in Promoting => alias.version < MaxVersion,
           StepKnown(t)'
    PROVE  LocksInv'
  <1> DEFINE r == [Idle("ok") EXCEPT !.op = op, !.at = at, !.id = d, !.version = v]
  <1>1. /\ tx \in [Txs -> Transactions]
        /\ tx' = [tx EXCEPT ![t] = r]
        /\ op \in Ops /\ tx[t].op = "none"
        /\ UNCHANGED <<alias, dep, build, outbox, holds>>
    BY DEF LocksInv, LocksTypeOK, Begins, Goes
  <1>2. \A u \in Txs : u # t => tx'[u] = tx[u]
    BY <1>1
  <1>3. /\ Idle("ok") \in Transactions
        /\ r \in Transactions
        /\ r.op = op /\ r.at = at /\ r.id = d /\ r.old = "none" /\ r.result = "ok"
    <2>1. Idle("ok") \in Transactions
      BY IdleIsTransaction DEF Results
    <2>2. at \in {"advisory", "expected", "deployment", "build"}
      OBVIOUS
    <2>3. r \in Transactions
      BY <1>1, <2>1, <2>2 DEF Transactions
    <2>4. r.op = op /\ r.at = at /\ r.id = d
      BY <1>1, <2>1 DEF Transactions
    <2>5. r.old = "none" /\ r.result = "ok"
      BY DEF Idle
    <2> QED BY <2>1, <2>3, <2>4, <2>5
  <1>4. tx'[t] = r
    BY <1>1
  <1> HIDE DEF r
  <1>5. LocksTypeOK'
    BY <1>1, <1>3, RecordsKeep DEF LocksTypeOK
  <1>6. LocksKnown(t)'
    <2>1. LocksKnown(t)
      BY DEF LocksInv, HoldsKnown
    <2>2. ~InPromotion(t)' /\ \A e : ~HasTarget(t, e)' /\ ~HasBuild(t, e)'
      BY <1>3, <1>4 DEF InPromotion, HasTarget, HasBuild, Promoting
    <2>3. ~InPromotion(t) /\ \A e : ~HasTarget(t, e) /\ ~HasBuild(t, e)
      BY <1>1 DEF InPromotion, HasTarget, HasBuild, Promoting
    <2>4. <<"alias", "none">> \notin holds[t]
      BY <1>1, <2>1, <2>3 DEF LocksKnown
    <2> QED BY <1>1, <2>1, <2>2, <2>3, <2>4 DEF LocksKnown
  <1>7. HoldsKnown'
    BY <1>1, <1>2, <1>6, OthersLocks DEF LocksInv, HoldsKnown
  <1>8. StepsKnown'
    BY <1>1, <1>2, OthersStep DEF LocksInv, StepsKnown
  <1>9. VersionsLeft'
    <2>1. alias.version \in Nat /\ alias' = alias
      BY <1>1 DEF LocksInv, LocksTypeOK, Routes, Versions
    <2>2. CASE op \notin Promoting
      <3>1. InFlight' \subseteq InFlight
        BY <1>1, <1>2, <1>3, <1>4, <2>2 DEF InFlight
      <3> QED BY <2>1, <3>1, VersionsKeep DEF LocksInv
    <2>3. CASE op \in Promoting
      <3>1. InFlight' \subseteq Txs /\ IsFiniteSet(Txs)
        BY LocksConstants DEF RowLocksAssumption, InFlight
      <3>2. Cardinality(InFlight') =< Cardinality(Txs) /\ Cardinality(InFlight') \in Nat
        BY <3>1, FS_Subset, FS_CardinalityType
      <3>3. MaxVersion \in Nat
        BY LocksConstants DEF RowLocksAssumption
      <3> QED BY <2>1, <2>3, <3>2, <3>3, InFlightCounts DEF VersionsLeft
    <2> QED BY <2>2, <2>3
  <1>10. OnlyExpectedErrors'
    BY <1>1, <1>3 DEF LocksInv, OnlyExpectedErrors
  <1> QED BY <1>1, <1>5, <1>7, <1>8, <1>9, <1>10, RecordsKeep DEF LocksInv

-----------------------------------------------------------------------------
(***************************************************************************)
(* Calls begin.                                                            *)
(***************************************************************************)
LEMMA Begun ==
    ASSUME LocksInv, NEW t \in Txs, NEW op, NEW at, NEW d, NEW v, Begins(t, op, at, d, v)
    PROVE  /\ tx'[t].op = op /\ tx'[t].at = at /\ tx'[t].id = d /\ tx'[t].version = v
           /\ tx'[t].old = "none" /\ tx'[t].route = Unsaved
           /\ UNCHANGED <<alias, dep, build, outbox>>
BY DEF LocksInv, LocksTypeOK, Begins, Goes, Idle

LEMMA AskKeeps ==
    ASSUME LocksInv, NEW t \in Txs, Ask(t)
    PROVE  LocksInv'
  <1>0. Deployments = Ready \cup Building /\ Ready \cap Building = {}
    BY LocksConstants DEF Deployments, RowLocksAssumption
  <1>1. ASSUME NEW d \in Ready, AskPromote(t, d)  PROVE LocksInv'
    <2>1. Begins(t, "promote", "advisory", d, 0) /\ alias.version < MaxVersion
      BY <1>1 DEF AskPromote
    <2>2. StepKnown(t)'
      BY <1>0, <2>1, Begun DEF StepKnown, PromotionFits, Promoting
    <2> QED BY <1>0, <2>1, <2>2, Begin
  <1>2. CASE AskRollback(t)
    <2>1. /\ Begins(t, "rollback", "expected", alias.previous, alias.version)
          /\ alias.version < MaxVersion /\ alias.previous # "none"
      BY <1>2 DEF AskRollback
    <2>2. alias.previous \in Ready /\ alias.version \in Nat
      BY <2>1 DEF LocksInv, AliasFits, LocksTypeOK, Routes, Versions
    <2>3. StepKnown(t)'
      BY <1>0, <2>1, <2>2, Begun DEF StepKnown, PromotionFits, Promoting
    <2> QED BY <1>0, <2>1, <2>2, <2>3, Begin
  <1>3. ASSUME NEW d \in Deployments, AskCancel(t, d)  PROVE LocksInv'
    <2>1. /\ Begins(t, "cancel", "deployment", d, dep[d].version)
          /\ dep[d].status \in Cancelable
      BY <1>3 DEF AskCancel, Cancelable
    <2>2. dep[d].version \in Nat
      BY DEF LocksInv, LocksTypeOK
    <2>3. StepKnown(t)'
      BY <2>1, <2>2, Begun DEF StepKnown, CancelFits, Promoting
    <2> QED BY <2>1, <2>2, <2>3, Begin DEF Promoting
  <1>4. ASSUME NEW d \in Building, AskBuildEvent(t, d)  PROVE LocksInv'
    <2>1. Begins(t, "build_event", "deployment", d, 0)
      BY <1>4 DEF AskBuildEvent
    <2>2. StepKnown(t)'
      BY <1>0, <2>1, Begun DEF StepKnown, CallbackFits, Promoting
    <2> QED BY <1>0, <2>1, <2>2, Begin DEF Promoting
  <1>5. ASSUME NEW d \in Building, AskCancelComplete(t, d)  PROVE LocksInv'
    <2>1. Begins(t, "cancel_complete", "build", d, dep[d].version)
      BY <1>5 DEF AskCancelComplete
    <2>2. dep[d].version \in Nat
      BY <1>0 DEF LocksInv, LocksTypeOK
    <2>3. StepKnown(t)'
      BY <1>0, <2>1, <2>2, Begun DEF StepKnown, CallbackFits, Promoting
    <2> QED BY <1>0, <2>1, <2>2, <2>3, Begin DEF Promoting
  <1> QED BY <1>1, <1>2, <1>3, <1>4, <1>5 DEF Ask
-----------------------------------------------------------------------------
(***************************************************************************)
(* Locks are granted, or the transaction raises.                           *)
(***************************************************************************)
LEMMA Known ==
    ASSUME LocksInv, NEW t \in Txs
    PROVE  tx[t] \in Transactions /\ LocksKnown(t) /\ StepKnown(t)
BY DEF LocksInv, LocksTypeOK, HoldsKnown, StepsKnown

LEMMA Granted ==
    ASSUME LocksInv, NEW t \in Txs, NEW r, Proceeds(t, r)
    PROVE  /\ tx'[t] = r
           /\ holds'[t] = holds[t] \cup {Wanted(t)}
           /\ UNCHANGED <<alias, dep, build, outbox>>
BY DEF LocksInv, LocksTypeOK, HoldsKnown, Proceeds, Goes

\* What it holds then fits where it is, if the lock does.
LEMMA GrantFits ==
    ASSUME LocksInv, NEW t \in Txs, NEW r, Proceeds(t, r),
           InPromotion(t)' <=> InPromotion(t) \/ Wanted(t) = <<"advisory", "none">>,
           \/ r.op \in Promoting /\ r.at \in {"alias", "deployment", "old", "commit"}
           \/ r.op = "rollback" /\ r.at = "advisory"
           \/ tx[t].op \notin Promoting /\ Wanted(t) # <<"alias", "none">>,
           \A d \in Deployments :
             HasTarget(t, d)' <=> HasTarget(t, d) \/ Wanted(t) = <<"deployment", d>>,
           \A d \in Building :
             HasBuild(t, d)' <=> HasBuild(t, d) \/ Wanted(t) = <<"build", d>>
    PROVE  LocksKnown(t)'
  <1>1. /\ tx'[t] = r
        /\ holds'[t] = holds[t] \cup {Wanted(t)}
        /\ LocksKnown(t)
    BY Granted, Known
  <1>2. <<"advisory", "none">> \in holds'[t] <=> InPromotion(t)'
    BY <1>1 DEF LocksKnown
  <1>3. <<"alias", "none">> \in holds'[t] =>
          InPromotion(t)' \/ (tx'[t].op = "rollback" /\ tx'[t].at = "advisory")
    <2>1. InPromotion(t) \/ tx[t].op = "rollback" => tx[t].op \in Promoting
      BY DEF InPromotion, Promoting
    <2> QED BY <1>1, <2>1 DEF LocksKnown, InPromotion
  <1>4. \A d \in Deployments : <<"deployment", d>> \in holds'[t] <=> HasTarget(t, d)'
    BY <1>1 DEF LocksKnown
  <1>5. \A d \in Building : <<"build", d>> \in holds'[t] <=> HasBuild(t, d)'
    BY <1>1 DEF LocksKnown
  <1> QED BY <1>1, <1>2, <1>3, <1>4, <1>5 DEF LocksKnown

LEMMA RaisesKeeps ==
    ASSUME LocksInv, NEW t \in Txs, NEW result, Raises(t, result),
           result \in Results \ {"stale", "conflict", "not_unique"}
    PROVE  LocksInv'
BY Release DEF Raises

LEMMA RollbackChecksKeeps ==
    ASSUME LocksInv, NEW t \in Txs, RollbackChecks(t)
    PROVE  LocksInv'
  <1> DEFINE r == [tx[t] EXCEPT !.at = "advisory"]
  <1>1. tx[t].op = "rollback" /\ tx[t].at = "expected"
    BY DEF RollbackChecks, Asks
  <1>2. CASE Raises(t, "changed")
    BY <1>2, RaisesKeeps DEF Results
  <1>3. CASE Proceeds(t, r)
    <2>1. r \in Transactions /\ r.op = tx[t].op /\ r.result = tx[t].result /\ r.at = "advisory"
          /\ r.id = tx[t].id /\ r.route = tx[t].route /\ r.old = tx[t].old
      BY Known DEF Transactions
    <2>1a. /\ tx'[t].op = tx[t].op /\ tx'[t].at = "advisory" /\ tx'[t].id = tx[t].id
           /\ tx'[t].route = tx[t].route /\ tx'[t].old = tx[t].old
           /\ alias' = alias /\ dep' = dep
      BY <2>1, <1>3, Granted
    <2> HIDE DEF r
    <2>2. Wanted(t) = <<"alias", "none">> /\ Wanted(t) \in Locks
      BY <1>1 DEF Wanted, Locks
    <2>3. LocksKnown(t)'
      <3>1. InPromotion(t)' <=> InPromotion(t) \/ Wanted(t) = <<"advisory", "none">>
        BY <1>1, <1>3, <2>1a, <2>2 DEF InPromotion, Promoting
      <3>2. \A e \in Deployments :
              HasTarget(t, e)' <=> HasTarget(t, e) \/ Wanted(t) = <<"deployment", e>>
        BY <1>1, <1>3, <2>1a, <2>2, Known DEF HasTarget, Promoting
      <3>3. \A e \in Building :
              HasBuild(t, e)' <=> HasBuild(t, e) \/ Wanted(t) = <<"build", e>>
        BY <1>1, <1>3, <2>1a, <2>2 DEF HasBuild, Promoting
      <3> QED BY <1>1, <1>3, <2>1, <2>2, <3>1, <3>2, <3>3, GrantFits DEF Promoting
    <2>4. StepKnown(t)'
      BY <1>1, <1>3, <2>1a, Known DEF StepKnown, PromotionFits, Promoting
    <2> QED BY <1>3, <2>1, <2>2, <2>3, <2>4, Grant
  <1> QED BY <1>2, <1>3 DEF RollbackChecks

LEMMA TakeAdvisoryKeeps ==
    ASSUME LocksInv, NEW t \in Txs, TakeAdvisory(t)
    PROVE  LocksInv'
  <1> DEFINE r == [tx[t] EXCEPT !.at = IF Saved THEN "alias" ELSE "deployment"]
  <1>1. tx[t].op \in Promoting /\ tx[t].at = "advisory" /\ Proceeds(t, r)
    BY DEF TakeAdvisory, Asks
  <1>2. r \in Transactions /\ r.op = tx[t].op /\ r.result = tx[t].result
        /\ r.at = (IF Saved THEN "alias" ELSE "deployment")
        /\ r.id = tx[t].id /\ r.route = tx[t].route /\ r.old = tx[t].old
    BY Known DEF Transactions
  <1>2a. /\ tx'[t].op = tx[t].op
         /\ tx'[t].at = (IF Saved THEN "alias" ELSE "deployment")
         /\ tx'[t].id = tx[t].id /\ tx'[t].route = tx[t].route
         /\ tx'[t].old = tx[t].old
         /\ alias' = alias /\ dep' = dep
    BY <1>2, <1>1, Granted
  <1> HIDE DEF r
  <1>3. Wanted(t) = <<"advisory", "none">> /\ Wanted(t) \in Locks
    BY <1>1 DEF Wanted, Locks
  <1>4. LocksKnown(t)'
    <2>1. InPromotion(t)' <=> InPromotion(t) \/ Wanted(t) = <<"advisory", "none">>
      BY <1>1, <1>2a, <1>3 DEF InPromotion, Promoting
    <2>2. \A e \in Deployments :
            HasTarget(t, e)' <=> HasTarget(t, e) \/ Wanted(t) = <<"deployment", e>>
      BY <1>1, <1>2a, <1>3, Known DEF HasTarget, Promoting
    <2>3. \A e \in Building :
            HasBuild(t, e)' <=> HasBuild(t, e) \/ Wanted(t) = <<"build", e>>
      BY <1>1, <1>2a, <1>3 DEF HasBuild, Promoting
    <2> QED BY <1>1, <1>2, <1>3, <2>1, <2>2, <2>3, GrantFits DEF Promoting
  <1>5. ~Saved => alias = Unsaved
    BY DEF LocksInv, AliasFits
  <1>6. StepKnown(t)'
    BY <1>1, <1>2a, <1>5, Known DEF StepKnown, PromotionFits, Promoting
  <1> QED BY <1>1, <1>2, <1>3, <1>4, <1>6, Grant

LEMMA TakeAliasKeeps ==
    ASSUME LocksInv, NEW t \in Txs, TakeAlias(t)
    PROVE  LocksInv'
  <1> DEFINE r == [tx[t] EXCEPT !.at = "deployment", !.route = alias]
  <1>1. tx[t].op \in Promoting /\ tx[t].at = "alias" /\ Proceeds(t, r)
    BY DEF TakeAlias, Asks
  <1>2. alias \in Routes
    BY DEF LocksInv, LocksTypeOK
  <1>3. r \in Transactions /\ r.op = tx[t].op /\ r.result = tx[t].result
        /\ r.at = "deployment" /\ r.id = tx[t].id /\ r.route = alias /\ r.old = tx[t].old
    BY <1>2, Known DEF Transactions
  <1>3a. /\ tx'[t].op = tx[t].op /\ tx'[t].at = "deployment"
         /\ tx'[t].id = tx[t].id /\ tx'[t].route = alias /\ tx'[t].old = tx[t].old
         /\ alias' = alias /\ dep' = dep
    BY <1>3, <1>1, Granted
  <1> HIDE DEF r
  <1>4. Wanted(t) = <<"alias", "none">> /\ Wanted(t) \in Locks
    BY <1>1 DEF Wanted, Locks
  <1>5. LocksKnown(t)'
    <2>1. InPromotion(t)' <=> InPromotion(t) \/ Wanted(t) = <<"advisory", "none">>
      BY <1>1, <1>3a, <1>4 DEF InPromotion, Promoting
    <2>2. \A e \in Deployments :
            HasTarget(t, e)' <=> HasTarget(t, e) \/ Wanted(t) = <<"deployment", e>>
      BY <1>1, <1>3a, <1>4, Known DEF HasTarget, Promoting
    <2>3. \A e \in Building :
            HasBuild(t, e)' <=> HasBuild(t, e) \/ Wanted(t) = <<"build", e>>
      BY <1>1, <1>3a, <1>4 DEF HasBuild, Promoting
    <2> QED BY <1>1, <1>3, <1>4, <2>1, <2>2, <2>3, GrantFits DEF Promoting
  <1>6. StepKnown(t)'
    BY <1>1, <1>3a, Known DEF StepKnown, PromotionFits, Promoting
  <1> QED BY <1>1, <1>3, <1>4, <1>5, <1>6, Grant

\* Under the advisory lock the next state of the alias is well-formed.
LEMMA RepointedIsRoute ==
    ASSUME LocksInv, NEW t \in Txs, tx[t].op \in Promoting, NEW d \in Deployments
    PROVE  Repointed(alias, d) \in Routes
  <1>1. alias \in Routes /\ 0 \in Versions
    BY InFlightCounts, LocksConstants DEF LocksInv, LocksTypeOK, Versions, RowLocksAssumption
  <1> QED BY <1>1, NextVersion DEF Repointed, Routes

LEMMA TakeTargetKeeps ==
    ASSUME LocksInv, NEW t \in Txs, TakeTarget(t)
    PROVE  LocksInv'
  <1> DEFINE d == tx[t].id
             same == [tx[t] EXCEPT !.at = "commit"]
             moved == [tx[t] EXCEPT !.at = "commit", !.route = Repointed(@, d)]
             old == tx[t].route.current
             wait == [moved EXCEPT !.at = "old", !.old = old, !.version = dep[old].version]
  <1>1. tx[t].op \in Promoting /\ tx[t].at = "deployment"
    BY DEF TakeTarget, Asks
  <1>2. tx[t].route = alias /\ tx[t].old = "none" /\ d \in Ready
    BY <1>1, Known DEF StepKnown, PromotionFits
  <1>3. d \in Deployments /\ d # "none" /\ "none" \notin Deployments
    BY <1>2, LocksConstants DEF Deployments, RowLocksAssumption
  <1>4. Wanted(t) = <<"deployment", d>> /\ Wanted(t) \in Locks
    BY <1>1, <1>3 DEF Wanted, Locks
  <1>5. Repointed(alias, d) \in Routes
    BY <1>1, <1>3, RepointedIsRoute
  <1>6. CASE Raises(t, "not_ready")
    BY <1>6, RaisesKeeps DEF Results
  <1>7. CASE old = d /\ Proceeds(t, same)
    <2>1. same \in Transactions /\ same.op = tx[t].op /\ same.result = tx[t].result
          /\ same.at = "commit" /\ same.id = d /\ same.route = alias /\ same.old = "none"
      BY <1>2, Known DEF Transactions
    <2>1a. /\ tx'[t].op = tx[t].op /\ tx'[t].at = "commit" /\ tx'[t].id = d
           /\ tx'[t].route = alias /\ tx'[t].old = "none"
           /\ alias' = alias /\ dep' = dep
      BY <2>1, <1>7, Granted
    <2> HIDE DEF same
    <2>2. LocksKnown(t)'
      <3>1. InPromotion(t)' <=> InPromotion(t) \/ Wanted(t) = <<"advisory", "none">>
        BY <1>1, <1>3, <1>4, <1>7, <2>1a DEF InPromotion, Promoting
      <3>2. \A e \in Deployments :
              HasTarget(t, e)' <=> HasTarget(t, e) \/ Wanted(t) = <<"deployment", e>>
        BY <1>1, <1>3, <1>4, <1>7, <2>1a, Known DEF HasTarget, Promoting
      <3>3. \A e \in Building :
              HasBuild(t, e)' <=> HasBuild(t, e) \/ Wanted(t) = <<"build", e>>
        BY <1>1, <1>3, <1>4, <1>7, <2>1a DEF HasBuild, Promoting
      <3> QED BY <1>1, <1>3, <1>4, <1>7, <2>1, <3>1, <3>2, <3>3, GrantFits DEF Promoting
    <2>3. StepKnown(t)'
      BY <1>1, <1>2, <1>3, <1>7, <2>1a DEF StepKnown, PromotionFits, Promoting
    <2> QED BY <1>4, <1>7, <2>1, <2>2, <2>3, Grant
  <1>8. CASE old # d /\ (old = "none" \/ dep[old].status # "promoted") /\ Proceeds(t, moved)
    <2>1. moved \in Transactions /\ moved.op = tx[t].op /\ moved.result = tx[t].result
          /\ moved.at = "commit" /\ moved.id = d /\ moved.route = Repointed(alias, d)
          /\ moved.old = "none"
      BY <1>2, <1>5, Known DEF Transactions
    <2>1a. /\ tx'[t].op = tx[t].op /\ tx'[t].at = "commit" /\ tx'[t].id = d
           /\ tx'[t].route = Repointed(alias, d) /\ tx'[t].old = "none"
           /\ alias' = alias /\ dep' = dep
      BY <2>1, <1>8, Granted
    <2> HIDE DEF moved
    <2>2. LocksKnown(t)'
      <3>1. InPromotion(t)' <=> InPromotion(t) \/ Wanted(t) = <<"advisory", "none">>
        BY <1>1, <1>3, <1>4, <1>8, <2>1a DEF InPromotion, Promoting
      <3>2. \A e \in Deployments :
              HasTarget(t, e)' <=> HasTarget(t, e) \/ Wanted(t) = <<"deployment", e>>
        BY <1>1, <1>3, <1>4, <1>8, <2>1a, Known DEF HasTarget, Promoting
      <3>3. \A e \in Building :
              HasBuild(t, e)' <=> HasBuild(t, e) \/ Wanted(t) = <<"build", e>>
        BY <1>1, <1>3, <1>4, <1>8, <2>1a DEF HasBuild, Promoting
      <3> QED BY <1>1, <1>3, <1>4, <1>8, <2>1, <3>1, <3>2, <3>3, GrantFits DEF Promoting
    <2>3. alias.current = "none"
      BY <1>2, <1>8 DEF LocksInv, ServedIsPromoted, Saved
    <2>4. StepKnown(t)'
      BY <1>1, <1>2, <1>3, <1>8, <2>1a, <2>3
      DEF StepKnown, PromotionFits, Promoting, Repointed
    <2> QED BY <1>4, <1>8, <2>1, <2>2, <2>4, Grant
  <1>9. CASE old # d /\ old # "none" /\ Proceeds(t, wait)
    <2>1. old \in Deployments /\ dep[old].version \in Nat
      BY <1>2, <1>9 DEF LocksInv, LocksTypeOK, Routes
    <2>2. wait \in Transactions /\ wait.op = tx[t].op /\ wait.result = tx[t].result
          /\ wait.at = "old" /\ wait.id = d /\ wait.route = Repointed(alias, d)
          /\ wait.old = old /\ wait.version = dep[old].version
      BY <1>2, <1>5, <2>1, Known DEF Transactions
    <2>2a. /\ tx'[t].op = tx[t].op /\ tx'[t].at = "old" /\ tx'[t].id = d
           /\ tx'[t].route = Repointed(alias, d) /\ tx'[t].old = old
           /\ tx'[t].version = dep[old].version
           /\ alias' = alias /\ dep' = dep
      BY <2>2, <1>9, Granted
    <2> HIDE DEF wait
    <2>3. LocksKnown(t)'
      <3>1. InPromotion(t)' <=> InPromotion(t) \/ Wanted(t) = <<"advisory", "none">>
        BY <1>1, <1>3, <1>4, <1>9, <2>2a DEF InPromotion, Promoting
      <3>2. \A e \in Deployments :
              HasTarget(t, e)' <=> HasTarget(t, e) \/ Wanted(t) = <<"deployment", e>>
        BY <1>1, <1>3, <1>4, <1>9, <2>2a, Known DEF HasTarget, Promoting
      <3>3. \A e \in Building :
              HasBuild(t, e)' <=> HasBuild(t, e) \/ Wanted(t) = <<"build", e>>
        BY <1>1, <1>3, <1>4, <1>9, <2>2a DEF HasBuild, Promoting
      <3> QED BY <1>1, <1>3, <1>4, <1>9, <2>2, <3>1, <3>2, <3>3, GrantFits DEF Promoting
    <2>4. StepKnown(t)'
      BY <1>1, <1>2, <1>3, <1>9, <2>2a
      DEF StepKnown, PromotionFits, Promoting, Repointed, Saved
    <2> QED BY <1>4, <1>9, <2>2, <2>3, <2>4, Grant
  <1> QED BY <1>6, <1>7, <1>8, <1>9 DEF TakeTarget

\* The deployment that loses the alias is at the version that was read without
\* its lock.
LEMMA TakeOldKeeps ==
    ASSUME LocksInv, NEW t \in Txs, TakeOld(t)
    PROVE  LocksInv'
  <1> DEFINE r == [tx[t] EXCEPT !.at = "commit"]
  <1>1. tx[t].op \in Promoting /\ tx[t].at = "old"
    BY DEF TakeOld, Asks
  <1>2. /\ tx[t].id \in Ready /\ Saved /\ tx[t].version = dep[tx[t].old].version
        /\ tx[t].old = alias.current /\ alias.current # tx[t].id
        /\ tx[t].route = Repointed(alias, tx[t].id)
    BY <1>1, Known DEF StepKnown, PromotionFits
  <1>3. Proceeds(t, r)
    BY <1>2 DEF TakeOld
  <1>4. tx[t].old \in Deployments
    BY <1>2 DEF LocksInv, LocksTypeOK, Routes, Saved
  <1>5. Wanted(t) = <<"deployment", tx[t].old>> /\ Wanted(t) \in Locks
    BY <1>1, <1>4 DEF Wanted, Locks
  <1>6. r \in Transactions /\ r.op = tx[t].op /\ r.result = tx[t].result
        /\ r.at = "commit" /\ r.id = tx[t].id /\ r.route = tx[t].route /\ r.old = tx[t].old
    BY Known DEF Transactions
  <1>6a. /\ tx'[t].op = tx[t].op /\ tx'[t].at = "commit" /\ tx'[t].id = tx[t].id
         /\ tx'[t].route = tx[t].route /\ tx'[t].old = tx[t].old
         /\ alias' = alias /\ dep' = dep
    BY <1>6, <1>3, Granted
  <1> HIDE DEF r
  <1>7. LocksKnown(t)'
    <2>1. InPromotion(t)' <=> InPromotion(t) \/ Wanted(t) = <<"advisory", "none">>
      BY <1>1, <1>3, <1>5, <1>6a DEF InPromotion, Promoting
    <2>2. \A e \in Deployments :
            HasTarget(t, e)' <=> HasTarget(t, e) \/ Wanted(t) = <<"deployment", e>>
      BY <1>1, <1>3, <1>5, <1>6a, Known DEF HasTarget, Promoting
    <2>3. \A e \in Building :
            HasBuild(t, e)' <=> HasBuild(t, e) \/ Wanted(t) = <<"build", e>>
      BY <1>1, <1>3, <1>5, <1>6a DEF HasBuild, Promoting
    <2> QED BY <1>1, <1>3, <1>5, <1>6, <2>1, <2>2, <2>3, GrantFits DEF Promoting
  <1>8. StepKnown(t)'
    <2>1. tx[t].id \in Deployments
      BY <1>1, Known DEF StepKnown, Promoting
    <2> QED BY <1>1, <1>2, <1>3, <1>6a, <2>1
            DEF StepKnown, PromotionFits, Promoting, Repointed
  <1> QED BY <1>3, <1>5, <1>6, <1>7, <1>8, Grant

LEMMA CancelChecksKeeps ==
    ASSUME LocksInv, NEW t \in Txs, CancelChecks(t)
    PROVE  LocksInv'
  <1> DEFINE r == [tx[t] EXCEPT !.at = "commit"]
  <1>1. tx[t].op = "cancel" /\ tx[t].at = "deployment"
    BY DEF CancelChecks, Asks
  <1>2. CASE Raises(t, "in_use")
    BY <1>2, RaisesKeeps DEF Results
  <1>3. CASE /\ alias.current # tx[t].id /\ dep[tx[t].id].version = tx[t].version
             /\ Proceeds(t, r)
    <2>1. r \in Transactions /\ r.op = tx[t].op /\ r.result = tx[t].result
          /\ r.at = "commit" /\ r.id = tx[t].id /\ r.version = tx[t].version
      BY Known DEF Transactions
    <2>1a. /\ tx'[t].op = tx[t].op /\ tx'[t].at = "commit" /\ tx'[t].id = tx[t].id
           /\ tx'[t].version = tx[t].version
           /\ alias' = alias /\ dep' = dep
      BY <2>1, <1>3, Granted
    <2> HIDE DEF r
    <2>2. tx[t].id \in Deployments
      BY <1>1, Known DEF StepKnown
    <2>3. Wanted(t) = <<"deployment", tx[t].id>> /\ Wanted(t) \in Locks
      BY <1>1, <2>2 DEF Wanted, Locks
    <2>4. LocksKnown(t)'
      <3>1. InPromotion(t)' <=> InPromotion(t) \/ Wanted(t) = <<"advisory", "none">>
        BY <1>1, <1>3, <2>1a, <2>3 DEF InPromotion, Promoting
      <3>2. \A e \in Deployments :
              HasTarget(t, e)' <=> HasTarget(t, e) \/ Wanted(t) = <<"deployment", e>>
        BY <1>1, <1>3, <2>1a, <2>3, Known DEF HasTarget, Promoting
      <3>3. \A e \in Building :
              HasBuild(t, e)' <=> HasBuild(t, e) \/ Wanted(t) = <<"build", e>>
        BY <1>1, <1>3, <2>1a, <2>3 DEF HasBuild, Promoting
      <3> QED BY <1>1, <1>3, <2>1, <2>3, <3>1, <3>2, <3>3, GrantFits DEF Promoting
    <2>5. StepKnown(t)'
      BY <1>1, <1>3, <2>1a, <2>2, Known DEF StepKnown, CancelFits, Promoting
    <2> QED BY <1>3, <2>1, <2>3, <2>4, <2>5, Grant
  <1> QED BY <1>2, <1>3 DEF CancelChecks

LEMMA EventLocksKeeps ==
    ASSUME LocksInv, NEW t \in Txs, EventLocks(t)
    PROVE  LocksInv'
  <1> DEFINE r == [tx[t] EXCEPT !.at = "build"]
  <1>1. tx[t].op = "build_event" /\ tx[t].at = "deployment"
    BY DEF EventLocks, Asks
  <1>2. CASE Raises(t, "ok")
    BY <1>2, RaisesKeeps DEF Results
  <1>3. CASE dep[tx[t].id].version = tx[t].version /\ Proceeds(t, r)
    <2>1. r \in Transactions /\ r.op = tx[t].op /\ r.result = tx[t].result
          /\ r.at = "build" /\ r.id = tx[t].id /\ r.version = tx[t].version
      BY Known DEF Transactions
    <2>1a. /\ tx'[t].op = tx[t].op /\ tx'[t].at = "build" /\ tx'[t].id = tx[t].id
           /\ tx'[t].version = tx[t].version
           /\ alias' = alias /\ dep' = dep
      BY <2>1, <1>3, Granted
    <2> HIDE DEF r
    <2>2. tx[t].id \in Deployments /\ tx[t].id \in Building /\ tx[t].version = 0
      BY <1>1, Known DEF StepKnown, CallbackFits
    <2>3. Wanted(t) = <<"deployment", tx[t].id>> /\ Wanted(t) \in Locks
      BY <1>1, <2>2 DEF Wanted, Locks
    <2>4. LocksKnown(t)'
      <3>1. InPromotion(t)' <=> InPromotion(t) \/ Wanted(t) = <<"advisory", "none">>
        BY <1>1, <1>3, <2>1a, <2>3 DEF InPromotion, Promoting
      <3>2. \A e \in Deployments :
              HasTarget(t, e)' <=> HasTarget(t, e) \/ Wanted(t) = <<"deployment", e>>
        BY <1>1, <1>3, <2>1a, <2>3, Known DEF HasTarget, Promoting
      <3>3. \A e \in Building :
              HasBuild(t, e)' <=> HasBuild(t, e) \/ Wanted(t) = <<"build", e>>
        BY <1>1, <1>3, <2>1a, <2>3 DEF HasBuild, Promoting
      <3> QED BY <1>1, <1>3, <2>1, <2>3, <3>1, <3>2, <3>3, GrantFits DEF Promoting
    <2>5. StepKnown(t)'
      BY <1>1, <1>3, <2>1a, <2>2 DEF StepKnown, CallbackFits, Promoting
    <2> QED BY <1>3, <2>1, <2>3, <2>4, <2>5, Grant
  <1> QED BY <1>2, <1>3 DEF EventLocks, EventApplies

LEMMA CompleteLocksKeeps ==
    ASSUME LocksInv, NEW t \in Txs, CompleteLocks(t)
    PROVE  LocksInv'
  <1> DEFINE d == tx[t].id
             r == [tx[t] EXCEPT !.at = "deployment", !.version = dep[d].version]
  <1>1. tx[t].op = "cancel_complete" /\ tx[t].at = "build"
    BY DEF CompleteLocks, Asks
  <1>2. CASE Raises(t, "ok")
    BY <1>2, RaisesKeeps DEF Results
  <1>3. CASE dep[d].status = "canceling" /\ Proceeds(t, r)
    <2>1. d \in Deployments /\ d \in Building
      BY <1>1, Known DEF StepKnown, CallbackFits
    <2>2. dep[d].version \in Nat
      BY <2>1 DEF LocksInv, LocksTypeOK
    <2>3. r \in Transactions /\ r.op = tx[t].op /\ r.result = tx[t].result
          /\ r.at = "deployment" /\ r.id = d /\ r.version = dep[d].version
      BY <2>2, Known DEF Transactions
    <2>3a. /\ tx'[t].op = tx[t].op /\ tx'[t].at = "deployment" /\ tx'[t].id = d
           /\ tx'[t].version = dep[d].version
           /\ alias' = alias /\ dep' = dep
      BY <2>3, <1>3, Granted
    <2> HIDE DEF r
    <2>4. Wanted(t) = <<"build", d>> /\ Wanted(t) \in Locks
      BY <1>1, <2>1 DEF Wanted, Locks
    <2>5. LocksKnown(t)'
      <3>1. InPromotion(t)' <=> InPromotion(t) \/ Wanted(t) = <<"advisory", "none">>
        BY <1>1, <1>3, <2>3a, <2>4 DEF InPromotion, Promoting
      <3>2. \A e \in Deployments :
              HasTarget(t, e)' <=> HasTarget(t, e) \/ Wanted(t) = <<"deployment", e>>
        BY <1>1, <1>3, <2>3a, <2>4, Known DEF HasTarget, Promoting
      <3>3. \A e \in Building :
              HasBuild(t, e)' <=> HasBuild(t, e) \/ Wanted(t) = <<"build", e>>
        BY <1>1, <1>3, <2>3a, <2>4 DEF HasBuild, Promoting
      <3> QED BY <1>1, <1>3, <2>3, <2>4, <3>1, <3>2, <3>3, GrantFits DEF Promoting
    <2>6. StepKnown(t)'
      BY <1>1, <1>3, <2>1, <2>3a DEF StepKnown, CallbackFits, Promoting
    <2> QED BY <1>3, <2>3, <2>4, <2>5, <2>6, Grant
  <1> QED BY <1>2, <1>3 DEF CompleteLocks
-----------------------------------------------------------------------------
(***************************************************************************)
(* Commits.                                                                *)
(***************************************************************************)
\* Whoever is past the check of a deployment has it to himself.
LEMMA TargetIsExclusive ==
    ASSUME LocksInv, NEW t \in Txs, NEW u \in Txs, NEW d \in Deployments,
           HasTarget(t, d), HasTarget(u, d)
    PROVE  t = u
BY DEF LocksInv, HoldsKnown, LocksKnown

LEMMA BuildIsExclusive ==
    ASSUME LocksInv, NEW t \in Txs, NEW u \in Txs, NEW d \in Building,
           HasBuild(t, d), HasBuild(u, d)
    PROVE  t = u
BY DEF LocksInv, HoldsKnown, LocksKnown

LEMMA PromotionIsExclusive ==
    ASSUME LocksInv, NEW t \in Txs, NEW u \in Txs, InPromotion(t), InPromotion(u)
    PROVE  t = u
BY DEF LocksInv, HoldsKnown, LocksKnown

\* A deployment moves on while its lock is held, or free: no other transaction
\* relies on what it was.
LEMMA OthersSeeMove ==
    ASSUME LocksInv, NEW t \in Txs, NEW u \in Txs, u # t, tx'[u] = tx[u],
           NEW d \in Deployments, NEW s, dep' = [dep EXCEPT ![d] = Moved(@, s)],
           alias' = alias, alias.current # d, ~HasTarget(u, d),
           tx[u].op = "cancel_complete" /\ tx[u].at = "deployment" => tx[u].id # d
    PROVE  StepKnown(u)'
  <1>1. /\ tx[u] \in Transactions /\ StepKnown(u)
        /\ dep \in [Deployments -> [status : DepStatuses, version : Nat]]
    BY Known DEF LocksInv, LocksTypeOK
  <1>2. /\ \A e \in Deployments : e # d => dep'[e] = dep[e]
        /\ dep'[d].version = dep[d].version + 1
    BY <1>1 DEF Moved
  <1>3. ASSUME tx[u].op \in Promoting  PROVE PromotionFits(u)'
    <2>1. PromotionFits(u)
      BY <1>1, <1>3 DEF StepKnown
    <2>2. tx[u].at = "old" => tx[u].old \in Deployments /\ tx[u].old # d
      BY <1>1, <2>1 DEF PromotionFits, Transactions, Saved
    <2> QED BY <1>2, <2>1, <2>2 DEF PromotionFits, Saved, Repointed
  <1>4. ASSUME tx[u].op = "cancel"  PROVE CancelFits(u)'
    <2>1. CancelFits(u) /\ tx[u].id \in Deployments /\ tx[u].version \in Nat
      BY <1>1, <1>4 DEF StepKnown, Transactions
    <2>2. tx[u].at = "commit" => tx[u].id # d
      BY <1>4 DEF HasTarget
    <2>3. dep[d].version \in Nat
      BY <1>1
    <2> QED BY <1>2, <2>1, <2>2, <2>3 DEF CancelFits
  <1>5. ASSUME tx[u].op \in {"build_event", "cancel_complete"}  PROVE CallbackFits(u)'
    <2>1. CallbackFits(u) /\ tx[u].id \in Deployments
      BY <1>1, <1>5 DEF StepKnown
    <2>2. tx[u].op = "build_event" /\ tx[u].at = "build" => tx[u].id # d
      BY DEF HasTarget
    <2> QED BY <1>2, <2>1, <2>2 DEF CallbackFits
  <1> QED BY <1>1, <1>3, <1>4, <1>5 DEF StepKnown

\* The records, when a deployment that is not served moves on.
LEMMA MoveKeepsRecords ==
    ASSUME LocksInv, NEW d \in Deployments, NEW s \in DepStatuses \ {"promoted"},
           dep' = [dep EXCEPT ![d] = Moved(@, s)],
           alias' = alias, outbox' = outbox, alias.current # d
    PROVE  /\ (dep \in [Deployments -> [status : DepStatuses, version : Nat]])'
           /\ AliasFits' /\ ServedIsPromoted'
  <1>1. dep \in [Deployments -> [status : DepStatuses, version : Nat]]
    BY DEF LocksInv, LocksTypeOK
  <1>2. (dep \in [Deployments -> [status : DepStatuses, version : Nat]])'
    BY <1>1 DEF Moved
  <1>3. /\ \A e \in Deployments : e # d => dep'[e] = dep[e]
        /\ dep'[d].version = dep[d].version + 1 /\ dep[d].version \in Nat
        /\ dep'[d].status # "promoted"
    BY <1>1 DEF Moved
  <1>4. AliasFits'
    BY <1>3 DEF LocksInv, AliasFits, Saved
  <1>5. ServedIsPromoted'
    <2>1. alias.current \in Deployments \cup {"none"}
      BY DEF LocksInv, LocksTypeOK, Routes
    <2> QED BY <1>3, <2>1 DEF LocksInv, ServedIsPromoted, Saved
  <1> QED BY <1>2, <1>4, <1>5

LEMMA CommitCancelKeeps ==
    ASSUME LocksInv, NEW t \in Txs, CommitCancel(t)
    PROVE  LocksInv'
  <1> DEFINE d == tx[t].id
  <1>1. /\ tx[t].op = "cancel" /\ tx[t].at = "commit" /\ Finishes(t, "ok")
        /\ dep' = [dep EXCEPT ![d] = Moved(@, "canceling")]
        /\ UNCHANGED <<alias, build, outbox>>
    BY DEF CommitCancel, Asks
  <1>2. d \in Deployments /\ alias.current # d /\ dep[d].status \in Cancelable
    BY <1>1, Known DEF StepKnown, CancelFits
  <1>3. HasTarget(t, d)
    BY <1>1 DEF HasTarget
  <1>4. "ok" \in Results \ {"stale", "conflict", "not_unique"}
    BY DEF Results
  <1>5. "canceling" \in DepStatuses \ {"promoted"}
    BY DEF DepStatuses
  <1>6. ASSUME NEW u \in Txs, u # t  PROVE StepKnown(u)'
    <2>1. ~HasTarget(u, d)
      BY <1>2, <1>3, <1>6, TargetIsExclusive
    <2>2. tx[u].op = "cancel_complete" /\ tx[u].at = "deployment" => tx[u].id # d
      BY <1>2, Known DEF StepKnown, CallbackFits, Cancelable
    <2>3. tx'[u] = tx[u]
      BY <1>1, <1>4, <1>6, Ended
    <2> QED BY <1>1, <1>2, <1>6, <2>1, <2>2, <2>3, OthersSeeMove
  <1>7. StepsKnown'
    BY <1>1, <1>4, <1>6, Ended DEF StepsKnown
  <1>8. LocksTypeOK'
    <2>1. tx' \in [Txs -> Transactions]
      BY <1>1, <1>4, Ended
    <2> QED BY <1>1, <1>2, <1>5, <2>1, MoveKeepsRecords DEF LocksInv, LocksTypeOK
  <1>9. VersionsLeft'
    <2>1. alias.version \in Nat /\ InFlight' \subseteq InFlight
      BY <1>1, <1>4, Ended DEF LocksInv, LocksTypeOK, Routes, Versions
    <2> QED BY <1>1, <2>1, VersionsKeep DEF LocksInv
  <1> QED BY <1>1, <1>2, <1>4, <1>5, <1>7, <1>8, <1>9, Ended, MoveKeepsRecords DEF LocksInv

\* The alias routes to images: a Git deployment is not served.
LEMMA BuildsAreNotServed ==
    ASSUME LocksInv, NEW d \in Building
    PROVE  alias.current # d /\ d \in Deployments /\ d \notin Ready
BY LocksConstants DEF LocksInv, AliasFits, RowLocksAssumption, Deployments

LEMMA CommitEventKeeps ==
    ASSUME LocksInv, NEW t \in Txs, CommitEvent(t)
    PROVE  LocksInv'
  <1> DEFINE d == tx[t].id
  <1>1. /\ tx[t].op = "build_event" /\ tx[t].at = "build" /\ Finishes(t, "ok")
        /\ UNCHANGED <<alias, outbox>>
    BY DEF CommitEvent, Asks
  <1>2. d \in Building /\ dep[d].version = 0
    BY <1>1, Known DEF StepKnown, CallbackFits
  <1>3. alias.current # d /\ d \in Deployments /\ d \notin Ready
    BY <1>2, BuildsAreNotServed
  <1>4. dep[d].status = "building"
    BY <1>2, <1>3 DEF LocksInv, AliasFits
  <1>5. HasTarget(t, d)
    BY <1>1 DEF HasTarget
  <1>6. "ok" \in Results \ {"stale", "conflict", "not_unique"}
    BY DEF Results
  <1>7. CASE UNCHANGED <<build, dep>>
    BY <1>1, <1>6, <1>7, Release
  <1>8. ASSUME NEW s \in {"succeeded", "failed"}, build' = [build EXCEPT ![d] = s],
               dep' = [dep EXCEPT ![d] = Moved(@, IF s = "failed" THEN s ELSE "scanning")]
        PROVE  LocksInv'
    <2> DEFINE status == IF s = "failed" THEN s ELSE "scanning"
    <2>1. status \in DepStatuses \ {"promoted"}
      BY DEF DepStatuses
    <2>2. dep' = [dep EXCEPT ![d] = Moved(@, status)]
      BY <1>8
    <2> HIDE DEF status
    <2>3. ASSUME NEW u \in Txs, u # t  PROVE StepKnown(u)'
      <3>1. ~HasTarget(u, d)
        BY <1>3, <1>5, <2>3, TargetIsExclusive
      <3>2. tx[u].op = "cancel_complete" /\ tx[u].at = "deployment" => tx[u].id # d
        BY <1>4, Known DEF StepKnown, CallbackFits
      <3>3. tx'[u] = tx[u]
        BY <1>1, <1>6, <2>3, Ended
      <3> QED BY <1>1, <1>3, <2>2, <2>3, <3>1, <3>2, <3>3, OthersSeeMove
    <2>4. StepsKnown'
      BY <1>1, <1>6, <2>3, Ended DEF StepsKnown
    <2>5. LocksTypeOK'
      <3>1. tx' \in [Txs -> Transactions]
        BY <1>1, <1>6, Ended
      <3>2. (build \in [Building -> {"running", "succeeded", "failed", "canceled"}])'
        BY <1>8 DEF LocksInv, LocksTypeOK
      <3> QED BY <1>1, <1>3, <2>1, <2>2, <3>1, <3>2, MoveKeepsRecords DEF LocksInv, LocksTypeOK
    <2>6. VersionsLeft'
      <3>1. alias.version \in Nat /\ InFlight' \subseteq InFlight
        BY <1>1, <1>6, Ended DEF LocksInv, LocksTypeOK, Routes, Versions
      <3> QED BY <1>1, <3>1, VersionsKeep DEF LocksInv
    <2> QED BY <1>1, <1>3, <1>6, <2>1, <2>2, <2>4, <2>5, <2>6, Ended, MoveKeepsRecords DEF LocksInv
  <1> QED BY <1>7, <1>8 DEF CommitEvent

\* The deployment is at the version that was read without its lock.
LEMMA CommitCompleteKeeps ==
    ASSUME LocksInv, NEW t \in Txs, CommitComplete(t)
    PROVE  LocksInv'
  <1> DEFINE d == tx[t].id
  <1>1. tx[t].op = "cancel_complete" /\ tx[t].at = "deployment"
    BY DEF CommitComplete, Asks
  <1>2. d \in Building /\ dep[d].version = tx[t].version /\ dep[d].status = "canceling"
    BY <1>1, Known DEF StepKnown, CallbackFits
  <1>3. /\ ~Waits(t) /\ Finishes(t, "ok")
        /\ build' = [build EXCEPT ![d] = "canceled"]
        /\ dep' = [dep EXCEPT ![d] = Moved(@, "canceled")]
        /\ UNCHANGED <<alias, outbox>>
    BY <1>2 DEF CommitComplete
  <1>4. alias.current # d /\ d \in Deployments
    BY <1>2, BuildsAreNotServed
  <1>5. "ok" \in Results \ {"stale", "conflict", "not_unique"}
    BY DEF Results
  <1>6. "canceled" \in DepStatuses \ {"promoted"}
    BY DEF DepStatuses
  <1>7. Wanted(t) = <<"deployment", d>>
    BY <1>1 DEF Wanted
  <1>8. ASSUME NEW u \in Txs, u # t  PROVE StepKnown(u)'
    <2>1. ~HasTarget(u, d)
      BY <1>3, <1>4, <1>7, <1>8, Known DEF Waits, Holders, LocksKnown
    <2>2. tx[u].op = "cancel_complete" /\ tx[u].at = "deployment" => tx[u].id # d
      BY <1>1, <1>2, <1>8, BuildIsExclusive DEF HasBuild
    <2>3. tx'[u] = tx[u]
      BY <1>3, <1>5, <1>8, Ended
    <2> QED BY <1>3, <1>4, <1>8, <2>1, <2>2, <2>3, OthersSeeMove
  <1>9. StepsKnown'
    BY <1>3, <1>5, <1>8, Ended DEF StepsKnown
  <1>10. LocksTypeOK'
    <2>1. tx' \in [Txs -> Transactions]
      BY <1>3, <1>5, Ended
    <2>2. (build \in [Building -> {"running", "succeeded", "failed", "canceled"}])'
      BY <1>3 DEF LocksInv, LocksTypeOK
    <2> QED BY <1>3, <1>4, <1>6, <2>1, <2>2, MoveKeepsRecords DEF LocksInv, LocksTypeOK
  <1>11. VersionsLeft'
    <2>1. alias.version \in Nat /\ InFlight' \subseteq InFlight
      BY <1>3, <1>5, Ended DEF LocksInv, LocksTypeOK, Routes, Versions
    <2> QED BY <1>3, <2>1, VersionsKeep DEF LocksInv
  <1> QED BY <1>3, <1>4, <1>5, <1>6, <1>9, <1>10, <1>11, Ended, MoveKeepsRecords DEF LocksInv
\* A promotion that commits saves the alias it locked, and the command it
\* publishes is the first one of that version or the same one.
LEMMA SaveSucceeds ==
    ASSUME LocksInv, NEW t \in Txs, tx[t].op \in Promoting, tx[t].at = "commit"
    PROVE  SaveError(tx[t].route) = "ok"
  <1>1. alias \in Routes /\ alias.version \in Nat /\ alias.version + 1 \in Versions
        /\ 0 \in Versions
    BY NextVersion, InFlightCounts, LocksConstants
    DEF LocksInv, LocksTypeOK, Versions, RowLocksAssumption
  <1>2. AliasFits
    BY DEF LocksInv
  <1>3. PromotionFits(t)
    BY Known DEF StepKnown
  <1>4. Unsaved.version = 0 /\ Unsaved.current = "none"
    BY DEF Unsaved
  <1>5. CASE alias.current = tx[t].id /\ tx[t].route = alias
    <2>1. Saved
      BY <1>3, <1>5, LocksConstants DEF PromotionFits, Saved, RowLocksAssumption
    <2>2. outbox[alias.version] = alias
      BY <1>2, <2>1 DEF AliasFits
    <2> QED BY <1>1, <1>5, <2>1, <2>2 DEF SaveError, PublishKey
  <1>6. CASE tx[t].route = Repointed(alias, tx[t].id)
    <2>1. CASE Saved
      <3>1. tx[t].route.version = alias.version + 1
        BY <1>6, <2>1 DEF Saved, Repointed
      <3>2. outbox[alias.version + 1] = Unsaved
        BY <1>1, <1>2 DEF AliasFits
      <3> QED BY <1>1, <3>1, <3>2 DEF SaveError, PublishKey
    <2>2. CASE ~Saved
      <3>1. tx[t].route.version = 0 /\ alias.version = 0
        BY <1>2, <1>4, <1>6, <2>2 DEF AliasFits, Saved, Repointed
      <3>2. outbox[0] = Unsaved
        BY <1>1, <1>2, <2>2 DEF AliasFits
      <3> QED BY <2>2, <3>1, <3>2 DEF SaveError, PublishKey
    <2> QED BY <2>1, <2>2
  <1> QED BY <1>3, <1>5, <1>6 DEF PromotionFits

LEMMA CommitPromotionKeeps ==
    ASSUME LocksInv, NEW t \in Txs, CommitPromotion(t)
    PROVE  LocksInv'
  <1> DEFINE d == tx[t].id
             old == tx[t].old
             route == tx[t].route
  <1>1. tx[t].op \in Promoting /\ tx[t].at = "commit"
    BY DEF CommitPromotion, Asks
  <1>2. PromotionFits(t) /\ d \in Ready /\ d \in Deployments /\ d # "none" /\ route \in Routes
    BY <1>1, Known, LocksConstants
    DEF StepKnown, PromotionFits, Transactions, RowLocksAssumption, Deployments
  <1>3. SaveError(route) = "ok"
    BY <1>1, SaveSucceeds
  <1>4. /\ alias' = route
        /\ dep' = [e \in Deployments |->
                     IF e = d /\ dep[e].status # "promoted" THEN Moved(dep[e], "promoted")
                     ELSE IF e = old THEN Moved(dep[e], "superseded")
                     ELSE dep[e]]
        /\ outbox' = [outbox EXCEPT ![route.version] = route]
        /\ Finishes(t, "ok") /\ build' = build
    BY <1>3 DEF CommitPromotion, PublishKey
  <1>5. "ok" \in Results \ {"stale", "conflict", "not_unique"}
    BY DEF Results
  <1>6. /\ dep \in [Deployments -> [status : DepStatuses, version : Nat]]
        /\ alias \in Routes /\ outbox \in [Versions -> Routes]
        /\ AliasFits /\ ServedIsPromoted /\ alias.version \in Nat
        /\ "none" \notin Deployments
    BY LocksConstants
    DEF LocksInv, LocksTypeOK, Routes, Versions, RowLocksAssumption, Deployments
  <1>7. \/ alias.current = d /\ route = alias /\ old = "none"
        \/ alias.current # d /\ old = alias.current /\ route = Repointed(alias, d)
    BY <1>1, <1>2 DEF PromotionFits
  <1>8. /\ route.current = d
        /\ route.previous \in Ready \cup {"none"}
        /\ old \in Ready \cup {"none"}
        /\ old # d
        /\ route.version \in Versions /\ route.version \in Nat
    BY <1>2, <1>6, <1>7 DEF Repointed, AliasFits, Routes, Versions
  <1>9. \A e \in Deployments :
           /\ e \notin {d, old} => dep'[e] = dep[e]
           /\ dep'[e] = dep[e] \/ dep'[e].version = dep[e].version + 1
           /\ dep[e].version \in Nat
    BY <1>4, <1>6 DEF Moved
  <1>10. ASSUME NEW u \in Txs, u # t  PROVE StepKnown(u)'
    <2>1. tx'[u] = tx[u] /\ tx[u] \in Transactions /\ StepKnown(u)
      BY <1>4, <1>5, <1>10, Ended, Known
    <2>2. ~InPromotion(u)
      BY <1>1, <1>10, PromotionIsExclusive DEF InPromotion
    <2>3. ASSUME tx[u].op \in Promoting  PROVE PromotionFits(u)'
      <3>1. PromotionFits(u) /\ tx[u].at \notin {"alias", "deployment", "old", "commit"}
        BY <2>1, <2>2, <2>3 DEF StepKnown, InPromotion
      <3> QED BY <2>1, <3>1 DEF PromotionFits
    <2>4. ASSUME tx[u].op = "cancel"  PROVE CancelFits(u)'
      <3>1. CancelFits(u) /\ tx[u].id \in Deployments /\ tx[u].version \in Nat
        BY <2>1, <2>4 DEF StepKnown, Transactions
      <3>2. HasTarget(t, d) /\ (old # "none" => HasTarget(t, old))
        BY <1>1 DEF HasTarget
      <3>3. tx[u].at = "commit" => tx[u].id \notin {d, old}
        BY <1>6, <1>10, <2>4, <3>1, <3>2, TargetIsExclusive DEF HasTarget
      <3>4. tx[u].at = "commit" => dep'[tx[u].id] = dep[tx[u].id] /\ alias'.current # tx[u].id
        BY <1>4, <1>8, <1>9, <3>1, <3>3
      <3>5. CASE dep'[tx[u].id] = dep[tx[u].id]
        BY <2>1, <3>1, <3>4, <3>5 DEF CancelFits
      <3>6. CASE dep'[tx[u].id].version = dep[tx[u].id].version + 1
        BY <1>9, <2>1, <3>1, <3>4, <3>6 DEF CancelFits
      <3> QED BY <1>9, <3>1, <3>5, <3>6
    <2>5. ASSUME tx[u].op \in {"build_event", "cancel_complete"}  PROVE CallbackFits(u)'
      <3>1. CallbackFits(u) /\ tx[u].id \in Building
        BY <2>1, <2>5 DEF StepKnown, CallbackFits
      <3>2. tx[u].id \in Deployments /\ tx[u].id \notin {d, old}
        BY <1>2, <1>6, <1>8, <3>1, BuildsAreNotServed
      <3> QED BY <1>9, <2>1, <3>1, <3>2 DEF CallbackFits
    <2> QED BY <2>1, <2>3, <2>4, <2>5 DEF StepKnown
  <1>11. StepsKnown'
    BY <1>4, <1>5, <1>10, Ended DEF StepsKnown
  <1>12. LocksTypeOK'
    <2>1. tx' \in [Txs -> Transactions]
      BY <1>4, <1>5, Ended
    <2>2. (dep \in [Deployments -> [status : DepStatuses, version : Nat]])'
      BY <1>4, <1>6 DEF Moved, DepStatuses
    <2>3. outbox' \in [Versions -> Routes] /\ alias' \in Routes
      BY <1>2, <1>4, <1>6
    <2> QED BY <1>4, <2>1, <2>2, <2>3 DEF LocksInv, LocksTypeOK
  <1>13. AliasFits'
    <2>1. Saved'
      BY <1>2, <1>4, <1>8 DEF Saved
    <2>2. outbox'[route.version] = route
      BY <1>4, <1>6, <1>8
    <2>3. ASSUME NEW v \in Versions, v > route.version  PROVE outbox'[v] = Unsaved
      <3>1. v > alias.version \/ ~Saved
        BY <1>6, <1>7, <2>3 DEF Repointed, Saved, Versions
      <3>2. outbox'[v] = outbox[v]
        BY <1>4, <1>6, <1>8, <2>3
      <3> QED BY <1>6, <3>1, <3>2 DEF AliasFits
    <2>4. \A e \in Deployments : dep'[e].version = 0 => dep'[e] = dep[e]
      BY <1>9
    <2> QED BY <1>2, <1>4, <1>6, <1>8, <2>1, <2>2, <2>3, <2>4 DEF AliasFits
  <1>14. ServedIsPromoted'
    <2>1. dep'[d].status = "promoted"
      BY <1>2, <1>4, <1>8 DEF Moved
    <2>2. ASSUME NEW e \in Deployments, e # d  PROVE dep'[e].status # "promoted"
      <3>1. CASE e = old
        BY <1>4, <2>2, <3>1 DEF Moved
      <3>2. CASE e # old
        <4>1. dep'[e] = dep[e]
          BY <1>9, <2>2, <3>2
        <4>2. dep[e].status # "promoted"
          BY <1>6, <1>7, <2>2, <3>2 DEF ServedIsPromoted, AliasFits, Saved
        <4> QED BY <4>1, <4>2
      <3> QED BY <3>1, <3>2
    <2> QED BY <1>4, <1>8, <2>1, <2>2 DEF ServedIsPromoted
  <1>15. VersionsLeft'
    <2>1. t \in InFlight /\ InFlight' = InFlight \ {t}
      BY <1>1, <1>4, <1>5, Ended DEF InFlight
    <2>2. Cardinality(InFlight') = Cardinality(InFlight) - 1
      BY <2>1, InFlightCounts, FS_RemoveElement
    <2>3. route.version =< alias.version + 1
      BY <1>6, <1>7 DEF Repointed
    <2>4. MaxVersion \in Nat
      BY LocksConstants DEF RowLocksAssumption
    <2> QED BY <1>4, <1>6, <1>8, <2>2, <2>3, <2>4, InFlightCounts DEF LocksInv, VersionsLeft
  <1> QED BY <1>4, <1>5, <1>11, <1>12, <1>13, <1>14, <1>15, Ended DEF LocksInv

-----------------------------------------------------------------------------
(***************************************************************************)
(* The invariant.                                                          *)
(***************************************************************************)
LEMMA InitInv == LocksInit => LocksInv
  <1> SUFFICES ASSUME LocksInit  PROVE LocksInv
    OBVIOUS
  <1>1. "ok" \in Results /\ Idle("ok") \in Transactions /\ 0 \in Versions
    BY IdleIsTransaction, InFlightCounts, LocksConstants DEF Results, Versions, RowLocksAssumption
  <1>2. Unsaved \in Routes
    BY <1>1 DEF Unsaved, Routes
  <1>3. LocksTypeOK
    BY <1>1, <1>2 DEF LocksInit, LocksTypeOK, DepStatuses
  <1>4. \A t \in Txs : tx[t].op = "none" /\ tx[t].at = "none" /\ tx[t].result = "ok"
    BY DEF LocksInit, Idle
  <1>5. HoldsKnown
    BY <1>4 DEF LocksInit, HoldsKnown, LocksKnown, InPromotion, HasTarget, HasBuild, Promoting
  <1>6. StepsKnown
    BY <1>4 DEF StepsKnown, StepKnown, Promoting
  <1>7. alias.current = "none" /\ alias.previous = "none" /\ alias.version = 0
    BY DEF LocksInit, Unsaved
  <1>8. AliasFits
    BY <1>7 DEF LocksInit, AliasFits, Saved
  <1>9. VersionsLeft
    BY <1>7, InFlightCounts, LocksConstants DEF VersionsLeft, RowLocksAssumption
  <1>10. ServedIsPromoted /\ OnlyExpectedErrors
    BY <1>4, <1>7 DEF ServedIsPromoted, Saved, OnlyExpectedErrors
  <1> QED BY <1>3, <1>5, <1>6, <1>8, <1>9, <1>10 DEF LocksInv

LEMMA StutterKeeps == LocksInv /\ UNCHANGED lockVars => LocksInv'
  <1> SUFFICES ASSUME LocksInv, UNCHANGED lockVars  PROVE LocksInv'
    OBVIOUS
  <1>1. UNCHANGED <<alias, dep, build, outbox>> /\ tx' = tx /\ holds' = holds
    BY DEF lockVars
  <1>2. \A t \in Txs : StepKnown(t)' /\ LocksKnown(t)'
    <2>1. \A t \in Txs : StepKnown(t) /\ LocksKnown(t)
      BY Known
    <2> QED BY <1>1, <2>1
            DEF StepKnown, PromotionFits, CancelFits, CallbackFits, Saved, Repointed,
                LocksKnown, InPromotion, HasTarget, HasBuild
  <1>3. LocksTypeOK' /\ HoldsKnown'
    BY <1>1, <1>2 DEF LocksInv, LocksTypeOK, HoldsKnown
  <1>4. VersionsLeft'
    <2>1. InFlight' = InFlight
      BY <1>1 DEF InFlight
    <2> QED BY <1>1, <2>1 DEF LocksInv, VersionsLeft
  <1>5. OnlyExpectedErrors'
    BY <1>1 DEF LocksInv, OnlyExpectedErrors
  <1> QED BY <1>1, <1>2, <1>3, <1>4, <1>5, RecordsKeep DEF LocksInv, StepsKnown

LEMMA StepInv == LocksInv /\ [LocksNext]_lockVars => LocksInv'
  <1> SUFFICES ASSUME LocksInv, [LocksNext]_lockVars  PROVE LocksInv'
    OBVIOUS
  <1>1. ASSUME NEW t \in Txs, TxStep(t)  PROVE LocksInv'
    BY <1>1, RollbackChecksKeeps, TakeAdvisoryKeeps, TakeAliasKeeps, TakeTargetKeeps,
       TakeOldKeeps, CommitPromotionKeeps, CancelChecksKeeps, CommitCancelKeeps,
       EventLocksKeeps, CommitEventKeeps, CompleteLocksKeeps, CommitCompleteKeeps
    DEF TxStep
  <1>2. ASSUME NEW t \in Txs, DeadlockDetected(t)  PROVE LocksInv'
    BY <1>2, Release DEF DeadlockDetected, Results
  <1> QED BY <1>1, <1>2, AskKeeps, StutterKeeps DEF LocksNext

\* LocksInv holds in every state, for any number of connections, deployments
\* and versions and whichever of the calls happen.
THEOREM LocksInvariant == LocksSpec => []LocksInv
  <1>1. LocksInit => LocksInv
    BY InitInv
  <1>2. LocksInv /\ [LocksNext]_lockVars => LocksInv'
    BY StepInv
  <1> QED BY <1>1, <1>2, PTL DEF LocksSpec
-----------------------------------------------------------------------------
(***************************************************************************)
(* No circle of waiting transactions.  Whoever is about to commit waits    *)
(* for nobody.  So nobody in a circle waits for its holder: a promotion at *)
(* the deployment it supersedes, a callback at the build, then whoever is  *)
(* at a deployment, at the alias and at the advisory lock.                 *)
(***************************************************************************)
\* In a circle, another transaction of it holds what one waits for.
LEMMA WaitsForAnother ==
    ASSUME LocksInv, NEW S \in SUBSET Txs, Deadlocked(S), NEW t \in S
    PROVE  /\ tx[t].op # "none"
           /\ Wanted(t) \in Locks
           /\ \E h \in S : h # t /\ Wanted(t) \in holds[h]
  <1>1. tx[t].op # "none" /\ Waits(t) /\ Holders(Wanted(t)) \cap S # {}
    BY DEF Deadlocked
  <1>2. PICK w \in Txs : w # t /\ Wanted(t) \in holds[w]
    BY <1>1 DEF Waits, Holders
  <1>3. PICK h \in S : Wanted(t) \in holds[h]
    BY <1>1 DEF Holders
  <1>4. h = w
    BY <1>2, <1>3 DEF LocksInv, HoldsKnown
  <1>5. Wanted(t) \in Locks
    BY <1>2 DEF LocksInv, HoldsKnown
  <1> QED BY <1>1, <1>2, <1>3, <1>4, <1>5

\* Nobody in a circle is about to commit.
LEMMA NoCommitInCircle ==
    ASSUME LocksInv, NEW S \in SUBSET Txs, Deadlocked(S), NEW t \in S
    PROVE  tx[t].at # "commit"
  <1>1. Wanted(t) \in Locks
    BY WaitsForAnother
  <1>2. <<"nothing", "none">> \notin Locks
    BY DEF Locks
  <1> QED BY <1>1, <1>2 DEF Wanted

\* Nor is a result of the build that waits for the build: who holds the build
\* is completing a cancellation, of a deployment that has moved on.
LEMMA NoEventAtBuildInCircle ==
    ASSUME LocksInv, NEW S \in SUBSET Txs, Deadlocked(S), NEW t \in S,
           tx[t].op = "build_event"
    PROVE  tx[t].at # "build"
  <1> SUFFICES ASSUME tx[t].at = "build"  PROVE FALSE
    OBVIOUS
  <1> DEFINE d == tx[t].id
  <1>1. Wanted(t) = <<"build", d>>
    BY DEF Wanted
  <1>2. d \in Building /\ dep[d].version = 0
    BY Known DEF StepKnown, CallbackFits
  <1>3. PICK h \in S : <<"build", d>> \in holds[h]
    BY <1>1, WaitsForAnother
  <1>4. HasBuild(h, d)
    BY <1>2, <1>3, Known DEF LocksKnown
  <1>5. dep[d].status = "canceling"
    BY <1>4, Known DEF HasBuild, StepKnown, CallbackFits
  <1>6. dep[d].status = "building"
    BY <1>2, BuildsAreNotServed DEF LocksInv, AliasFits
  <1> QED BY <1>5, <1>6

\* Nor a promotion that waits for the deployment it supersedes: who holds it
\* commits next, or goes on with the build.
LEMMA NoOldInCircle ==
    ASSUME LocksInv, NEW S \in SUBSET Txs, Deadlocked(S), NEW t \in S
    PROVE  ~(tx[t].op \in Promoting /\ tx[t].at = "old")
  <1> SUFFICES ASSUME tx[t].op \in Promoting, tx[t].at = "old"  PROVE FALSE
    OBVIOUS
  <1> DEFINE d == tx[t].old
  <1>1. Wanted(t) = <<"deployment", d>>
    BY DEF Wanted
  <1>2. d \in Deployments
    BY WaitsForAnother, <1>1, LockNames DEF Locks
  <1>3. PICK h \in S : h # t /\ <<"deployment", d>> \in holds[h]
    BY <1>1, WaitsForAnother
  <1>4. HasTarget(h, d)
    BY <1>2, <1>3, Known DEF LocksKnown
  <1>5. tx[h].at # "commit"
    BY NoCommitInCircle
  <1>6. ~(tx[h].op = "build_event" /\ tx[h].at = "build")
    BY NoEventAtBuildInCircle
  <1>7. InPromotion(h) /\ InPromotion(t)
    BY <1>4, <1>5, <1>6 DEF HasTarget, InPromotion
  <1> QED BY <1>3, <1>7, PromotionIsExclusive

\* So nobody in a circle has locked a deployment.
LEMMA NoTargetInCircle ==
    ASSUME LocksInv, NEW S \in SUBSET Txs, Deadlocked(S), NEW t \in S, NEW d
    PROVE  ~HasTarget(t, d)
BY NoCommitInCircle, NoEventAtBuildInCircle, NoOldInCircle DEF HasTarget

\* And nobody waits for one.
LEMMA NoDeploymentInCircle ==
    ASSUME LocksInv, NEW S \in SUBSET Txs, Deadlocked(S), NEW t \in S
    PROVE  tx[t].at # "deployment"
  <1> SUFFICES ASSUME tx[t].at = "deployment"  PROVE FALSE
    OBVIOUS
  <1> DEFINE d == tx[t].id
  <1>1. Wanted(t) = <<"deployment", d>>
    BY DEF Wanted
  <1>2. d \in Deployments
    BY WaitsForAnother, Known DEF StepKnown
  <1>3. PICK h \in S : <<"deployment", d>> \in holds[h]
    BY <1>1, WaitsForAnother
  <1>4. HasTarget(h, d)
    BY <1>2, <1>3, Known DEF LocksKnown
  <1> QED BY <1>4, NoTargetInCircle

\* Without rollbacks there is no circle.
LEMMA NoCircle ==
    ASSUME LocksInv, "rollback" \notin Ops
    PROVE  NoDeadlock
  <1> SUFFICES ASSUME NEW S \in SUBSET Txs, Deadlocked(S)  PROVE FALSE
    BY DEF NoDeadlock
  <1>1. PICK t \in S : TRUE
    BY DEF Deadlocked
  <1>2. \A u \in S : /\ tx[u].op \in Ops /\ tx[u].op # "none" /\ tx[u].op # "rollback"
                     /\ tx[u].at \notin {"commit", "deployment"}
                     /\ StepKnown(u) /\ LocksKnown(u)
    BY WaitsForAnother, NoCommitInCircle, NoDeploymentInCircle, Known DEF Transactions
  <1>3. \A u \in S : tx[u].op = "promote" => tx[u].at \in {"advisory", "alias"}
    BY <1>2, NoOldInCircle DEF StepKnown, PromotionFits, Promoting
  <1>4. \A u \in S : tx[u].at # "alias"
    <2> SUFFICES ASSUME NEW u \in S, tx[u].at = "alias"  PROVE FALSE
      OBVIOUS
    <2>1. Wanted(u) = <<"alias", "none">>
      BY DEF Wanted
    <2>2. PICK h \in S : h # u /\ <<"alias", "none">> \in holds[h]
      BY <2>1, WaitsForAnother
    <2>3. InPromotion(h)
      BY <1>2, <2>2 DEF LocksKnown
    <2>4. tx[u].op \in Promoting
      BY <1>2, LocksConstants
      DEF StepKnown, CancelFits, CallbackFits, Promoting, RowLocksAssumption
    <2> QED BY <2>2, <2>3, <2>4, PromotionIsExclusive DEF InPromotion
  <1>5. \A u \in S : ~InPromotion(u)
    BY <1>2, <1>3, <1>4 DEF InPromotion, Promoting
  <1>6. \A u \in S : tx[u].op # "promote"
    <2> SUFFICES ASSUME NEW u \in S, tx[u].op = "promote"  PROVE FALSE
      OBVIOUS
    <2>1. Wanted(u) = <<"advisory", "none">>
      BY <1>3, <1>4 DEF Wanted
    <2>2. PICK h \in S : <<"advisory", "none">> \in holds[h]
      BY <2>1, WaitsForAnother
    <2> QED BY <1>2, <1>5, <2>2 DEF LocksKnown
  <1>7. \A u \in S : tx[u].op = "cancel_complete" /\ tx[u].at = "build"
    <2> SUFFICES ASSUME NEW u \in S
                 PROVE  tx[u].op = "cancel_complete" /\ tx[u].at = "build"
      OBVIOUS
    <2>1. tx[u].op \in {"cancel", "build_event", "cancel_complete"}
      BY <1>2, <1>6, LocksConstants DEF RowLocksAssumption
    <2>2. tx[u].op # "cancel"
      BY <1>2 DEF StepKnown, CancelFits
    <2>3. tx[u].op # "build_event"
      BY <1>2, NoEventAtBuildInCircle DEF StepKnown, CallbackFits
    <2> QED BY <1>2, <2>1, <2>2, <2>3 DEF StepKnown, CallbackFits
  <1>8. Wanted(t) = <<"build", tx[t].id>> /\ tx[t].id \in Building
    BY <1>1, <1>2, <1>7 DEF Wanted, StepKnown, CallbackFits
  <1>9. PICK h \in S : <<"build", tx[t].id>> \in holds[h]
    BY <1>1, <1>8, WaitsForAnother
  <1>10. HasBuild(h, tx[t].id)
    BY <1>2, <1>8, <1>9 DEF LocksKnown
  <1> QED BY <1>2, <1>10 DEF HasBuild

-----------------------------------------------------------------------------
(***************************************************************************)
(* What the invariant is for.                                              *)
(***************************************************************************)
\* The environment URL leads to the one promoted deployment.
THEOREM ServedStaysPromoted == LocksSpec => []ServedIsPromoted
  <1>1. LocksInv => ServedIsPromoted
    BY DEF LocksInv
  <1> QED BY <1>1, LocksInvariant, PTL

\* No call fails because a deployment moved after the unlocked look at it, an
\* alias was saved twice, or a routing command was published with other data.
THEOREM ErrorsAreExpected == LocksSpec => []OnlyExpectedErrors
  <1>1. LocksInv => OnlyExpectedErrors
    BY DEF LocksInv
  <1> QED BY <1>1, LocksInvariant, PTL

\* Promotions, cancellations and the callbacks of builds never wait for each
\* other in a circle, although the callbacks take the deployment and the build
\* in both orders; with rollbacks they do.
THEOREM NoCircularWait ==
    ASSUME "rollback" \notin Ops
    PROVE  LocksSpec => []NoDeadlock
  <1>1. LocksInv => NoDeadlock
    BY NoCircle
  <1> QED BY <1>1, LocksInvariant, PTL

\* The three together, as the run checks them.
THEOREM TransactionsStaySafe == LocksSpec => []TransactionsSafe
  <1>1. LocksInv => TransactionsSafe
    BY NoCircle DEF LocksInv, TransactionsSafe
  <1> QED BY <1>1, LocksInvariant, PTL

-----------------------------------------------------------------------------
(***************************************************************************)
(* ApiIdempotency.                                                         *)
(***************************************************************************)
LEMMA IdemInit == Init => IdemInv
<1> SUFFICES ASSUME Init PROVE IdemInv
  OBVIOUS
<1>1. Free \in Request /\ Free.pc = "idle"
  BY DEF Free, Request
<1> QED
  BY <1>1
  DEF Init, IdemInv, IdemTypeOK, LocksHeld, HoldsKey, RequestsShaped, UnusedKeys,
      GuardedIsFresh

\* What one thread becomes, and that the others stay.
Becomes(r, q) ==
    /\ q \in Request
    /\ req' \in [Requests -> Request]
    /\ req'[r] = q
    /\ \A p \in Requests \ {r} : req'[p] = req[p]

LEMMA EndsFacts ==
    ASSUME IdemTypeOK, NEW r \in Requests, Ends(r)
    PROVE  \E q \in Request : Becomes(r, q) /\ q.pc = "idle"
  BY DEF Ends, Becomes, IdemTypeOK, Free, Request

LEMMA GotoFacts ==
    ASSUME IdemTypeOK, NEW r \in Requests, NEW pc \in {"find", "yield"}, Goto(r, pc)
    PROVE  \E q \in Request : /\ Becomes(r, q) /\ q.pc = pc
                              /\ q.key = req[r].key /\ q.digest = req[r].digest
  BY DEF Goto, Becomes, IdemTypeOK, Request

\* A thread that moves while records, version and answers stay keeps the
\* invariant when it may enter the place it moves to.
LEMMA MovesInv ==
    ASSUME IdemInv, NEW r \in Requests, NEW q \in Request, Becomes(r, q),
           UNCHANGED <<record, version, effects>>,
           told' \in [Keys -> SUBSET Record],
           \A k \in Keys : record[k] = NoRecord => told'[k] = told[k],
           q.pc # "idle" => q.key \in Keys /\ q.digest \in Digests,
           q.pc \in {"yield", "commit"} => record[q.key] = NoRecord,
           q.pc \in {"find", "yield", "commit"} =>
               KeyFree(q.key) \/ HoldsKey(r, q.key),
           q.pc = "commit" => /\ RowFree /\ q.body \in Bodies
                              /\ q.digest \in Guarded => q.seen = version
    PROVE  IdemInv'
<1>1. /\ req' \in [Requests -> Request] /\ req'[r] = q
      /\ \A p \in Requests \ {r} : req'[p] = req[p]
  BY DEF Becomes
<1>2. IdemTypeOK'
  BY <1>1 DEF IdemInv, IdemTypeOK
<1>3. LocksHeld'
  BY <1>1 DEF IdemInv, LocksHeld, HoldsKey, KeyFree, RowFree
<1>4. RequestsShaped'
  BY <1>1 DEF IdemInv, RequestsShaped, NoRecord
<1>5. UnusedKeys'
  BY DEF IdemInv, UnusedKeys, NoRecord
<1>6. GuardedIsFresh'
  BY <1>1 DEF IdemInv, GuardedIsFresh
<1> QED
  BY <1>2, <1>3, <1>4, <1>5, <1>6 DEF IdemInv

\* What a commit does: it inserts the record of a key that has none, counts the
\* execution and gives the answer, which is the first under the key.
LEMMA CommitFacts ==
    ASSUME IdemInv, NEW r \in Requests, Commit(r)
    PROVE  LET k == req[r].key
               n == [digest |-> req[r].digest, result |-> req[r].body]
           IN /\ k \in Keys /\ req[r].digest \in Digests /\ req[r].body \in Bodies
              /\ n \in Record /\ n # NoRecord
              /\ record[k] = NoRecord
              /\ record' = [record EXCEPT ![k] = n]
              /\ version' = version + 1
              /\ effects[k] = 0 /\ effects' = [effects EXCEPT ![k] = 1]
              /\ told[k] = {} /\ told' = [told EXCEPT ![k] = {n}]
              /\ Ends(r) /\ req[r].pc = "commit"
<1> DEFINE k == req[r].key
           n == [digest |-> req[r].digest, result |-> req[r].body]
<1>1. req[r].pc = "commit" /\ Ends(r)
  BY DEF Commit
<1>2. /\ k \in Keys /\ req[r].digest \in Digests /\ req[r].body \in Bodies
      /\ record[k] = NoRecord
  BY <1>1 DEF IdemInv, RequestsShaped
<1>3. n \in Record /\ n # NoRecord
  BY <1>2, ApiConstants DEF Record, NoRecord, ApiAssumption
<1>4. effects[k] = 0 /\ told[k] = {}
  BY <1>2 DEF IdemInv, UnusedKeys
<1>5. /\ record' = [record EXCEPT ![k] = n]
      /\ version' = version + 1
      /\ effects' = [effects EXCEPT ![k] = @ + 1]
      /\ told' = [told EXCEPT ![k] = @ \cup {n}]
  BY <1>2 DEF Commit, Tell
<1>6. effects \in [Keys -> Nat] /\ told \in [Keys -> SUBSET Record]
  BY DEF IdemInv, IdemTypeOK
<1>7. effects' = [effects EXCEPT ![k] = 1]
  BY <1>2, <1>4, <1>5, <1>6
<1>8. told' = [told EXCEPT ![k] = {n}]
  BY <1>2, <1>4, <1>5, <1>6
<1> QED
  BY <1>1, <1>2, <1>3, <1>4, <1>5, <1>7, <1>8

LEMMA CommitInv ==
    ASSUME IdemInv, NEW r \in Requests, Commit(r)
    PROVE  IdemInv'
<1> DEFINE k == req[r].key
           n == [digest |-> req[r].digest, result |-> req[r].body]
<1>1. /\ k \in Keys /\ n \in Record /\ n # NoRecord
      /\ record' = [record EXCEPT ![k] = n] /\ version' = version + 1
      /\ effects' = [effects EXCEPT ![k] = 1] /\ told' = [told EXCEPT ![k] = {n}]
      /\ req[r].pc = "commit" /\ Ends(r)
  BY CommitFacts
<1> HIDE DEF n
<1>2. PICK q \in Request : Becomes(r, q) /\ q.pc = "idle"
  BY <1>1, EndsFacts DEF IdemInv
<1>3. /\ req' \in [Requests -> Request] /\ req'[r].pc = "idle"
      /\ \A p \in Requests \ {r} : req'[p] = req[p]
  BY <1>2 DEF Becomes
<1>4. HoldsKey(r, k)
  BY <1>1 DEF HoldsKey
<1>5. IdemTypeOK'
  BY <1>1, <1>3 DEF IdemInv, IdemTypeOK
<1>6. LocksHeld'
  BY <1>3 DEF IdemInv, LocksHeld, HoldsKey
<1>7. RequestsShaped'
  <2> SUFFICES ASSUME NEW p \in Requests, req'[p].pc # "idle"
               PROVE  /\ req'[p].key \in Keys /\ req'[p].digest \in Digests
                      /\ req'[p].pc = "commit" => req'[p].body \in Bodies
                      /\ req'[p].pc \in {"yield", "commit"} => record'[req'[p].key] = NoRecord
    BY DEF RequestsShaped, NoRecord
  <2>1. p # r /\ req'[p] = req[p]
    BY <1>3
  <2>2. req[p].pc \in {"yield", "commit"} => req[p].key # k
    BY <1>1, <1>4, <2>1 DEF IdemInv, LocksHeld, HoldsKey
  <2> QED
    BY <1>1, <2>1, <2>2 DEF IdemInv, RequestsShaped, IdemTypeOK
<1>8. UnusedKeys'
  <2> SUFFICES ASSUME NEW j \in Keys, record'[j] = NoRecord
               PROVE  effects'[j] = 0 /\ told'[j] = {}
    BY DEF UnusedKeys, NoRecord
  <2>1. j # k
    BY <1>1 DEF IdemInv, IdemTypeOK
  <2> QED
    BY <1>1, <2>1 DEF IdemInv, IdemTypeOK, UnusedKeys
<1>9. GuardedIsFresh'
  BY <1>1, <1>3 DEF IdemInv, LocksHeld, GuardedIsFresh
<1> QED
  BY <1>5, <1>6, <1>7, <1>8, <1>9 DEF IdemInv

\* A replay gives the answer that is on record.
LEMMA FindFacts ==
    ASSUME IdemInv, NEW r \in Requests, Find(r)
    PROVE  LET k == req[r].key IN
           /\ k \in Keys /\ req[r].pc = "find" /\ UNCHANGED <<record, effects>>
           /\ \/ record[k] = NoRecord /\ Goto(r, "yield") /\ UNCHANGED told
              \/ record[k] # NoRecord /\ Ends(r) /\ UNCHANGED told
              \/ /\ record[k] # NoRecord /\ Ends(r) /\ record[k] \in Record
                 /\ told' = [told EXCEPT ![k] = @ \cup {record[k]}]
<1> DEFINE k == req[r].key
<1>1. k \in Keys /\ req[r].pc = "find" /\ UNCHANGED <<record, effects>>
  BY DEF Find, IdemInv, RequestsShaped
<1>2. CASE record[k] # NoRecord /\ Ends(r) /\ SameRequest(r) /\ Tell(r, record[k].result)
  <2>1. record[k] \in Record
    BY <1>1, <1>2 DEF IdemInv, IdemTypeOK
  <2>2. [digest |-> req[r].digest, result |-> record[k].result] = record[k]
    BY <1>2, <2>1 DEF SameRequest, Record
  <2> QED
    BY <1>1, <1>2, <2>1, <2>2 DEF Tell
<1> QED
  BY <1>1, <1>2 DEF Find

LEMMA FindInv ==
    ASSUME IdemInv, NEW r \in Requests, Find(r)
    PROVE  IdemInv'
<1> DEFINE k == req[r].key
<1>1. /\ k \in Keys /\ req[r].pc = "find"
      /\ \/ record[k] = NoRecord /\ Goto(r, "yield") /\ UNCHANGED told
         \/ record[k] # NoRecord /\ Ends(r) /\ UNCHANGED told
         \/ /\ record[k] # NoRecord /\ Ends(r) /\ record[k] \in Record
            /\ told' = [told EXCEPT ![k] = @ \cup {record[k]}]
  BY FindFacts
<1>2. IdemTypeOK /\ UNCHANGED <<record, version, effects>>
  BY DEF IdemInv, Find
<1>3. told' \in [Keys -> SUBSET Record] /\ (\A j \in Keys : record[j] = NoRecord => told'[j] = told[j])
  BY <1>1, <1>2 DEF IdemTypeOK
<1>4. CASE Goto(r, "yield") /\ record[k] = NoRecord
  <2>1. PICK q \in Request : /\ Becomes(r, q) /\ q.pc = "yield"
                             /\ q.key = k /\ q.digest = req[r].digest
    BY <1>2, <1>4, GotoFacts
  <2>2. HoldsKey(r, k) /\ req[r].digest \in Digests
    BY <1>1 DEF HoldsKey, IdemInv, RequestsShaped
  <2> QED
    BY <1>1, <1>2, <1>3, <1>4, <2>1, <2>2, MovesInv
<1>5. CASE Ends(r)
  <2>1. PICK q \in Request : Becomes(r, q) /\ q.pc = "idle"
    BY <1>2, <1>5, EndsFacts
  <2> QED
    BY <1>2, <1>3, <2>1, MovesInv
<1> QED
  BY <1>1, <1>4, <1>5

LEMMA IdemStep == IdemInv /\ [Next]_vars => IdemInv'
<1> SUFFICES ASSUME IdemInv, [Next]_vars PROVE IdemInv'
  OBVIOUS
<1>0. IdemTypeOK
  BY DEF IdemInv
<1>1. ASSUME NEW r \in Requests, NEW k \in Keys, NEW d \in Digests, Arrive(r, k, d)
      PROVE  IdemInv'
  <2> DEFINE q == [Free EXCEPT !.pc = "lock", !.key = k, !.digest = d, !.seen = version]
  <2>1. q \in Request /\ q.pc = "lock" /\ q.key = k /\ q.digest = d
    BY <1>0 DEF Free, Request, IdemTypeOK
  <2>2. req' = [req EXCEPT ![r] = q] /\ UNCHANGED <<record, version, effects, told>>
    BY <1>1 DEF Arrive
  <2> HIDE DEF q
  <2>3. Becomes(r, q)
    BY <1>0, <2>1, <2>2 DEF Becomes, IdemTypeOK
  <2> QED
    BY <1>0, <2>1, <2>2, <2>3, MovesInv DEF IdemTypeOK
<1>2. ASSUME NEW r \in Requests, Lock(r) PROVE IdemInv'
  <2>1. /\ req[r].pc = "lock" /\ KeyFree(req[r].key) /\ Goto(r, "find")
        /\ UNCHANGED <<record, version, effects, told>>
    BY <1>2 DEF Lock
  <2>2. PICK q \in Request : /\ Becomes(r, q) /\ q.pc = "find"
                             /\ q.key = req[r].key /\ q.digest = req[r].digest
    BY <1>0, <2>1, GotoFacts
  <2>3. req[r].key \in Keys /\ req[r].digest \in Digests
    BY <2>1 DEF IdemInv, RequestsShaped
  <2> QED
    BY <1>0, <2>1, <2>2, <2>3, MovesInv DEF IdemTypeOK
<1>3. ASSUME NEW r \in Requests, NEW x \in Bodies, Yield(r, x) PROVE IdemInv'
  <2> DEFINE f == [req[r] EXCEPT !.pc = "commit"]
             q == [f EXCEPT !.body = x]
  <2>1. /\ req[r].pc = "yield" /\ RowFree /\ (req[r].digest \in Guarded => req[r].seen = version)
        /\ req' = [req EXCEPT ![r] = q]
        /\ UNCHANGED <<record, version, effects, told>>
    BY <1>3 DEF Yield
  <2>2. req[r] \in Request /\ req[r].key \in Keys /\ req[r].digest \in Digests
        /\ record[req[r].key] = NoRecord /\ HoldsKey(r, req[r].key)
    BY <1>0, <2>1 DEF IdemInv, IdemTypeOK, RequestsShaped, HoldsKey
  <2>3. /\ f \in Request /\ f.pc = "commit" /\ f.key = req[r].key /\ f.digest = req[r].digest
        /\ f.seen = req[r].seen
    BY <2>2 DEF Request
  <2> HIDE DEF f
  <2>4. /\ q \in Request /\ q.pc = "commit" /\ q.key = req[r].key /\ q.digest = req[r].digest
        /\ q.seen = req[r].seen /\ q.body = x
    BY <2>3 DEF Request
  <2> HIDE DEF q
  <2>5. Becomes(r, q)
    BY <1>0, <2>1, <2>4 DEF Becomes, IdemTypeOK
  <2> QED
    BY <1>0, <2>1, <2>2, <2>4, <2>5, MovesInv DEF IdemTypeOK
<1>4. ASSUME NEW r \in Requests, Raise(r) \/ Crash(r) PROVE IdemInv'
  <2>1. Ends(r) /\ UNCHANGED <<record, version, effects, told>>
    BY <1>4 DEF Raise, Crash
  <2>2. PICK q \in Request : Becomes(r, q) /\ q.pc = "idle"
    BY <1>0, <2>1, EndsFacts
  <2> QED
    BY <1>0, <2>1, <2>2, MovesInv DEF IdemTypeOK
<1>5. ASSUME Advance PROVE IdemInv'
  <2>1. RowFree /\ version' = version + 1 /\ UNCHANGED <<record, req, effects, told>>
    BY <1>5 DEF Advance
  <2> QED
    BY <2>1
    DEF IdemInv, IdemTypeOK, LocksHeld, HoldsKey, RequestsShaped, UnusedKeys, NoRecord,
        GuardedIsFresh, RowFree
<1>6. CASE UNCHANGED vars
  BY <1>6
  DEF vars, IdemInv, IdemTypeOK, LocksHeld, HoldsKey, RequestsShaped, UnusedKeys, NoRecord,
      GuardedIsFresh
<1> QED
  BY <1>1, <1>2, <1>3, <1>4, <1>5, <1>6, FindInv, CommitInv DEF Next, Step

\* IdemInv holds in every reachable state.
THEOREM IdempotencyInvariant == Spec => []IdemInv
<1> QED
  BY IdemInit, IdemStep, PTL DEF Spec

\* InsertIsAlone: under the advisory lock nobody comes to the insert of a record
\* that is there already (Execute#acquire_lock!).
THEOREM InsertsAreAlone == Spec => []InsertIsAlone
<1>1. IdemInv => InsertIsAlone
  BY DEF IdemInv, RequestsShaped, InsertIsAlone, NoRecord
<1> QED
  BY <1>1, IdempotencyInvariant, PTL

\* GuardedIsFresh: what insists on a version commits on the one its request read.
THEOREM GuardedStaysFresh == Spec => []GuardedIsFresh
<1>1. IdemInv => GuardedIsFresh
  BY DEF IdemInv
<1> QED
  BY <1>1, IdempotencyInvariant, PTL

\* ExecutedOnce: however requests with a key overlap, raise, die and are sent
\* again, the operation of the key takes effect at most once, and every answer
\* is the answer of that execution (services/api/idempotency/execute.rb).
THEOREM KeysExecuteOnce == Spec => ExecutedOnce
<1>1. Init => Contract!Init
  BY DEF Init, Contract!Init, Contract!NotConsumed, NoRecord
<1>2. IdemInv /\ [Next]_vars => [Contract!Next]_(Contract!contractVars)
  <2> SUFFICES ASSUME IdemInv, [Next]_vars
               PROVE  Contract!Next \/ UNCHANGED <<record, effects, told>>
    BY DEF Contract!contractVars
  <2>1. ASSUME NEW r \in Requests, Commit(r) PROVE Contract!Next
    <3> DEFINE k == req[r].key
               d == req[r].digest
               x == req[r].body
               n == [digest |-> d, result |-> x]
    <3>1. /\ k \in Keys /\ d \in Digests /\ x \in Bodies
          /\ record[k] = NoRecord
          /\ record' = [record EXCEPT ![k] = n]
          /\ effects' = [effects EXCEPT ![k] = 1] /\ told' = [told EXCEPT ![k] = {n}]
      BY <2>1, CommitFacts
    <3>2. record'[k] = n
      BY <3>1 DEF IdemInv, IdemTypeOK
    <3>3. Contract!Consume(k, d, x)
      BY <3>1, <3>2 DEF Contract!Consume, Contract!NotConsumed, NoRecord
    <3> HIDE DEF k, d, x, n
    <3> QED
      BY <3>1, <3>3 DEF Contract!Next
  <2>2. ASSUME NEW r \in Requests, Find(r)
        PROVE  Contract!Next \/ UNCHANGED <<record, effects, told>>
    <3> DEFINE k == req[r].key
    <3>1. /\ k \in Keys /\ UNCHANGED <<record, effects>>
          /\ \/ UNCHANGED told
             \/ /\ record[k] # NoRecord
                /\ told' = [told EXCEPT ![k] = @ \cup {record[k]}]
      BY <2>2, FindFacts
    <3>2. UNCHANGED told \/ Contract!Replay(k)
      BY <3>1 DEF Contract!Replay, Contract!NotConsumed, NoRecord
    <3> HIDE DEF k
    <3> QED
      BY <3>1, <3>2 DEF Contract!Next
  <2>3. \/ UNCHANGED <<record, effects, told>>
        \/ \E r \in Requests : Commit(r) \/ Find(r)
    BY DEF vars, Next, Step, Arrive, Lock, Yield, Raise, Crash, Advance
  <2> QED
    BY <2>1, <2>2, <2>3
<1> QED
  BY <1>1, <1>2, IdempotencyInvariant, PTL DEF Spec, ExecutedOnce, Contract!Spec

\* RequestsSafe: the two together, as the run checks them.
THEOREM RequestsStaySafe == Spec => []RequestsSafe
<1>1. IdemInv => RequestsSafe
  BY DEF IdemInv, RequestsSafe, RequestsShaped, InsertIsAlone, NoRecord
<1> QED
  BY <1>1, IdempotencyInvariant, PTL

-----------------------------------------------------------------------------
(***************************************************************************)
(* Sign-in.                                                                *)
(***************************************************************************)
LEMMA AccessInitInv ==
    ASSUME AccessAssumption, AccessInit
    PROVE  AccessInv
  BY DEF AccessAssumption, AccessInit, AccessInv, AccessTypeOK, Elected, ThreadsKnown, KeysInHand,
         OneSessionPerKey, InHand, NoAsk, NoConfirm, States, Tokens

\* What the threads of the module hold.
ASK == [pc : {"idle", "lock", "decide", "create"}, of : Users \cup {"none"}, state : States]
CONFIRM == [pc : {"idle", "claim", "lock", "write", "match", "session"},
            of : Users \cup {"none"}, token : 0..MaxKeys, state : States]

LEMMA ThreadsTyped ==
    ASSUME AccessAssumption, AccessTypeOK
    PROVE  /\ \A t \in Askers : ask[t] \in ASK
           /\ \A t \in Confirmers : confirm[t] \in CONFIRM
           /\ NoAsk \in ASK /\ NoConfirm \in CONFIRM /\ NoAsk.pc = "idle" /\ NoConfirm.pc = "idle"
  BY DEF AccessTypeOK, ASK, CONFIRM, NoAsk, NoConfirm, States, AccessAssumption

\* A step that sends links changes nothing of those that follow them.
LEMMA AskStep ==
    ASSUME AccessAssumption, AccessInv, NEW t \in Askers, NEW a \in ASK,
           ask' = [ask EXCEPT ![t] = a], asks' = asks \/ asks' = asks + 1,
           UNCHANGED <<owners, claimed, sessions, confirm>>,
           a.pc # "idle" => a.of \in Users,
           a.pc = "decide" /\ a.state # "none" => user'[a.of] # "none",
           NEW u \in Users,
           \/ UNCHANGED <<user, key, issued>>
           \/ UNCHANGED <<user>> /\ user[u] # "none" /\ Issue(u)
           \/ user' = [user EXCEPT ![u] = "blocked"] /\ UNCHANGED <<key, issued>>
           \/ user' = [user EXCEPT ![u] = "bootstrap_candidate"] /\ Issue(u)
    PROVE  AccessInv'
<1>1. \A s \in Askers : ask'[s] = IF s = t THEN a ELSE ask[s]
  BY DEF AccessInv, AccessTypeOK
<1>2. /\ issued \in Nat /\ issued' \in Nat /\ issued <= issued' /\ issued' \in 0..MaxKeys
      /\ key \in [Users -> 0..MaxKeys] /\ key' \in [Users -> 0..MaxKeys]
      /\ \A v \in Users : key'[v] <= issued'
      /\ \A v \in Users : v # u => key'[v] = key[v]
  BY DEF AccessInv, AccessTypeOK, Issue, AccessAssumption, ThreadsKnown
<1>3. /\ user \in [Users -> States] /\ user' \in [Users -> States]
      /\ \A v \in Users : v # u => user'[v] = user[v]
      /\ \A v \in Users : user[v] # "none" => user'[v] # "none"
      /\ \A v \in Users : user'[v] = "active" => user[v] = "active"
      /\ \A v \in Users : user'[v] = "none" => key'[v] = 0
  BY DEF AccessInv, AccessTypeOK, Issue, States
<1>4. ask' \in [Askers -> ASK]
  BY DEF AccessInv, AccessTypeOK, ASK
<1>5. AccessTypeOK'
  BY <1>2, <1>3, <1>4 DEF AccessInv, AccessTypeOK, ASK
<1>6. Elected'
  BY <1>3 DEF AccessInv, Elected
<1>7. ThreadsKnown'
  BY <1>1, <1>2, <1>3 DEF AccessInv, ThreadsKnown
<1>8. KeysInHand'
  BY DEF AccessInv, KeysInHand, InHand, OneSessionPerKey
<1> QED BY <1>5, <1>6, <1>7, <1>8 DEF AccessInv

LEMMA AskSteps ==
    ASSUME AccessAssumption, AccessInv, NEW t \in Askers,
           Look(t) \/ Decide(t) \/ Create(t) \/ \E u \in Users : AskForLink(t, u)
    PROVE  AccessInv'
<1>0. /\ AccessTypeOK /\ ask[t] \in ASK /\ NoAsk \in ASK /\ NoAsk.pc = "idle"
  BY ThreadsTyped DEF AccessInv
<1>1. ASSUME NEW u \in Users, AskForLink(t, u) PROVE AccessInv'
  <2> DEFINE a == [pc |-> "lock", of |-> u, state |-> "none"]
  <2>1. a \in ASK /\ a.pc = "lock" /\ a.of = u
    BY DEF ASK, States
  <2>2. /\ ask' = [ask EXCEPT ![t] = a] /\ asks' = asks + 1
        /\ UNCHANGED <<owners, claimed, sessions, confirm>> /\ UNCHANGED <<user, key, issued>>
    BY <1>1 DEF AskForLink
  <2> HIDE DEF a
  <2> QED BY <2>1, <2>2, AskStep
<1>2. ASSUME Look(t) PROVE AccessInv'
  <2>1. ask[t].of \in Users /\ user[ask[t].of] \in States
    BY <1>2 DEF Look, AccessInv, ThreadsKnown, AccessTypeOK
  <2>2. PICK a : a = [ask[t] EXCEPT !.pc = "decide", !.state = user[ask[t].of]]
    OBVIOUS
  <2>3. a \in ASK /\ a.pc = "decide" /\ a.of = ask[t].of /\ a.state = user[ask[t].of]
    BY <1>0, <2>1, <2>2 DEF ASK
  <2>4. /\ ask' = [ask EXCEPT ![t] = a] /\ asks' = asks
        /\ UNCHANGED <<owners, claimed, sessions, confirm>> /\ UNCHANGED <<user, key, issued>>
    BY <1>2, <2>2 DEF Look
  <2> QED BY <2>1, <2>3, <2>4, AskStep
<1>3. ASSUME Decide(t) PROVE AccessInv'
  <2>1. PICK u \in Users : u = ask[t].of
    BY <1>3 DEF Decide, AccessInv, ThreadsKnown
  <2>2. UNCHANGED <<owners, claimed, sessions, confirm, asks>> /\ ask[t].pc = "decide"
    BY <1>3 DEF Decide
  <2>3. CASE Asked(t)
    <3>1. \/ UNCHANGED <<user, key, issued>>
          \/ UNCHANGED user /\ ask[t].state # "none" /\ Issue(u)
          \/ user' = [user EXCEPT ![u] = "blocked"] /\ UNCHANGED <<key, issued>>
      BY <1>3, <2>1, <2>3 DEF Decide
    <3>2. ask[t].state # "none" => user[u] # "none"
      BY <2>1, <2>2 DEF AccessInv, ThreadsKnown
    <3>3. ask' = [ask EXCEPT ![t] = NoAsk]
      BY <2>3 DEF Asked
    <3> QED BY <1>0, <2>2, <3>1, <3>2, <3>3, AskStep
  <2>4. CASE ~Asked(t)
    <3>1. PICK a : a = [ask[t] EXCEPT !.pc = "create"]
      OBVIOUS
    <3>2. a \in ASK /\ a.pc = "create" /\ a.of = u
      BY <1>0, <2>1, <3>1 DEF ASK
    <3>3. ask' = [ask EXCEPT ![t] = a] /\ UNCHANGED <<user, key, issued>>
      BY <1>3, <2>4, <3>1 DEF Decide
    <3> QED BY <2>2, <3>2, <3>3, AskStep
  <2> QED BY <2>3, <2>4
<1>4. ASSUME Create(t) PROVE AccessInv'
  <2>1. PICK u \in Users : u = ask[t].of
    BY <1>4 DEF Create, AccessInv, ThreadsKnown
  <2>2. /\ UNCHANGED <<owners, claimed, sessions, confirm, asks>> /\ ask' = [ask EXCEPT ![t] = NoAsk]
        /\ user' = [user EXCEPT ![u] = "bootstrap_candidate"] /\ Issue(u)
    BY <1>4, <2>1 DEF Create, Asked
  <2> QED BY <1>0, <2>2, AskStep
<1> QED BY <1>1, <1>2, <1>3, <1>4

LEMMA ExpireStep ==
    ASSUME AccessAssumption, AccessInv, NEW u \in Users, Expire(u)
    PROVE  AccessInv'
<1>1. /\ key' \in [Users -> 0..MaxKeys] /\ issued \in Nat
      /\ \A v \in Users : key'[v] = IF v = u THEN 0 ELSE key[v]
      /\ UNCHANGED <<user, owners, issued, claimed, sessions, ask, confirm, asks>>
  BY DEF Expire, AccessInv, AccessTypeOK, AccessAssumption
<1>2. AccessTypeOK'
  BY <1>1 DEF AccessInv, AccessTypeOK
<1>3. Elected' /\ ThreadsKnown' /\ KeysInHand'
  BY <1>1 DEF AccessInv, Elected, ThreadsKnown, KeysInHand, InHand, OneSessionPerKey
<1> QED BY <1>2, <1>3 DEF AccessInv

\* A thread that follows links moves on, or is done.
LEMMA ConfirmStep ==
    ASSUME AccessAssumption, AccessInv, NEW t \in Confirmers, NEW c \in CONFIRM,
           confirm' = [confirm EXCEPT ![t] = c],
           UNCHANGED <<owners, user, issued, claimed, sessions, ask, asks>>,
           UNCHANGED key \/ key' = [key EXCEPT ![confirm[t].of] = 0],
           c.pc # "idle" => /\ c.of \in Users /\ c.token \in 1..issued /\ user[c.of] # "none",
           c.pc = "write" => BootstrapFree(c.of),
           c.pc = "write" /\ c.state = "bootstrap_candidate" => owners = {},
           c.pc \in {"lock", "write", "match", "session"} => InHand(t) /\ c.token = confirm[t].token
    PROVE  AccessInv'
<1>1. \A s \in Confirmers : confirm'[s] = IF s = t THEN c ELSE confirm[s]
  BY DEF AccessInv, AccessTypeOK
<1>2. confirm' \in [Confirmers -> CONFIRM]
  BY DEF AccessInv, AccessTypeOK, CONFIRM
<1>3. key' \in [Users -> 0..MaxKeys] /\ \A v \in Users : key'[v] = key[v] \/ key'[v] = 0
  BY DEF AccessInv, AccessTypeOK, AccessAssumption
<1>4. AccessTypeOK'
  BY <1>2, <1>3 DEF AccessInv, AccessTypeOK, CONFIRM
<1>5. Elected'
  BY <1>1 DEF AccessInv, Elected, BootstrapFree
<1>6. issued \in Nat
  BY DEF AccessInv, AccessTypeOK, AccessAssumption
<1>7. ThreadsKnown'
  BY <1>1, <1>3, <1>6 DEF AccessInv, ThreadsKnown
<1>8. KeysInHand'
  BY <1>1 DEF AccessInv, KeysInHand, InHand, OneSessionPerKey
<1> QED BY <1>4, <1>5, <1>7, <1>8 DEF AccessInv

LEMMA ClaimStep ==
    ASSUME AccessAssumption, AccessInv, NEW t \in Confirmers, Claim(t)
    PROVE  AccessInv'
<1>1. /\ AccessTypeOK /\ confirm[t] \in CONFIRM /\ NoConfirm \in CONFIRM /\ NoConfirm.pc = "idle"
      /\ issued \in Nat
  BY ThreadsTyped DEF AccessInv, AccessTypeOK, AccessAssumption
<1>2. CASE Done(t) /\ UNCHANGED claimed
  <2>1. /\ confirm' = [confirm EXCEPT ![t] = NoConfirm]
        /\ UNCHANGED <<owners, user, issued, claimed, sessions, ask, asks>> /\ UNCHANGED key
    BY <1>2 DEF Done, Claim
  <2> QED BY <1>1, <2>1, ConfirmStep
<1>3. CASE /\ Unclaimed(confirm[t].token)
           /\ claimed' = claimed \cup {confirm[t].token}
           /\ confirm' = [confirm EXCEPT ![t].pc = "lock"]
  <2>1. PICK n, c : n = confirm[t].token /\ c = [confirm[t] EXCEPT !.pc = "lock"]
    OBVIOUS
  <2>2. /\ n \in 1..issued /\ confirm[t].of \in Users /\ user[confirm[t].of] # "none"
        /\ n \notin claimed
    BY <1>3, <2>1 DEF Claim, AccessInv, ThreadsKnown, Unclaimed
  <2>3. /\ c \in CONFIRM /\ c.pc = "lock" /\ c.of = confirm[t].of /\ c.token = n
    BY <1>1, <2>1 DEF CONFIRM
  <2>4. /\ confirm' = [confirm EXCEPT ![t] = c] /\ claimed' = claimed \cup {n}
        /\ UNCHANGED <<user, owners, key, issued, sessions, ask, asks>>
    BY <1>3, <2>1 DEF Claim
  <2>5. \A s \in Confirmers : confirm'[s] = IF s = t THEN c ELSE confirm[s]
    BY <1>1, <2>4 DEF AccessTypeOK
  <2>6. confirm' \in [Confirmers -> CONFIRM]
    BY <1>1, <2>3, <2>4 DEF AccessTypeOK, CONFIRM
  <2>7. AccessTypeOK'
    BY <1>1, <2>2, <2>4, <2>6 DEF AccessTypeOK, CONFIRM
  <2>8. Elected' /\ ThreadsKnown'
    BY <2>2, <2>3, <2>4, <2>5 DEF AccessInv, Elected, ThreadsKnown
  <2>9. n \in Tokens /\ sessions[n] = 0
    BY <1>1, <2>2 DEF AccessTypeOK, Tokens, AccessAssumption
  <2>10. KeysInHand'
    BY <2>2, <2>3, <2>4, <2>5, <2>9 DEF AccessInv, KeysInHand, InHand, OneSessionPerKey
  <2> QED BY <2>7, <2>8, <2>10 DEF AccessInv
<1> QED BY <1>2, <1>3 DEF Claim

LEMMA ActivateStep ==
    ASSUME AccessAssumption, AccessInv, NEW t \in Confirmers, Activate(t)
    PROVE  AccessInv'
<1>1. /\ AccessTypeOK /\ confirm[t] \in CONFIRM /\ NoConfirm \in CONFIRM /\ NoConfirm.pc = "idle"
      /\ issued \in Nat
  BY ThreadsTyped DEF AccessInv, AccessTypeOK, AccessAssumption
<1>2. PICK u \in Users : u = confirm[t].of
  BY DEF Activate, AccessInv, ThreadsKnown
<1>3. confirm[t].pc = "write" /\ user[u] # "none" /\ confirm[t].token \in 1..issued
  BY <1>2 DEF Activate, AccessInv, ThreadsKnown
<1>4. PICK c : c = [confirm[t] EXCEPT !.pc = "match"]
  OBVIOUS
<1>5. c \in CONFIRM /\ c.pc = "match" /\ c.of = u /\ c.token = confirm[t].token
  BY <1>1, <1>2, <1>4 DEF CONFIRM
<1>6. UNCHANGED <<issued, claimed, sessions, ask, asks>>
  BY DEF Activate
<1>7. CASE confirm' = [confirm EXCEPT ![t] = c] /\ UNCHANGED <<user, owners, key>>
  BY <1>2, <1>3, <1>5, <1>6, <1>7, ConfirmStep DEF InHand
<1>8. CASE /\ confirm[t].state = "bootstrap_candidate"
           /\ user' = [user EXCEPT ![u] = "active"] /\ owners' = Founded(u)
           /\ confirm' = [confirm EXCEPT ![t] = c] /\ UNCHANGED key
  <2>1. owners = {} /\ owners' = {u}
    BY <1>3, <1>8 DEF AccessInv, Elected, Founded
  <2>2. \A s \in Confirmers : confirm'[s] = IF s = t THEN c ELSE confirm[s]
    BY <1>1, <1>8 DEF AccessTypeOK
  <2>3. confirm' \in [Confirmers -> CONFIRM]
    BY <1>1, <1>5, <1>8 DEF AccessTypeOK, CONFIRM
  <2>4. /\ user' \in [Users -> States] /\ \A v \in Users : user'[v] = IF v = u THEN "active" ELSE user[v]
    BY <1>1, <1>8 DEF AccessTypeOK, States
  <2>5. AccessTypeOK'
    BY <1>1, <1>3, <1>6, <1>8, <2>1, <2>3, <2>4 DEF AccessTypeOK, CONFIRM
  <2>6. \A s \in Confirmers : confirm[s].pc = "write" => s = t
    BY <1>3 DEF AccessInv, Elected
  <2>7. Elected'
    BY <1>5, <2>1, <2>2, <2>4, <2>6 DEF AccessInv, Elected
  <2>8. ThreadsKnown'
    BY <1>3, <1>5, <1>6, <1>8, <2>2, <2>4 DEF AccessInv, ThreadsKnown
  <2>9. KeysInHand'
    BY <1>3, <1>5, <1>6, <2>2 DEF AccessInv, KeysInHand, InHand, OneSessionPerKey
  <2> QED BY <2>5, <2>7, <2>8, <2>9 DEF AccessInv
<1>9. CASE /\ user' = [user EXCEPT ![u] = "blocked"] /\ Leave(t, u) /\ UNCHANGED owners
  <2>1. \A s \in Confirmers : confirm'[s] = IF s = t THEN NoConfirm ELSE confirm[s]
    BY <1>1, <1>9 DEF AccessTypeOK, Leave, Done
  <2>2. confirm' \in [Confirmers -> CONFIRM]
    BY <1>1, <1>9 DEF AccessTypeOK, CONFIRM, Leave, Done
  <2>3. /\ user' \in [Users -> States] /\ \A v \in Users : user'[v] = IF v = u THEN "blocked" ELSE user[v]
    BY <1>1, <1>9 DEF AccessTypeOK, States
  <2>4. key' \in [Users -> 0..MaxKeys] /\ \A v \in Users : key'[v] = IF v = u THEN 0 ELSE key[v]
    BY <1>1, <1>9 DEF AccessTypeOK, Leave, AccessAssumption
  <2>5. AccessTypeOK'
    BY <1>1, <1>6, <1>9, <2>2, <2>3, <2>4 DEF AccessTypeOK, CONFIRM
  <2>6. Elected'
    BY <1>1, <1>9, <2>1, <2>3 DEF AccessInv, Elected
  <2>7. ThreadsKnown'
    BY <1>1, <1>6, <2>1, <2>3, <2>4 DEF AccessInv, ThreadsKnown
  <2>8. KeysInHand'
    BY <1>1, <1>6, <2>1 DEF AccessInv, KeysInHand, InHand, OneSessionPerKey
  <2> QED BY <2>5, <2>6, <2>7, <2>8 DEF AccessInv
<1> QED BY <1>2, <1>4, <1>7, <1>8, <1>9 DEF Activate

LEMMA SessionStep ==
    ASSUME AccessAssumption, AccessInv, NEW t \in Confirmers, Session(t)
    PROVE  AccessInv'
<1>1. /\ AccessTypeOK /\ confirm[t] \in CONFIRM /\ NoConfirm \in CONFIRM /\ NoConfirm.pc = "idle"
      /\ issued \in 0..MaxKeys /\ MaxKeys \in Nat
  BY ThreadsTyped DEF AccessInv, AccessTypeOK, AccessAssumption
<1>2. PICK u, n : u = confirm[t].of /\ n = confirm[t].token
  OBVIOUS
<1>3. confirm[t].pc = "session" /\ u \in Users /\ n \in 1..issued /\ n \in claimed /\ sessions[n] = 0
  BY <1>2 DEF Session, AccessInv, ThreadsKnown, KeysInHand, InHand
<1>4. n \in Tokens
  BY <1>1, <1>3 DEF Tokens
<1>5. UNCHANGED <<user, owners, issued, claimed, ask, asks>>
  BY DEF Session
<1>6. \A s \in Confirmers : confirm'[s] = IF s = t THEN NoConfirm ELSE confirm[s]
  BY <1>1 DEF AccessTypeOK, Session, Leave, Done
<1>7. confirm' \in [Confirmers -> CONFIRM]
  BY <1>1 DEF AccessTypeOK, CONFIRM, Session, Leave, Done
<1>8. key' \in [Users -> 0..MaxKeys] /\ \A v \in Users : key'[v] = IF v = u THEN 0 ELSE key[v]
  <2>1. key' = [key EXCEPT ![u] = 0]
    BY <1>2 DEF Session, Leave
  <2>2. key \in [Users -> 0..MaxKeys] /\ 0 \in 0..MaxKeys
    BY <1>1 DEF AccessTypeOK
  <2> QED BY <2>1, <2>2
<1>9. /\ sessions' \in [Tokens -> Nat] /\ sessions'[n] \in {0, 1}
      /\ \A m \in Tokens : m # n => sessions'[m] = sessions[m]
  BY <1>1, <1>2, <1>3, <1>4 DEF AccessTypeOK, Session
<1>10. AccessTypeOK'
  BY <1>1, <1>3, <1>5, <1>7, <1>8, <1>9 DEF AccessTypeOK, CONFIRM
<1>11. Elected'
  BY <1>1, <1>5, <1>6 DEF AccessInv, Elected
<1>12. ThreadsKnown'
  BY <1>1, <1>5, <1>6, <1>8 DEF AccessInv, ThreadsKnown
<1>13. KeysInHand'
  <2>1. \A s \in Confirmers : InHand(s)' => /\ InHand(s) /\ confirm'[s] = confirm[s] /\ s # t
                                            /\ confirm[s].token # n /\ confirm[s].token \in Tokens
    BY <1>1, <1>2, <1>3, <1>6 DEF AccessInv, KeysInHand, InHand, ThreadsKnown, Tokens
  <2> QED BY <1>5, <1>9, <2>1 DEF AccessInv, KeysInHand, OneSessionPerKey
<1> QED BY <1>10, <1>11, <1>12, <1>13 DEF AccessInv

LEMMA ConfirmSteps ==
    ASSUME AccessAssumption, AccessInv, NEW t \in Confirmers,
           \/ LockAccount(t) \/ Match(t) \/ Dies(t)
           \/ \E u \in Users : Follow(t, u)
    PROVE  AccessInv'
<1>1. /\ AccessTypeOK /\ confirm[t] \in CONFIRM /\ NoConfirm \in CONFIRM /\ NoConfirm.pc = "idle"
      /\ issued \in 0..MaxKeys /\ MaxKeys \in Nat
  BY ThreadsTyped DEF AccessInv, AccessTypeOK, AccessAssumption
<1>2. confirm[t].pc # "idle" =>
        /\ confirm[t].of \in Users /\ confirm[t].token \in 1..issued /\ user[confirm[t].of] # "none"
  BY DEF AccessInv, ThreadsKnown
<1>3. ASSUME NEW u \in Users, Follow(t, u) PROVE AccessInv'
  <2>1. PICK c : c = [pc |-> "claim", of |-> u, token |-> key[u], state |-> "none"]
    OBVIOUS
  <2>2. key[u] \in 1..issued /\ user[u] # "none"
    BY <1>1, <1>3 DEF Follow, AccessInv, ThreadsKnown, AccessTypeOK
  <2>3. c \in CONFIRM /\ c.pc = "claim" /\ c.of = u /\ c.token = key[u]
    BY <1>1, <2>1, <2>2 DEF CONFIRM, States
  <2>4. /\ confirm' = [confirm EXCEPT ![t] = c] /\ UNCHANGED key
        /\ UNCHANGED <<owners, user, issued, claimed, sessions, ask, asks>>
    BY <1>3, <2>1 DEF Follow
  <2> QED BY <2>2, <2>3, <2>4, ConfirmStep
<1>4. ASSUME LockAccount(t) PROVE AccessInv'
  <2>1. PICK c, s : /\ s = IF user[confirm[t].of] = "bootstrap_candidate" /\ owners # {}
                           THEN "blocked" ELSE user[confirm[t].of]
                    /\ c = [confirm[t] EXCEPT !.pc = "write", !.state = s]
    OBVIOUS
  <2>2. s \in States /\ (s = "bootstrap_candidate" => owners = {}) /\ confirm[t].pc = "lock"
    BY <1>1, <1>2, <1>4, <2>1 DEF LockAccount, AccessTypeOK, States
  <2>3. c \in CONFIRM /\ c.pc = "write" /\ c.of = confirm[t].of /\ c.token = confirm[t].token /\ c.state = s
    BY <1>1, <2>1, <2>2 DEF CONFIRM
  <2>4. /\ confirm' = [confirm EXCEPT ![t] = c] /\ UNCHANGED key /\ BootstrapFree(c.of)
        /\ UNCHANGED <<owners, user, issued, claimed, sessions, ask, asks>>
    BY <1>4, <2>1, <2>3 DEF LockAccount
  <2> QED BY <1>2, <2>2, <2>3, <2>4, ConfirmStep DEF InHand
<1>5. ASSUME confirm' = [confirm EXCEPT ![t] = NoConfirm],
             UNCHANGED <<user, owners, key, issued, claimed, sessions, ask, asks>>
      PROVE  AccessInv'
  BY <1>1, <1>5, ConfirmStep
<1>6. ASSUME Match(t) PROVE AccessInv'
  <2>1. CASE Done(t)
    BY <1>5, <1>6, <2>1 DEF Match, Done
  <2>2. CASE confirm' = [confirm EXCEPT ![t].pc = "session"]
    <3>1. PICK c : c = [confirm[t] EXCEPT !.pc = "session"]
      OBVIOUS
    <3>2. c \in CONFIRM /\ c.pc = "session" /\ c.of = confirm[t].of /\ c.token = confirm[t].token
      BY <1>1, <3>1 DEF CONFIRM
    <3>3. /\ confirm' = [confirm EXCEPT ![t] = c] /\ UNCHANGED key /\ confirm[t].pc = "match"
          /\ UNCHANGED <<owners, user, issued, claimed, sessions, ask, asks>>
      BY <1>6, <2>2, <3>1 DEF Match
    <3> QED BY <1>2, <3>2, <3>3, ConfirmStep DEF InHand
  <2> QED BY <1>6, <2>1, <2>2 DEF Match
<1>7. ASSUME Dies(t) PROVE AccessInv'
  BY <1>5, <1>7 DEF Dies, Done
<1> QED BY <1>3, <1>4, <1>6, <1>7

\* The inductive invariant of sign-in.
THEOREM AccessInvariant == AccessAssumption => (AccessSpec => []AccessInv)
<1> SUFFICES ASSUME AccessAssumption PROVE AccessSpec => []AccessInv
  OBVIOUS
<1>1. AccessInit => AccessInv
  BY AccessInitInv
<1>2. AccessInv /\ [AccessNext]_accessVars => AccessInv'
  <2> SUFFICES ASSUME AccessInv, [AccessNext]_accessVars PROVE AccessInv'
    OBVIOUS
  <2>1. CASE UNCHANGED accessVars
    BY <2>1 DEF accessVars, AccessInv, AccessTypeOK, Elected, ThreadsKnown, KeysInHand, InHand,
                OneSessionPerKey
  <2> QED BY <2>1, AskSteps, ClaimStep, ActivateStep, SessionStep, ConfirmSteps, ExpireStep
          DEF AccessNext
<1> QED BY <1>1, <1>2, PTL DEF AccessSpec

\* However many candidates follow their links at once, one becomes the owner.
THEOREM OneOwnerElected == AccessAssumption => (AccessSpec => []OneOwner)
<1>1. AccessInv => OneOwner
  <2> SUFFICES ASSUME AccessInv PROVE OneOwner
    OBVIOUS
  <2>1. Cardinality(owners) \in {0, 1}
    BY FS_EmptySet, FS_Singleton DEF AccessInv, Elected
  <2> QED BY <2>1 DEF AccessInv, Elected, OneOwner
<1> QED BY <1>1, AccessInvariant, PTL

\* However often and by however many threads its link is followed, a key opens
\* one session.
THEOREM KeysOpenOneSession == AccessAssumption => (AccessSpec => []OneSessionPerKey)
<1>1. AccessInv => OneSessionPerKey
  BY DEF AccessInv, KeysInHand
<1> QED BY <1>1, AccessInvariant, PTL

\* Together: one owner, and one session for a key.
THEOREM SignInStaysGuarded == AccessAssumption => (AccessSpec => []SignInIsGuarded)
<1>1. AccessInv => AccessTypeOK
  BY DEF AccessInv
<1> QED BY <1>1, AccessInvariant, OneOwnerElected, KeysOpenOneSession, PTL DEF SignInIsGuarded

-----------------------------------------------------------------------------
(***************************************************************************)
(* The budgets of sign-in links.                                           *)
(***************************************************************************)

\* A table with another row has one more row of its email and of its address,
\* and no other new one.
LEMMA RowsAppended ==
    ASSUME attempts \in Seq(Row), NEW a \in Row, attempts' = Append(attempts, a)
    PROVE  /\ attempts' \in Seq(Row)
           /\ DOMAIN attempts' = DOMAIN attempts \cup {Len(attempts) + 1}
           /\ \A i \in DOMAIN attempts : attempts'[i] = attempts[i] /\ attempts[i] \in Row
           /\ attempts'[Len(attempts) + 1] = a
<1>1. /\ attempts' \in Seq(Row) /\ Len(attempts') = Len(attempts) + 1 /\ Len(attempts) \in Nat
      /\ \A i \in 1..Len(attempts) : attempts'[i] = attempts[i]
      /\ attempts'[Len(attempts) + 1] = a
  OBVIOUS
<1>2. \A i \in 1..Len(attempts) : attempts[i] \in Row
  BY ElementOfSeq
<1>3. DOMAIN attempts = 1..Len(attempts) /\ DOMAIN attempts' = 1..Len(attempts')
  BY <1>1
<1> QED
  BY <1>1, <1>2, <1>3

\* Any part of the table is finite.
LEMMA RowsFinite ==
    ASSUME attempts \in Seq(Row), NEW S, S \subseteq DOMAIN attempts
    PROVE  IsFiniteSet(S) /\ Cardinality(S) \in Nat
<1>1. DOMAIN attempts = 1..Len(attempts) /\ Len(attempts) \in Nat
  OBVIOUS
<1>2. IsFiniteSet(DOMAIN attempts)
  BY <1>1, FS_Interval
<1> QED
  BY <1>2, FS_Subset, FS_CardinalityType

\* The initial state satisfies the invariant.
LEMMA LimiterInitInv == LimiterAssumption /\ LimiterInit => LimiterInv
<1> SUFFICES ASSUME LimiterAssumption, LimiterInit PROVE LimiterInv
  OBVIOUS
<1>1. attempts \in Seq(Row) /\ DOMAIN attempts = {}
  BY DEF LimiterInit
<1>2. LimiterTypeOK
  BY <1>1 DEF LimiterAssumption, LimiterInit, LimiterTypeOK, NoRequest
<1>3. RequestsSound /\ LocksApart /\ CountStands
  BY DEF LimiterInit, RequestsSound, LocksApart, CountStands, Holds, NoRequest
<1>4. WithinBudgets
  <2>1. \A s, k : /\ {i \in From(s) : attempts[i].email = k} = {}
                  /\ {i \in From(s) : attempts[i].ip = k} = {}
    BY <1>1 DEF From
  <2> QED
    BY <2>1, FS_EmptySet DEF WithinBudgets, LimiterAssumption
<1> QED
  BY <1>2, <1>3, <1>4 DEF LimiterInv

\* A step of a thread that adds nothing to the table keeps the invariant if it
\* takes only free locks and counts before it records.
LEMMA LimiterStepInv ==
    ASSUME LimiterInv, NEW r \in Threads, UNCHANGED <<clock, attempts>>,
           asked' \in [Threads -> [pc : {"idle", "email", "ip", "count", "create"},
                                   email : Emails \cup {"none"}, ip : Ips \cup {"none"},
                                   now : 0..MaxTime]],
           \A q \in Threads \ {r} : asked'[q] = asked[q],
           asked'[r].pc # "idle" =>
              /\ asked'[r].email \in Emails /\ asked'[r].now <= clock
              /\ asked'[r].pc = "ip" => asked'[r].ip # "none",
           \A k \in Emails \cup Ips : Holds(r, k)' => Holds(r, k) \/ IsFree(k),
           asked'[r].pc = "create" => Allowed(asked'[r])
    PROVE  LimiterInv'
<1>1. LimiterTypeOK' /\ RequestsSound'
  BY DEF LimiterInv, LimiterTypeOK, RequestsSound
<1>2. LocksApart'
  <2>1. \A q \in Threads \ {r} : \A k : Holds(q, k)' <=> Holds(q, k)
    BY DEF Holds
  <2> QED
    BY <2>1 DEF LimiterInv, LocksApart, IsFree
<1>3. CountStands'
  <2>1. SUFFICES ASSUME NEW q \in Threads, asked'[q].pc = "create" PROVE Allowed(asked'[q])
    BY DEF CountStands, Allowed, OfEmail, OfIp, Recent
  <2> QED
    BY <2>1 DEF LimiterInv, CountStands
<1>4. WithinBudgets'
  BY DEF LimiterInv, WithinBudgets, From
<1> QED
  BY <1>1, <1>2, <1>3, <1>4 DEF LimiterInv

\* A recorded attempt of another email and another address is not counted.
LEMMA OthersCountSame ==
    ASSUME LimiterAssumption, LimiterInv, NEW r \in Threads, RecordAttempt(r)
    PROVE  CountStands'
<1> DEFINE a == [email |-> asked[r].email, ip |-> asked[r].ip, at |-> asked[r].now]
           n == Len(attempts) + 1
<1>1. attempts \in Seq(Row) /\ asked[r].pc = "create" /\ attempts' = Append(attempts, a)
      /\ asked' = [asked EXCEPT ![r] = NoRequest]
  BY DEF LimiterInv, LimiterTypeOK, RecordAttempt
<1>2. /\ a \in Row /\ asked[r].email \in Emails
      /\ asked \in [Threads -> [pc : {"idle", "email", "ip", "count", "create"},
                                email : Emails \cup {"none"}, ip : Ips \cup {"none"},
                                now : 0..MaxTime]]
  BY <1>1 DEF LimiterInv, LimiterTypeOK, RequestsSound, Row
<1>3. a.email = asked[r].email /\ a.ip = asked[r].ip
  OBVIOUS
<1> HIDE DEF a, n
<1>4. /\ DOMAIN attempts' = DOMAIN attempts \cup {n}
      /\ \A i \in DOMAIN attempts : attempts'[i] = attempts[i]
      /\ attempts'[n] = a
  BY <1>1, <1>2, RowsAppended DEF n
<1>5. SUFFICES ASSUME NEW q \in Threads, asked'[q].pc = "create"
               PROVE  /\ OfEmail(asked[q].now, asked[q].email)' < MaxPerEmail
                      /\ asked[q].ip # "none" => OfIp(asked[q].now, asked[q].ip)' < MaxPerIp
  <2>1. \A q \in Threads : asked'[q].pc = "create" => asked'[q] = asked[q]
    BY <1>1, <1>2 DEF NoRequest
  <2>2. SUFFICES ASSUME NEW q \in Threads, asked'[q].pc = "create"
                 PROVE  Allowed(asked[q])'
    BY DEF CountStands, Allowed
  <2>3. /\ OfEmail(asked[q].now, asked[q].email)' < MaxPerEmail
        /\ asked[q].ip # "none" => OfIp(asked[q].now, asked[q].ip)' < MaxPerIp
    BY <2>2, <1>5
  <2> QED
    BY <2>1, <2>2, <2>3 DEF Allowed
<1>6. q # r /\ asked'[q] = asked[q] /\ Allowed(asked[q]) /\ asked[q].pc = "create"
      /\ asked[q].email \in Emails
  <2>1. q # r /\ asked'[q] = asked[q]
    BY <1>1, <1>2, <1>5 DEF NoRequest
  <2> QED
    BY <1>5, <2>1 DEF LimiterInv, CountStands, RequestsSound
<1>7. asked[q].email # a.email
  BY <1>1, <1>2, <1>3, <1>6 DEF LimiterInv, LocksApart, Holds
<1>8. asked[q].ip # "none" => asked[q].ip # a.ip
  <2>1. asked[q].ip # "none" => asked[q].ip \in Ips
    BY <1>2
  <2> QED
    BY <2>1, <1>1, <1>3, <1>6 DEF LimiterInv, LocksApart, Holds
<1>9. {i \in Recent(asked[q].now)' : attempts'[i].email = asked[q].email}
        = {i \in Recent(asked[q].now) : attempts[i].email = asked[q].email}
  BY <1>4, <1>6, <1>7 DEF Recent
<1>10. asked[q].ip # "none" =>
         {i \in Recent(asked[q].now)' : attempts'[i].ip = asked[q].ip}
           = {i \in Recent(asked[q].now) : attempts[i].ip = asked[q].ip}
  BY <1>4, <1>6, <1>8 DEF Recent
<1> QED
  BY <1>6, <1>9, <1>10 DEF Allowed, OfEmail, OfIp

\* The attempt that is recorded was within the budgets of every window it is in:
\* what was counted reaches from the begin of the window to the end of time.
LEMMA BudgetsKept ==
    ASSUME LimiterAssumption, LimiterInv, NEW r \in Threads, RecordAttempt(r)
    PROVE  WithinBudgets'
<1> DEFINE a == [email |-> asked[r].email, ip |-> asked[r].ip, at |-> asked[r].now]
           n == Len(attempts) + 1
<1>1. attempts \in Seq(Row) /\ asked[r].pc = "create" /\ attempts' = Append(attempts, a)
      /\ clock' = clock /\ clock \in Nat
  BY DEF LimiterInv, LimiterTypeOK, RecordAttempt, LimiterAssumption
<1>2. a \in Row /\ asked[r].email \in Emails /\ asked[r].now \in Nat
  BY <1>1 DEF LimiterInv, LimiterTypeOK, RequestsSound, Row, LimiterAssumption
<1>3. a.email = asked[r].email /\ a.ip = asked[r].ip /\ a.at = asked[r].now
  OBVIOUS
<1> HIDE DEF a
<1>4. /\ DOMAIN attempts' = DOMAIN attempts \cup {n}
      /\ \A i \in DOMAIN attempts : attempts'[i] = attempts[i] /\ attempts[i].at \in Nat
      /\ attempts'[n] = a
  BY <1>1, <1>2, RowsAppended DEF Row, LimiterAssumption
<1>5. /\ MaxPerEmail \in Nat /\ MaxPerIp \in Nat /\ Window \in Nat
      /\ OfEmail(a.at, a.email) < MaxPerEmail
      /\ a.ip # "none" => OfIp(a.at, a.ip) < MaxPerIp
  BY <1>1, <1>3 DEF LimiterInv, CountStands, Allowed, LimiterAssumption
<1> HIDE DEF n
<1>6. ASSUME NEW s \in 0..clock, NEW email \in Emails
      PROVE  Cardinality({i \in From(s)' : attempts'[i].email = email}) <= MaxPerEmail
  <2> DEFINE S == {i \in From(s) : attempts[i].email = email}
             T == {i \in From(s)' : attempts'[i].email = email}
  <2>1. S \subseteq DOMAIN attempts /\ Cardinality(S) <= MaxPerEmail
    BY DEF LimiterInv, WithinBudgets, From
  <2>2. IsFiniteSet(S) /\ Cardinality(S) \in Nat
    BY <1>1, <2>1, RowsFinite
  <2>3. T \subseteq S \cup {n}
    BY <1>4 DEF From
  <2>4. CASE n \notin T
    <3>1. T \subseteq S
      BY <2>3, <2>4
    <3> HIDE DEF S, T
    <3>2. Cardinality(T) <= Cardinality(S) /\ Cardinality(T) \in Nat
      BY <2>2, <3>1, FS_Subset, FS_CardinalityType
    <3> QED
      BY <2>1, <2>2, <3>2, <1>5 DEF T
  <2>5. CASE n \in T
    <3>1. email = a.email /\ a.at \in s..(s + Window)
      BY <1>4, <2>5 DEF From
    <3> DEFINE U == {i \in Recent(a.at) : attempts[i].email = a.email}
    <3>2. S \subseteq U
      BY <1>2, <1>3, <1>4, <1>5, <3>1 DEF From, Recent, InWindow
    <3>3. U \subseteq DOMAIN attempts /\ Cardinality(U) < MaxPerEmail
      BY <1>5 DEF Recent, OfEmail
    <3>4. IsFiniteSet(U) /\ Cardinality(U) \in Nat
      BY <1>1, <3>3, RowsFinite
    <3> HIDE DEF S, T, U
    <3>5. Cardinality(S) <= Cardinality(U)
      BY <3>2, <3>4, FS_Subset
    <3>6. IsFiniteSet(S \cup {n}) /\ Cardinality(S \cup {n}) <= Cardinality(S) + 1
          /\ Cardinality(S \cup {n}) \in Nat
      <4>1. IsFiniteSet(S \cup {n})
            /\ (Cardinality(S \cup {n}) = Cardinality(S)
                  \/ Cardinality(S \cup {n}) = Cardinality(S) + 1)
        BY <2>2, FS_AddElement
      <4> QED
        BY <2>2, <4>1
    <3>7. Cardinality(T) <= Cardinality(S \cup {n}) /\ Cardinality(T) \in Nat
      BY <2>3, <3>6, FS_Subset, FS_CardinalityType
    <3>8. Cardinality(T) <= MaxPerEmail
      BY <1>5, <2>2, <3>3, <3>4, <3>5, <3>6, <3>7
    <3> QED
      BY <3>8 DEF T
  <2> QED
    BY <2>4, <2>5
<1>7. ASSUME NEW s \in 0..clock, NEW ip \in Ips
      PROVE  Cardinality({i \in From(s)' : attempts'[i].ip = ip}) <= MaxPerIp
  <2> DEFINE S == {i \in From(s) : attempts[i].ip = ip}
             T == {i \in From(s)' : attempts'[i].ip = ip}
  <2>1. S \subseteq DOMAIN attempts /\ Cardinality(S) <= MaxPerIp
    BY DEF LimiterInv, WithinBudgets, From
  <2>2. IsFiniteSet(S) /\ Cardinality(S) \in Nat
    BY <1>1, <2>1, RowsFinite
  <2>3. T \subseteq S \cup {n}
    BY <1>4 DEF From
  <2>4. CASE n \notin T
    <3>1. T \subseteq S
      BY <2>3, <2>4
    <3> HIDE DEF S, T
    <3>2. Cardinality(T) <= Cardinality(S) /\ Cardinality(T) \in Nat
      BY <2>2, <3>1, FS_Subset, FS_CardinalityType
    <3> QED
      BY <2>1, <2>2, <3>2, <1>5 DEF T
  <2>5. CASE n \in T
    <3>1. ip = a.ip /\ a.ip # "none" /\ a.at \in s..(s + Window)
      BY <1>4, <2>5 DEF From, LimiterAssumption
    <3> DEFINE U == {i \in Recent(a.at) : attempts[i].ip = a.ip}
    <3>2. S \subseteq U
      BY <1>2, <1>3, <1>4, <1>5, <3>1 DEF From, Recent, InWindow
    <3>3. U \subseteq DOMAIN attempts /\ Cardinality(U) < MaxPerIp
      BY <1>5, <3>1 DEF Recent, OfIp
    <3>4. IsFiniteSet(U) /\ Cardinality(U) \in Nat
      BY <1>1, <3>3, RowsFinite
    <3> HIDE DEF S, T, U
    <3>5. Cardinality(S) <= Cardinality(U)
      BY <3>2, <3>4, FS_Subset
    <3>6. IsFiniteSet(S \cup {n}) /\ Cardinality(S \cup {n}) <= Cardinality(S) + 1
          /\ Cardinality(S \cup {n}) \in Nat
      <4>1. IsFiniteSet(S \cup {n})
            /\ (Cardinality(S \cup {n}) = Cardinality(S)
                  \/ Cardinality(S \cup {n}) = Cardinality(S) + 1)
        BY <2>2, FS_AddElement
      <4> QED
        BY <2>2, <4>1
    <3>7. Cardinality(T) <= Cardinality(S \cup {n}) /\ Cardinality(T) \in Nat
      BY <2>3, <3>6, FS_Subset, FS_CardinalityType
    <3>8. Cardinality(T) <= MaxPerIp
      BY <1>5, <2>2, <3>3, <3>4, <3>5, <3>6, <3>7
    <3> QED
      BY <3>8 DEF T
  <2> QED
    BY <2>4, <2>5
<1>8. ASSUME NEW s \in 0..clock'
      PROVE  /\ \A email \in Emails :
                  Cardinality({i \in From(s)' : attempts'[i].email = email}) <= MaxPerEmail
             /\ \A ip \in Ips : Cardinality({i \in From(s)' : attempts'[i].ip = ip}) <= MaxPerIp
  BY <1>1, <1>6, <1>7
<1> QED
  BY <1>8 DEF WithinBudgets

\* LimiterInv is inductive.
LEMMA LimiterNextInv ==
    LimiterAssumption /\ LimiterInv /\ [LimiterNext]_limiterVars => LimiterInv'
<1> SUFFICES ASSUME LimiterAssumption, LimiterInv, [LimiterNext]_limiterVars PROVE LimiterInv'
  OBVIOUS
<1> DEFINE Asking == [pc : {"idle", "email", "ip", "count", "create"},
                      email : Emails \cup {"none"}, ip : Ips \cup {"none"}, now : 0..MaxTime]
<1>1. /\ asked \in [Threads -> Asking] /\ clock \in 0..MaxTime /\ clock \in Nat
      /\ "none" \notin Emails \cup Ips /\ MaxTime \in Nat
  BY DEF LimiterInv, LimiterTypeOK, LimiterAssumption
<1>2. ASSUME NEW r \in Threads, NEW email \in Emails, NEW ip \in Ips \cup {"none"},
             Receive(r, email, ip)
      PROVE  LimiterInv'
  <2>1. /\ asked' \in [Threads -> Asking] /\ UNCHANGED <<clock, attempts>>
        /\ \A q \in Threads \ {r} : asked'[q] = asked[q]
        /\ asked'[r] = [pc |-> "email", email |-> email, ip |-> ip, now |-> clock]
    BY <1>1, <1>2 DEF Receive, Now
  <2>2. \A k : ~Holds(r, k)'
    BY <2>1 DEF Holds
  <2> QED
    BY <1>1, <2>1, <2>2, LimiterStepInv
<1>3. ASSUME NEW r \in Threads, LockEmail(r) PROVE LimiterInv'
  <2>1. /\ asked' \in [Threads -> Asking] /\ UNCHANGED <<clock, attempts>>
        /\ \A q \in Threads \ {r} : asked'[q] = asked[q]
        /\ asked'[r] = [asked[r] EXCEPT !.pc = IF asked[r].ip = "none" THEN "count" ELSE "ip"]
    BY <1>1, <1>3 DEF LockEmail
  <2>2. /\ asked[r].email \in Emails /\ asked[r].now <= clock /\ IsFree(asked[r].email)
    BY <1>3 DEF LockEmail, LimiterInv, RequestsSound
  <2>3. /\ asked'[r].email = asked[r].email /\ asked'[r].ip = asked[r].ip
        /\ asked'[r].now = asked[r].now
        /\ asked'[r].pc = IF asked[r].ip = "none" THEN "count" ELSE "ip"
    BY <1>1, <2>1
  <2>4. \A k \in Emails \cup Ips : Holds(r, k)' => IsFree(k)
    BY <1>1, <2>2, <2>3 DEF Holds
  <2> QED
    BY <2>1, <2>2, <2>3, <2>4, LimiterStepInv
<1>4. ASSUME NEW r \in Threads, LockIp(r) PROVE LimiterInv'
  <2>1. /\ asked' \in [Threads -> Asking] /\ UNCHANGED <<clock, attempts>>
        /\ \A q \in Threads \ {r} : asked'[q] = asked[q]
        /\ asked'[r] = [asked[r] EXCEPT !.pc = "count"]
    BY <1>1, <1>4 DEF LockIp
  <2>2. /\ asked[r].email \in Emails /\ asked[r].now <= clock
        /\ asked[r].pc = "ip" /\ IsFree(asked[r].ip)
    BY <1>4 DEF LockIp, LimiterInv, RequestsSound
  <2>3. /\ asked'[r].email = asked[r].email /\ asked'[r].ip = asked[r].ip
        /\ asked'[r].now = asked[r].now /\ asked'[r].pc = "count"
    BY <1>1, <2>1
  <2>4. \A k \in Emails \cup Ips : Holds(r, k)' => Holds(r, k) \/ IsFree(k)
    BY <2>2, <2>3 DEF Holds
  <2> QED
    BY <2>1, <2>2, <2>3, <2>4, LimiterStepInv
<1>5. ASSUME NEW r \in Threads, Count(r) PROVE LimiterInv'
  <2>1. asked[r].pc = "count" /\ UNCHANGED <<clock, attempts>>
    BY <1>5 DEF Count
  <2>2. CASE Allowed(asked[r])
    <3>1. /\ asked' \in [Threads -> Asking]
          /\ \A q \in Threads \ {r} : asked'[q] = asked[q]
          /\ asked'[r] = [asked[r] EXCEPT !.pc = "create"]
      BY <1>1, <1>5, <2>2 DEF Count
    <3>2. /\ asked'[r].email = asked[r].email /\ asked'[r].ip = asked[r].ip
          /\ asked'[r].now = asked[r].now /\ asked'[r].pc = "create"
      BY <1>1, <3>1
    <3>3. asked[r].email \in Emails /\ asked[r].now <= clock
      BY <2>1 DEF LimiterInv, RequestsSound
    <3>4. Allowed(asked'[r])
      BY <2>2, <3>2 DEF Allowed
    <3>5. \A k \in Emails \cup Ips : Holds(r, k)' => Holds(r, k)
      BY <2>1, <3>2 DEF Holds
    <3> QED
      BY <2>1, <3>1, <3>2, <3>3, <3>4, <3>5, LimiterStepInv
  <2>3. CASE ~Allowed(asked[r])
    <3>1. /\ asked' \in [Threads -> Asking]
          /\ \A q \in Threads \ {r} : asked'[q] = asked[q]
          /\ asked'[r] = NoRequest
      BY <1>1, <1>5, <2>3 DEF Count, NoRequest
    <3>2. asked'[r].pc = "idle" /\ \A k : ~Holds(r, k)'
      BY <3>1 DEF Holds, NoRequest
    <3> QED
      BY <2>1, <3>1, <3>2, LimiterStepInv
  <2> QED
    BY <2>2, <2>3
<1>6. ASSUME NEW r \in Threads, RecordAttempt(r) PROVE LimiterInv'
  <2> DEFINE a == [email |-> asked[r].email, ip |-> asked[r].ip, at |-> asked[r].now]
  <2>1. /\ asked' \in [Threads -> Asking] /\ clock' = clock
        /\ \A q \in Threads \ {r} : asked'[q] = asked[q]
        /\ asked'[r] = NoRequest /\ asked[r].pc = "create" /\ attempts' = Append(attempts, a)
    BY <1>1, <1>6 DEF RecordAttempt, NoRequest
  <2>2. a \in Row /\ attempts \in Seq(Row) /\ asked[r].now <= clock
    BY <1>1, <2>1 DEF LimiterInv, LimiterTypeOK, RequestsSound, Row
  <2>3. a.at = asked[r].now
    OBVIOUS
  <2> HIDE DEF a
  <2>4. /\ attempts' \in Seq(Row)
        /\ DOMAIN attempts' = DOMAIN attempts \cup {Len(attempts) + 1}
        /\ \A i \in DOMAIN attempts : attempts'[i] = attempts[i]
        /\ attempts'[Len(attempts) + 1] = a
    BY <2>1, <2>2, RowsAppended
  <2>5. LimiterTypeOK'
    BY <1>1, <2>1, <2>2, <2>3, <2>4 DEF LimiterInv, LimiterTypeOK
  <2>6. RequestsSound' /\ LocksApart'
    BY <2>1 DEF LimiterInv, RequestsSound, LocksApart, Holds, NoRequest
  <2> QED
    BY <1>6, <2>5, <2>6, OthersCountSame, BudgetsKept DEF LimiterInv
<1>7. CASE Tick
  <2>1. clock' = clock + 1 /\ clock' \in 0..MaxTime /\ UNCHANGED <<attempts, asked>>
    BY <1>1, <1>7 DEF Tick
  <2>2. LimiterTypeOK'
    <3>1. \A i \in DOMAIN attempts : attempts[i].at \in Nat /\ attempts[i].at <= clock
      <4>1. DOMAIN attempts = 1..Len(attempts)
        BY DEF LimiterInv, LimiterTypeOK
      <4>2. \A i \in 1..Len(attempts) : attempts[i] \in Row
        BY ElementOfSeq DEF LimiterInv, LimiterTypeOK
      <4> QED
        BY <1>1, <4>1, <4>2 DEF LimiterInv, LimiterTypeOK, Row
    <3> QED
      BY <1>1, <2>1, <3>1 DEF LimiterInv, LimiterTypeOK
  <2>3. RequestsSound' /\ LocksApart' /\ CountStands'
    <3>1. RequestsSound'
      BY <1>1, <2>1 DEF LimiterInv, RequestsSound
    <3> QED
      BY <2>1, <3>1 DEF LimiterInv, LocksApart, Holds, CountStands, Allowed, OfEmail, OfIp, Recent
\* No attempt is of the window that begins now.
  <2>4. WithinBudgets'
    <3>1. ASSUME NEW s \in 0..clock'
          PROVE  /\ \A email \in Emails :
                      Cardinality({i \in From(s) : attempts[i].email = email}) <= MaxPerEmail
                 /\ \A ip \in Ips : Cardinality({i \in From(s) : attempts[i].ip = ip}) <= MaxPerIp
      <4>1. CASE s \in 0..clock
        BY <4>1 DEF LimiterInv, WithinBudgets
      <4>2. CASE s = clock + 1
        <5>1. \A i \in DOMAIN attempts : attempts[i].at \in Nat /\ attempts[i].at <= clock
          <6>1. DOMAIN attempts = 1..Len(attempts)
            BY DEF LimiterInv, LimiterTypeOK
          <6>2. \A i \in 1..Len(attempts) : attempts[i] \in Row
            BY ElementOfSeq DEF LimiterInv, LimiterTypeOK
          <6> QED
            BY <1>1, <6>1, <6>2 DEF LimiterInv, LimiterTypeOK, Row
        <5>2. From(s) = {}
          BY <1>1, <4>2, <5>1 DEF From, LimiterAssumption
        <5>3. \A k : /\ {i \in From(s) : attempts[i].email = k} = {}
                     /\ {i \in From(s) : attempts[i].ip = k} = {}
          BY <5>2
        <5> QED
          BY <5>3, FS_EmptySet DEF LimiterAssumption
      <4> QED
        BY <1>1, <2>1, <4>1, <4>2
    <3> QED
      BY <2>1, <3>1 DEF WithinBudgets, From
  <2> QED
    BY <2>2, <2>3, <2>4 DEF LimiterInv
<1>8. CASE UNCHANGED limiterVars
  <2>1. UNCHANGED <<clock, attempts, asked>>
    BY <1>8 DEF limiterVars
  <2>2. LimiterTypeOK' /\ RequestsSound' /\ LocksApart'
    BY <2>1 DEF LimiterInv, LimiterTypeOK, RequestsSound, LocksApart, Holds
  <2>3. CountStands'
    BY <2>1 DEF LimiterInv, CountStands, Allowed, OfEmail, OfIp, Recent
  <2>4. WithinBudgets'
    BY <2>1 DEF LimiterInv, WithinBudgets, From
  <2> QED
    BY <2>2, <2>3, <2>4 DEF LimiterInv
<1> QED
  BY <1>2, <1>3, <1>4, <1>5, <1>6, <1>7, <1>8 DEF LimiterNext, LimiterStep

\* No window holds more attempts than the budget of an email or of an address,
\* whatever the budgets, the window and the number of threads, and however late
\* a request is counted.
THEOREM BudgetsAreKept == LimiterAssumption => (LimiterSpec => []BudgetsHold)
<1> SUFFICES ASSUME LimiterAssumption PROVE LimiterSpec => []BudgetsHold
  OBVIOUS
<1>1. LimiterInit => LimiterInv
  BY LimiterInitInv
<1>2. LimiterInv /\ [LimiterNext]_limiterVars => LimiterInv'
  BY LimiterNextInv
<1>3. LimiterInv => BudgetsHold
  BY DEF LimiterInv, BudgetsHold
<1> QED
  BY <1>1, <1>2, <1>3, PTL DEF LimiterSpec
=============================================================================
