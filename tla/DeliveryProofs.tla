--------------------------- MODULE DeliveryProofs ---------------------------
(***************************************************************************)
(* Proofs about what is delivered to and by the control plane: the rows of *)
(* the outbox (Outbox), the callbacks it consumes (EventConsumer) and the  *)
(* webhooks of Git providers (GitWebhooks), for any number of events,      *)
(* workers, server threads and repositories.                               *)
(***************************************************************************)
EXTENDS Outbox, EventConsumer, GitWebhooks, SequenceTheorems, TLAPS

(***************************************************************************)
(* The outbox.                                                             *)
(***************************************************************************)
\* retry_delay is a duration, whatever the attempt.
LEMMA RetryDelayType ==
    ASSUME NEW n
    PROVE  retry_delay(n) \in Nat
<1> DEFINE d == BaseDelay * (2 ^ (n - 1))
<1>1. d \in 0..MaxRetryDelay => d \in Nat
  <2> HIDE DEF d
  <2> QED BY OutboxAssumption
<1>2. MaxRetryDelay \in Nat
  BY OutboxAssumption
<1>3. retry_delay(n) = IF d \in 0..MaxRetryDelay THEN d ELSE MaxRetryDelay
  BY Zenon DEF retry_delay
<1> HIDE DEF d
<1> QED
  BY <1>1, <1>2, <1>3

\* What Finalize by the current claim makes of a row: the claim is cleared,
\* and the row is pending only while attempts are left.
LEMMA FinalizedRowFacts ==
    ASSUME NEW r \in Row, NEW o \in Outcomes
    PROVE  /\ FinalizedRow(r, o) \in Row
           /\ FinalizedRow(r, o).status \in {"pending", "published", "dead"}
           /\ FinalizedRow(r, o).token = 0
           /\ FinalizedRow(r, o).lease = 0
           /\ r.wait = 0 /\ FinalizedRow(r, o).status # "pending" => FinalizedRow(r, o).wait = 0
           /\ FinalizedRow(r, o).request = r.request
           /\ FinalizedRow(r, o).created = r.created
           /\ FinalizedRow(r, o).attempts = r.attempts
           /\ FinalizedRow(r, o).status = "pending" => r.attempts < MaxAttempts
           /\ (o = "published") <=> (FinalizedRow(r, o).status = "published")
           /\ (o = "rejected") => (FinalizedRow(r, o).status = "dead")
<1> DEFINE f == FinalizedRow(r, o)
           Facts == /\ f \in Row
                    /\ f.status \in {"pending", "published", "dead"}
                    /\ f.token = 0
                    /\ f.lease = 0
                    /\ r.wait = 0 /\ f.status # "pending" => f.wait = 0
                    /\ f.request = r.request
                    /\ f.created = r.created
                    /\ f.attempts = r.attempts
                    /\ f.status = "pending" => r.attempts < MaxAttempts
                    /\ (o = "published") <=> (f.status = "published")
                    /\ (o = "rejected") => (f.status = "dead")
<1>1. ASSUME o = "published" PROVE Facts
  <2>1. f = [r EXCEPT !.status = "published", !.token = 0, !.lease = 0]
    BY <1>1 DEF FinalizedRow, Settled
  <2> HIDE DEF f
  <2> QED BY <1>1, <2>1 DEF Row, Statuses
<1>2. ASSUME o = "retry", r.attempts < MaxAttempts PROVE Facts
  <2> DEFINE delay == retry_delay(r.attempts)
             g == [r EXCEPT !.status = "pending", !.token = 0, !.lease = 0]
  <2>1. delay \in Nat
    BY RetryDelayType
  <2>2. f = [g EXCEPT !.wait = delay]
    BY <1>2 DEF FinalizedRow, Settled
  <2>3. /\ g \in Row /\ g.status = "pending" /\ g.token = 0 /\ g.lease = 0
        /\ g.request = r.request /\ g.created = r.created /\ g.attempts = r.attempts
    BY DEF Row, Statuses
  <2> HIDE DEF f, g, delay
  <2> QED BY <1>2, <2>1, <2>2, <2>3 DEF Row, Statuses
<1>3. ASSUME o # "published", ~(o = "retry" /\ r.attempts < MaxAttempts) PROVE Facts
  <2>1. f = [r EXCEPT !.status = "dead", !.token = 0, !.lease = 0]
    BY <1>3 DEF FinalizedRow, Settled
  <2> HIDE DEF f
  <2> QED BY <1>3, <2>1 DEF Row, Statuses
<1> HIDE DEF Facts
<1>4. Facts
  BY <1>1, <1>2, <1>3
<1> QED
  BY <1>4 DEF Facts

\* The initial state satisfies the inductive invariant.
LEMMA InitInv == Init => OutboxInv
BY OutboxAssumption DEF Init, OutboxInv, TypeOK, ClaimConsistent, IssuedIds, WorkerShape,
   TokensApart, RetryBudget, AckedOutcomeStands, NoRow, Idle, Row, Worker, Busy, Statuses

\* Publish inserts a pending row without a claim.
LEMMA PublishInv ==
    ASSUME OutboxInv, NEW e \in Events, Publish(e)
    PROVE  OutboxInv'
<1> USE OutboxAssumption DEF OutboxInv
<1>1. /\ row[e].status = "none"
      /\ row' \in [Events -> Row]
      /\ \A f \in Events \ {e} : row'[f] = row[f]
      /\ row'[e] = [status |-> "pending", created |-> serial + 1, attempts |-> 0,
                    token |-> 0, request |-> 0, lease |-> 0, wait |-> 0]
      /\ serial' = serial + 1
      /\ UNCHANGED <<wk, faults, processed, acked>>
  BY DEF Publish, NewRow, TypeOK, Row, Statuses
<1>2. TypeOK'
  BY <1>1 DEF TypeOK
<1>3. ClaimConsistent'
  BY <1>1 DEF ClaimConsistent, TypeOK, Row
<1>4. IssuedIds'
  BY <1>1 DEF IssuedIds, TypeOK, Row, Worker
<1>5. WorkerShape'
  BY <1>1 DEF WorkerShape, TypeOK, Row, Busy
<1>6. TokensApart'
  BY <1>1 DEF TokensApart, TypeOK, Busy
<1>7. RetryBudget'
  BY <1>1 DEF RetryBudget, TypeOK, Row
<1>8. AckedOutcomeStands'
  BY <1>1 DEF AckedOutcomeStands
<1> QED
  BY <1>2, <1>3, <1>4, <1>5, <1>6, <1>7, <1>8

\* What a claim does to the table, as facts about single columns.
LEMMA ClaimRowFacts ==
    ASSUME OutboxInv, NEW w \in Workers, NEW r \in Nat, NEW e \in Events, ClaimRow(w, r, e)
    PROVE  /\ row[e].status \in {"pending", "delivering"}
           /\ serial' = serial + 1
           /\ row' \in [Events -> Row]
           /\ \A f \in Events \ {e} : row'[f] = row[f]
           /\ row'[e].status = "delivering" /\ row'[e].token = serial + 1
           /\ row'[e].request = r /\ row'[e].created = row[e].created
           /\ row'[e].wait = 0
           /\ \A f \in Events \ {e} : r # 0 => row[f].request # r
<1> USE OutboxAssumption DEF OutboxInv
<1>1. e \in Eligible(w)
  BY DEF ClaimRow, Selectable
<1>2. row[e].status \in {"pending", "delivering"}
  BY <1>1 DEF Eligible
<1>3. \A f \in Events \ {e} : r # 0 => row[f].request # r
  BY DEF ClaimRow, RequestedBy
<1> DEFINE n == ClaimedRow(row[e], r, serial + 1)
<1>4. /\ n \in Row /\ n.status = "delivering" /\ n.token = serial + 1
      /\ n.request = r /\ n.created = row[e].created /\ n.wait = 0
  BY DEF TypeOK, Row, Statuses, ClaimedRow
<1>5. row' = [row EXCEPT ![e] = n] /\ serial' = serial + 1
  BY DEF ClaimRow
<1> HIDE DEF n
<1>6. /\ row' \in [Events -> Row]
      /\ \A f \in Events \ {e} : row'[f] = row[f]
      /\ row'[e] = n
  BY <1>4, <1>5 DEF TypeOK
<1> QED
  BY <1>2, <1>3, <1>4, <1>5, <1>6

\* A claim gives the row a token and a request id nobody has had; the token
\* goes to the idle worker w, or to nobody when the reply is lost.
LEMMA ClaimInv ==
    ASSUME OutboxInv, NEW w \in Workers, NEW r \in Nat, NEW e \in Events, ClaimRow(w, r, e),
           wk[w].pc = "idle",
           r = serial + 1 \/ (r = wk[w].request /\ r # 0),
           \/ wk' = [wk EXCEPT ![w] = [pc |-> "working", request |-> 0, ev |-> e,
                                       token |-> serial + 1, outcome |-> "none"]]
           \/ /\ r = serial + 1
              /\ wk' = [wk EXCEPT ![w] = [pc |-> "idle", request |-> serial + 1, ev |-> "none",
                                          token |-> 0, outcome |-> "none"]],
           faults' \in Nat, UNCHANGED <<processed, acked>>
    PROVE  OutboxInv'
<1> USE OutboxAssumption DEF OutboxInv
<1> DEFINE got == [pc |-> "working", request |-> 0, ev |-> e,
                   token |-> serial + 1, outcome |-> "none"]
           missed == [pc |-> "idle", request |-> serial + 1, ev |-> "none",
                      token |-> 0, outcome |-> "none"]
<1>1. /\ row[e].status \in {"pending", "delivering"}
      /\ serial' = serial + 1
      /\ row' \in [Events -> Row]
      /\ \A f \in Events \ {e} : row'[f] = row[f]
      /\ row'[e].status = "delivering" /\ row'[e].token = serial + 1
      /\ row'[e].request = r /\ row'[e].created = row[e].created /\ row'[e].wait = 0
      /\ \A f \in Events \ {e} : r # 0 => row[f].request # r
  BY ClaimRowFacts
<1>2. /\ wk' \in [Workers -> Worker]
      /\ \A v \in Workers \ {w} : wk'[v] = wk[v]
      /\ wk'[w] = got \/ (r = serial + 1 /\ wk'[w] = missed)
  BY DEF TypeOK, Worker, Outcomes
<1>3. TypeOK'
  BY <1>1, <1>2 DEF TypeOK
<1>4. ClaimConsistent'
  BY <1>1 DEF ClaimConsistent, IssuedIds, TypeOK, Row
<1>5. IssuedIds'
  <2>1. /\ \A f \in Events : row[f].token <= serial /\ row[f].request <= serial
        /\ \A v \in Workers : wk[v].token <= serial /\ wk[v].request <= serial
    BY DEF IssuedIds
  <2>2. /\ \A f \in Events : row[f].token \in Nat /\ row[f].request \in Nat
        /\ \A v \in Workers : wk[v].token \in Nat /\ wk[v].request \in Nat
        /\ serial \in Nat
    BY DEF TypeOK, Row, Worker
  <2>3. r <= serial + 1
    BY <2>1, <2>2
  <2>4. \A f \in Events : row'[f].token <= serial' /\ row'[f].request <= serial'
    BY <1>1, <2>1, <2>2, <2>3
  <2>5. \A f \in Events : /\ row'[f].status \in {"none", "pending"} => row'[f].lease = 0
                          /\ row'[f].status # "pending" => row'[f].wait = 0
    BY <1>1 DEF IssuedIds
  <2>6. \A v \in Workers : wk'[v].token <= serial' /\ wk'[v].request <= serial'
    BY <1>1, <1>2, <2>1, <2>2
  <2> QED
    BY <2>4, <2>5, <2>6 DEF IssuedIds
<1>6. WorkerShape'
  BY <1>1, <1>2 DEF WorkerShape, TypeOK, Busy
<1>7. TokensApart'
  <2>1. /\ serial \in Nat
        /\ \A v \in Workers : /\ wk[v].token \in Nat /\ wk[v].token <= serial
                              /\ wk[v].request \in Nat /\ wk[v].request <= serial
        /\ \A f \in Events : /\ row[f].token \in Nat /\ row[f].token <= serial
                             /\ row[f].request \in Nat /\ row[f].request <= serial
    BY DEF TypeOK, Row, Worker, IssuedIds
  <2>2. ASSUME NEW u \in Workers, NEW v \in Workers, u # v, Busy(u)', Busy(v)'
        PROVE  wk'[u].token # wk'[v].token
    BY <1>2, <2>1, <2>2 DEF TokensApart, Busy
  <2>3. ASSUME NEW u \in Workers, NEW v \in Workers, u # v, wk'[u].request # 0
        PROVE  wk'[u].request # wk'[v].request
    BY <1>2, <2>1, <2>3 DEF TokensApart
  <2>4. ASSUME NEW u \in Workers, NEW v \in Workers, NEW f \in Events,
               wk'[u].request # 0, row'[f].request = wk'[u].request,
               row'[f].status = "delivering", Busy(v)'
        PROVE  wk'[v].token # row'[f].token
    <3>1. CASE f = e
      <4>1. u = w => wk'[w] = missed
        BY <1>2, <2>4
      <4>2. u # w => r # wk[u].request
        BY <1>2, <2>1, <2>4 DEF TokensApart
      <4>3. wk'[w] = missed
        BY <1>1, <1>2, <2>4, <3>1, <4>1, <4>2
      <4>4. v # w /\ wk'[v] = wk[v]
        BY <1>2, <2>4, <4>3 DEF Busy
      <4> QED
        BY <1>1, <2>1, <3>1, <4>4
    <3>2. CASE f # e
      <4>1. row'[f] = row[f]
        BY <1>1, <3>2
      <4>2. u # w
        BY <1>1, <1>2, <2>1, <2>4, <4>1
      <4>3. v = w => wk'[v].token = serial + 1
        BY <1>2, <2>4 DEF Busy
      <4> QED
        BY <1>2, <2>1, <2>4, <4>1, <4>2, <4>3 DEF TokensApart, Busy
    <3> QED
      BY <3>1, <3>2
  <2> QED
    BY <2>2, <2>3, <2>4 DEF TokensApart
<1>8. RetryBudget'
  BY <1>1 DEF RetryBudget
<1>9. AckedOutcomeStands'
  BY <1>1 DEF AckedOutcomeStands
<1> QED
  BY <1>3, <1>4, <1>5, <1>6, <1>7, <1>8, <1>9

\* A resubmitted claim request gets the token of its active claim, which no
\* other worker has.
LEMMA ReplayInv ==
    ASSUME OutboxInv, NEW w \in Workers, NEW e \in Events, wk[w].pc = "idle",
           wk[w].request # 0, ReplayClaim(wk[w].request, e), Receive(w, e, row[e].token),
           UNCHANGED <<faults, processed, acked>>
    PROVE  OutboxInv'
<1> USE OutboxAssumption DEF OutboxInv
<1> DEFINE got == [pc |-> "working", request |-> 0, ev |-> e,
                   token |-> row[e].token, outcome |-> "none"]
<1>1. /\ row[e].status = "delivering" /\ row[e].request = wk[w].request
      /\ row' = row /\ serial' = serial
  BY DEF ReplayClaim, RequestedBy
<1>2. row[e].token \in Nat /\ row[e].token # 0
  BY <1>1 DEF ClaimConsistent, TypeOK, Row
<1>3. /\ wk' \in [Workers -> Worker]
      /\ \A v \in Workers \ {w} : wk'[v] = wk[v]
      /\ wk'[w] = got
  BY <1>2 DEF Receive, TypeOK, Worker, Outcomes
<1>4. TypeOK'
  BY <1>1, <1>3 DEF TypeOK
<1>5. ClaimConsistent'
  BY <1>1 DEF ClaimConsistent
<1>6. IssuedIds'
  BY <1>1, <1>3 DEF IssuedIds, TypeOK, Row, Worker
<1>7. WorkerShape'
  BY <1>1, <1>2, <1>3 DEF WorkerShape, TypeOK, Busy
<1>8. TokensApart'
  <2>1. ASSUME NEW u \in Workers, NEW v \in Workers, u # v, Busy(u)', Busy(v)'
        PROVE  wk'[u].token # wk'[v].token
    BY <1>1, <1>3, <2>1 DEF TokensApart, Busy
  <2>2. ASSUME NEW u \in Workers, NEW v \in Workers, u # v, wk'[u].request # 0
        PROVE  wk'[u].request # wk'[v].request
    BY <1>3, <2>2 DEF TokensApart
  <2>3. ASSUME NEW u \in Workers, NEW v \in Workers, NEW f \in Events,
               wk'[u].request # 0, row'[f].request = wk'[u].request,
               row'[f].status = "delivering", Busy(v)'
        PROVE  wk'[v].token # row'[f].token
    <3>1. u # w /\ wk'[u] = wk[u]
      BY <1>3, <2>3
    <3>2. f # e
      BY <1>1, <2>3, <3>1 DEF TokensApart
    <3>3. row[f].token # row[e].token
      BY <1>1, <1>2, <3>2 DEF ClaimConsistent
    <3> QED
      BY <1>1, <1>3, <2>3, <3>1, <3>3 DEF TokensApart, Busy
  <2> QED
    BY <2>1, <2>2, <2>3 DEF TokensApart
<1>9. RetryBudget' /\ AckedOutcomeStands'
  BY <1>1 DEF RetryBudget, AckedOutcomeStands
<1> QED
  BY <1>4, <1>5, <1>6, <1>7, <1>8, <1>9

\* A worker that turns idle without an open request gives up its claim.
LEMMA IdleInv ==
    ASSUME OutboxInv, NEW w \in Workers, wk' = [wk EXCEPT ![w] = Idle(0)],
           faults' \in Nat, UNCHANGED <<row, serial, processed, acked>>
    PROVE  OutboxInv'
<1> USE OutboxAssumption DEF OutboxInv
<1>1. /\ wk' \in [Workers -> Worker]
      /\ \A v \in Workers \ {w} : wk'[v] = wk[v]
      /\ wk'[w] = [pc |-> "idle", request |-> 0, ev |-> "none", token |-> 0,
                   outcome |-> "none"]
  BY DEF Idle, TypeOK, Worker
<1>2. TypeOK'
  BY <1>1 DEF TypeOK
<1>3. ClaimConsistent'
  BY DEF ClaimConsistent
<1>4. IssuedIds'
  BY <1>1 DEF IssuedIds, TypeOK
<1>5. WorkerShape'
  BY <1>1 DEF WorkerShape, Busy
<1>6. TokensApart'
  BY <1>1 DEF TokensApart, Busy
<1>7. RetryBudget' /\ AckedOutcomeStands'
  BY DEF RetryBudget, AckedOutcomeStands
<1> QED
  BY <1>2, <1>3, <1>4, <1>5, <1>6, <1>7

\* Working moves a worker from its claim to the outcome it will report.
LEMMA WorkInv ==
    ASSUME OutboxInv, NEW w \in Workers, NEW o \in Outcomes, Work(w, o)
    PROVE  OutboxInv'
<1> USE OutboxAssumption DEF OutboxInv
<1>1. /\ wk' \in [Workers -> Worker]
      /\ \A v \in Workers \ {w} : wk'[v] = wk[v]
      /\ wk[w].pc = "working" /\ wk'[w].pc = "finalize" /\ wk'[w].outcome = o
      /\ wk'[w].ev = wk[w].ev /\ wk'[w].token = wk[w].token
      /\ wk'[w].request = wk[w].request
      /\ UNCHANGED <<row, serial, faults, acked>>
  BY DEF Work, TypeOK, Worker
<1>2. wk[w].ev \in Events
  BY <1>1 DEF WorkerShape, Busy
<1>3. /\ processed' \in SUBSET Events
      /\ processed \subseteq processed'
      /\ o = "published" => wk[w].ev \in processed'
  BY <1>2 DEF Work, TypeOK
<1>4. TypeOK'
  BY <1>1, <1>3 DEF TypeOK
<1>5. ClaimConsistent'
  BY <1>1 DEF ClaimConsistent
<1>6. IssuedIds'
  BY <1>1 DEF IssuedIds
<1>7. WorkerShape'
  BY <1>1, <1>3 DEF WorkerShape, Busy
<1>8. TokensApart'
  BY <1>1 DEF TokensApart, Busy
<1>9. RetryBudget' /\ AckedOutcomeStands'
  BY <1>1 DEF RetryBudget, AckedOutcomeStands
<1> QED
  BY <1>4, <1>5, <1>6, <1>7, <1>8, <1>9

\* Finalize settles the row of a current claim or leaves the table alone; what
\* it confirms is what the row says from then on.
LEMMA FinalizeInv ==
    ASSUME OutboxInv, NEW w \in Workers, wk[w].pc = "finalize",
           FinalizeRow(wk[w].ev, wk[w].token, wk[w].outcome),
           wk' = wk \/ wk' = [wk EXCEPT ![w] = Idle(0)],
           faults' \in Nat, UNCHANGED <<serial, processed>>
    PROVE  OutboxInv'
<1> USE OutboxAssumption DEF OutboxInv
<1> DEFINE free == [pc |-> "idle", request |-> 0, ev |-> "none", token |-> 0,
                    outcome |-> "none"]
<1>0. /\ wk' \in [Workers -> Worker]
      /\ \A v \in Workers : wk'[v] = wk[v] \/ wk'[v] = free
  BY DEF Idle, TypeOK, Worker
<1> DEFINE e == wk[w].ev
           o == wk[w].outcome
           n == FinalizedRow(row[e], o)
<1>1. e \in Events /\ o \in Outcomes /\ row[e] \in Row
  BY DEF WorkerShape, Busy, TypeOK
<1>2. CASE UNCHANGED <<row, acked>>
  <2>1. TypeOK' /\ ClaimConsistent' /\ RetryBudget' /\ AckedOutcomeStands'
    BY <1>0, <1>2 DEF TypeOK, ClaimConsistent, RetryBudget, AckedOutcomeStands
  <2>2. IssuedIds' /\ WorkerShape'
    BY <1>0, <1>2 DEF IssuedIds, TypeOK, WorkerShape, Busy
  <2>3. TokensApart'
    BY <1>0, <1>2 DEF TokensApart, Busy
  <2> QED
    BY <2>1, <2>2, <2>3
<1>3. CASE Terminal(e) /\ Compatible(row[e].status, o) /\ Confirm(e, o) /\ UNCHANGED row
  <2>1. /\ acked' \in [Events -> SUBSET Outcomes]
        /\ acked'[e] = acked[e] \cup {o}
        /\ \A f \in Events \ {e} : acked'[f] = acked[f]
    BY <1>1, <1>3 DEF Confirm, TypeOK
  <2>2. row[e].status \in {"published", "dead"} /\ ((row[e].status = "published") <=> (o = "published"))
    BY <1>3 DEF Terminal, Compatible
  <2> HIDE DEF e, o
  <2>3. AckedOutcomeStands'
    BY <1>1, <1>3, <2>1, <2>2 DEF AckedOutcomeStands
  <2>4. TypeOK' /\ ClaimConsistent' /\ RetryBudget'
    BY <1>0, <1>3, <2>1 DEF TypeOK, ClaimConsistent, RetryBudget
  <2>5. IssuedIds' /\ WorkerShape'
    BY <1>0, <1>3 DEF IssuedIds, TypeOK, WorkerShape, Busy
  <2>6. TokensApart'
    BY <1>0, <1>3 DEF TokensApart, Busy
  <2> QED
    BY <2>3, <2>4, <2>5, <2>6
<1>4. CASE /\ ~Terminal(e) /\ CurrentClaim(e, wk[w].token) /\ Confirm(e, o)
           /\ row' = [row EXCEPT ![e] = FinalizedRow(@, o)]
  <2>1. /\ acked' \in [Events -> SUBSET Outcomes]
        /\ acked'[e] = acked[e] \cup {o}
        /\ \A f \in Events \ {e} : acked'[f] = acked[f]
    BY <1>1, <1>4 DEF Confirm, TypeOK
  <2>2. /\ n \in Row /\ n.status \in {"pending", "published", "dead"}
        /\ n.token = 0 /\ n.lease = 0 /\ n.request = row[e].request
        /\ row[e].wait = 0 /\ n.status # "pending" => n.wait = 0
        /\ n.status = "pending" => row[e].attempts < MaxAttempts
        /\ n.attempts = row[e].attempts
        /\ (o = "published") <=> (n.status = "published")
        /\ (o = "rejected") => (n.status = "dead")
    BY <1>1, FinalizedRowFacts
  <2>3. row[e].status = "delivering"
    BY <1>4 DEF CurrentClaim
  <2>4. row' = [row EXCEPT ![e] = n]
    BY <1>4
  <2> HIDE DEF n, e, o
  <2>5. /\ row' \in [Events -> Row]
        /\ row'[e] = n
        /\ \A f \in Events \ {e} : row'[f] = row[f]
    BY <1>1, <2>2, <2>4 DEF TypeOK
  <2>6. TypeOK'
    BY <1>0, <2>1, <2>5 DEF TypeOK
  <2>7. ClaimConsistent'
    BY <1>1, <2>2, <2>5 DEF ClaimConsistent
  <2>8. IssuedIds'
    <3>1. \A v \in Workers : wk'[v].token <= serial /\ wk'[v].request <= serial
      <4>1. serial \in Nat /\ \A v \in Workers : wk[v].token <= serial /\ wk[v].request <= serial
        BY DEF IssuedIds, TypeOK
      <4> QED
        BY <1>0, <4>1
    <3>2. \A f \in Events : /\ row'[f].token <= serial
                            /\ row'[f].request <= serial
                            /\ row'[f].status \in {"none", "pending"} => row'[f].lease = 0
                            /\ row'[f].status # "pending" => row'[f].wait = 0
      <4>1. \A f \in Events : /\ row[f].token <= serial
                              /\ row[f].request <= serial
                              /\ row[f].status \in {"none", "pending"} => row[f].lease = 0
                              /\ row[f].status # "pending" => row[f].wait = 0
        BY DEF IssuedIds
      <4>2. serial \in Nat
        BY DEF TypeOK
      <4> QED
        BY <1>1, <2>2, <2>3, <2>5, <4>1, <4>2
    <3> QED
      BY <3>1, <3>2 DEF IssuedIds
  <2>9. WorkerShape'
    <3> SUFFICES ASSUME NEW v \in Workers
                 PROVE  /\ Busy(v)' => /\ wk'[v].ev \in Events
                                       /\ wk'[v].token # 0
                                       /\ wk'[v].request = 0
                                       /\ row'[wk'[v].ev].status # "none"
                        /\ wk'[v].pc = "finalize" => wk'[v].outcome \in Outcomes
                        /\ wk'[v].pc = "finalize" /\ wk'[v].outcome = "published"
                              => wk'[v].ev \in processed'
      BY DEF WorkerShape
    <3>1. CASE wk'[v] = free
      BY <3>1 DEF Busy
    <3>2. CASE wk'[v] = wk[v]
      <4>1. \A f \in Events : row[f].status # "none" => row'[f].status # "none"
        BY <2>2, <2>5
      <4> QED
        BY <3>2, <4>1 DEF WorkerShape, Busy
    <3> QED
      BY <1>0, <3>1, <3>2
  <2>10. TokensApart'
    BY <1>0, <1>1, <2>2, <2>5 DEF TokensApart, Busy
  <2>11. RetryBudget'
    BY <1>1, <2>2, <2>5 DEF RetryBudget
  <2>12. AckedOutcomeStands'
    BY <1>1, <2>1, <2>2, <2>3, <2>5 DEF AckedOutcomeStands
  <2> QED
    BY <2>6, <2>7, <2>8, <2>9, <2>10, <2>11, <2>12
<1> QED
  BY <1>2, <1>3, <1>4 DEF FinalizeRow

\* Time only lowers leases and waits.
LEMMA TickInv ==
    ASSUME OutboxInv, Tick
    PROVE  OutboxInv'
<1> USE OutboxAssumption DEF OutboxInv
<1> DEFINE n(e) == [row[e] EXCEPT !.lease = Dec(@), !.wait = Dec(@)]
<1>1. faults' \in Nat /\ UNCHANGED <<wk, serial, processed, acked>>
  <2>1. UNCHANGED <<wk, serial, processed, acked>> /\ (Fault \/ UNCHANGED faults)
    BY Zenon DEF Tick
  <2>2. CASE Fault
    BY <2>1, <2>2 DEF Fault, TypeOK
  <2>3. CASE UNCHANGED faults
    BY <2>1, <2>3 DEF TypeOK
  <2> QED
    BY <2>1, <2>2, <2>3
<1>2. row' = [e \in Events |-> n(e)]
  BY DEF Tick
<1>3. ASSUME NEW e \in Events
      PROVE  /\ n(e) \in Row
             /\ n(e).status = row[e].status /\ n(e).token = row[e].token
             /\ n(e).request = row[e].request /\ n(e).attempts = row[e].attempts
             /\ n(e).lease > 0 => row[e].lease > 0
             /\ n(e).lease \in Nat /\ row[e].lease \in Nat
             /\ row[e].wait = 0 => n(e).wait = 0
  <2> DEFINE r == row[e]
             l == Dec(row[e].lease)
             d == Dec(row[e].wait)
  <2>1. r \in Row
    BY DEF TypeOK
  <2>2. /\ l \in Nat /\ d \in Nat /\ (l > 0 => r.lease > 0) /\ r.lease \in Nat
        /\ r.wait = 0 => d = 0
    BY <2>1 DEF Dec, Row
  <2>3. n(e) = [r EXCEPT !.lease = l, !.wait = d]
    BY Zenon
  <2> HIDE DEF r, l, d
  <2>4. [r EXCEPT !.lease = l, !.wait = d] \in Row
    BY <2>1, <2>2 DEF Row
  <2> HIDE DEF n
  <2>5. /\ n(e) \in Row /\ n(e).wait = d /\ n(e).lease = l /\ n(e).status = r.status
        /\ n(e).token = r.token /\ n(e).request = r.request /\ n(e).attempts = r.attempts
    BY <2>1, <2>3, <2>4 DEF Row
  <2> QED
    BY <2>2, <2>5 DEF r
<1> HIDE DEF n
<1>4. row' \in [Events -> Row] /\ \A e \in Events : row'[e] = n(e)
  BY <1>2, <1>3
<1>5. TypeOK'
  BY <1>1, <1>4 DEF TypeOK
<1>6. ClaimConsistent'
  BY <1>3, <1>4 DEF ClaimConsistent
<1>7. IssuedIds'
  BY <1>1, <1>3, <1>4 DEF IssuedIds
<1>8. WorkerShape'
  BY <1>1, <1>3, <1>4 DEF WorkerShape, Busy
<1>9. TokensApart'
  BY <1>1, <1>3, <1>4 DEF TokensApart, Busy
<1>10. RetryBudget' /\ AckedOutcomeStands'
  BY <1>1, <1>3, <1>4 DEF RetryBudget, AckedOutcomeStands
<1> QED
  BY <1>5, <1>6, <1>7, <1>8, <1>9, <1>10

\* Every step of the outbox preserves its inductive invariant.
LEMMA NextInv == OutboxInv /\ [Next]_vars => OutboxInv'
<1> SUFFICES ASSUME OutboxInv, [Next]_vars PROVE OutboxInv'
  OBVIOUS
<1> USE OutboxAssumption
<1>1. ASSUME NEW e \in Events, Publish(e) PROVE OutboxInv'
  BY <1>1, PublishInv
<1>2. ASSUME NEW w \in Workers, Claim(w) PROVE OutboxInv'
  <2>1. PICK e \in Events : ClaimRow(w, serial + 1, e) /\ Receive(w, e, serial + 1)
    BY <1>2 DEF Claim
  <2>2. /\ wk[w].pc = "idle" /\ faults' \in Nat /\ serial + 1 \in Nat
        /\ UNCHANGED <<processed, acked>>
    BY <1>2 DEF Claim, OutboxInv, TypeOK
  <2>3. wk' = [wk EXCEPT ![w] = [pc |-> "working", request |-> 0, ev |-> e,
                                 token |-> serial + 1, outcome |-> "none"]]
    BY <2>1 DEF Receive
  <2> QED
    BY <2>1, <2>2, <2>3, ClaimInv
<1>3. ASSUME NEW w \in Workers, ClaimReplyLost(w) PROVE OutboxInv'
  <2>1. PICK e \in Events : ClaimRow(w, serial + 1, e)
    BY <1>3 DEF ClaimReplyLost
  <2>2. /\ wk[w].pc = "idle" /\ faults' \in Nat /\ serial + 1 \in Nat
        /\ UNCHANGED <<processed, acked>>
    BY <1>3 DEF ClaimReplyLost, Fault, OutboxInv, TypeOK
  <2>3. wk' = [wk EXCEPT ![w] = [pc |-> "idle", request |-> serial + 1, ev |-> "none",
                                 token |-> 0, outcome |-> "none"]]
    BY <1>3 DEF ClaimReplyLost, Idle
  <2> QED
    BY <2>1, <2>2, <2>3, ClaimInv
<1>4. ASSUME NEW w \in Workers, ClaimAgain(w) PROVE OutboxInv'
  <2>1. wk[w].pc = "idle" /\ wk[w].request # 0 /\ wk[w].request \in Nat
    BY <1>4 DEF ClaimAgain, OutboxInv, TypeOK, Worker
  <2>2. UNCHANGED <<faults, processed, acked>> /\ faults \in Nat
    BY <1>4 DEF ClaimAgain, OutboxInv, TypeOK
  <2>3. ASSUME NEW e \in Events, ReplayClaim(wk[w].request, e), Receive(w, e, row[e].token)
        PROVE  OutboxInv'
    BY <2>1, <2>2, <2>3, ReplayInv
  <2>4. ASSUME NEW e \in Events, ClaimRow(w, wk[w].request, e), Receive(w, e, serial + 1)
        PROVE  OutboxInv'
    BY <2>1, <2>2, <2>4, ClaimInv DEF Receive
  <2>5. CASE wk' = [wk EXCEPT ![w] = Idle(0)] /\ UNCHANGED <<row, serial>>
    BY <2>2, <2>5, IdleInv
  <2> QED
    BY <1>4, <2>3, <2>4, <2>5 DEF ClaimAgain
<1>5. ASSUME NEW w \in Workers, NEW o \in Outcomes, Work(w, o) PROVE OutboxInv'
  BY <1>5, WorkInv
<1>6. ASSUME NEW w \in Workers, Finalize(w) PROVE OutboxInv'
  <2>1. /\ wk[w].pc = "finalize"
        /\ FinalizeRow(wk[w].ev, wk[w].token, wk[w].outcome)
        /\ wk' = [wk EXCEPT ![w] = Idle(0)]
        /\ UNCHANGED <<serial, faults, processed>>
    BY <1>6 DEF Finalize
  <2> QED
    BY <2>1, FinalizeInv DEF OutboxInv, TypeOK
<1>7. ASSUME NEW w \in Workers, FinalizeReplyLost(w) PROVE OutboxInv'
  BY <1>7, FinalizeInv DEF FinalizeReplyLost, Fault, OutboxInv, TypeOK
<1>8. ASSUME NEW w \in Workers, Abandon(w) PROVE OutboxInv'
  <2>1. /\ wk' = [wk EXCEPT ![w] = Idle(0)] /\ UNCHANGED <<row, serial, processed, acked>>
        /\ faults' \in Nat
    BY <1>8 DEF Abandon, Fault, OutboxInv, TypeOK
  <2> QED
    BY <2>1, IdleInv
<1>9. CASE Tick
  BY <1>9, TickInv
<1>10. CASE UNCHANGED vars
  <2>1. (TypeOK /\ ClaimConsistent /\ RetryBudget /\ AckedOutcomeStands)'
    BY <1>10 DEF vars, OutboxInv, TypeOK, ClaimConsistent, RetryBudget, AckedOutcomeStands
  <2>2. (IssuedIds /\ WorkerShape /\ TokensApart)'
    BY <1>10 DEF vars, OutboxInv, IssuedIds, WorkerShape, TokensApart, Busy
  <2> QED
    BY <2>1, <2>2 DEF OutboxInv
<1>11. CASE Next
  BY <1>1, <1>2, <1>3, <1>4, <1>5, <1>6, <1>7, <1>8, <1>9, <1>11, Zenon DEF Next, WorkerNext
<1> QED
  BY <1>10, <1>11

\* The invariant holds in every reachable state.
THEOREM OutboxInvariant == Spec => []OutboxInv
<1>1. Init => OutboxInv
  BY InitInv
<1>2. OutboxInv /\ [Next]_vars => OutboxInv'
  BY NextInv
<1> QED
  BY <1>1, <1>2, PTL DEF Spec

\* Every column and every worker keeps its type.
THEOREM TypeCorrect == Spec => []TypeOK
BY OutboxInvariant, PTL DEF OutboxInv

\* The columns of the rows agree in every reachable state.
THEOREM ClaimsConsistent == Spec => []ClaimConsistent
BY OutboxInvariant, PTL DEF OutboxInv

\* A pending row has an attempt left, whatever leases expired before.
THEOREM RetryBudgetKept == Spec => []RetryBudget
BY OutboxInvariant, PTL DEF OutboxInv

\* An outcome the server confirmed to one worker is never contradicted.
THEOREM AckedOutcomesStand == Spec => []AckedOutcomeStands
BY OutboxInvariant, PTL DEF OutboxInv

\* RowsConsistent: whatever mixture of claims, expiries, retries and repeated
\* finalizations a row goes through, its columns agree with each other and with
\* what its holders were told.
THEOREM RowsAreConsistent == Spec => []RowsConsistent
BY TypeCorrect, ClaimsConsistent, RetryBudgetKept, AckedOutcomesStand, PTL DEF RowsConsistent

\* Of all the workers that think they hold a row, at most one has the token
\* with which Finalize settles it.
THEOREM LeaseExclusion == Spec => []OneHolder
<1>1. OutboxInv => OneHolder
  BY DEF OutboxInv, OneHolder, Holds, TokensApart
<1> QED
  BY <1>1, OutboxInvariant, PTL

-----------------------------------------------------------------------------
(* The three things a step can do to the table, as a producer sees them. *)

\* The rows other than e are left alone.
OnlyRow(e) == \A f \in Events \ {e} : row'[f] = row[f]

\* A new row.
Published(e) == /\ row[e].status = "none" /\ row'[e].status = "pending"
            /\ OnlyRow(e)
            /\ processed' = processed

\* A delivering row is settled for good.
Closes(e) == /\ row[e].status = "delivering"
             /\ row'[e].status \in {"published", "dead"}
             /\ row'[e].status = "published" => e \in processed
             /\ row'[e].created = row[e].created
             /\ OnlyRow(e)
             /\ processed' = processed

\* Claims, retries, expiries and work: no row is opened or closed.
KeepsOpen == /\ \A e \in Events : \/ row'[e] = row[e]
                                  \/ /\ row[e].status \in {"pending", "delivering"}
                                     /\ row'[e].status \in {"pending", "delivering"}
                                     /\ row'[e].created = row[e].created
             /\ \/ processed' = processed
                \/ \E e \in Events : row[e].status # "none" /\ processed' = processed \cup {e}

Seen == \/ \E e \in Events : Published(e) \/ Closes(e)
        \/ KeepsOpen

\* Rows with the same columns are the same row.
LEMMA RowEquality ==
    ASSUME NEW p \in Row, NEW q \in Row, p.status = q.status, p.created = q.created,
           p.attempts = q.attempts, p.token = q.token, p.request = q.request,
           p.lease = q.lease, p.wait = q.wait
    PROVE  p = q
BY DEF Row

\* A claim keeps the row open.
LEMMA ClaimSeen ==
    ASSUME OutboxInv, NEW w \in Workers, NEW r \in Nat, NEW e \in Events, ClaimRow(w, r, e),
           processed' = processed
    PROVE  KeepsOpen
<1>1. /\ row[e].status \in {"pending", "delivering"}
      /\ \A f \in Events \ {e} : row'[f] = row[f]
      /\ row'[e].status = "delivering" /\ row'[e].created = row[e].created
  BY ClaimRowFacts
<1> QED
  BY <1>1 DEF KeepsOpen

\* Finalize closes the row, sends it back to pending or changes nothing.
LEMMA FinalizeSeen ==
    ASSUME OutboxInv, NEW w \in Workers, wk[w].pc = "finalize",
           FinalizeRow(wk[w].ev, wk[w].token, wk[w].outcome), processed' = processed
    PROVE  Seen
<1> USE DEF OutboxInv
<1> DEFINE e == wk[w].ev
           o == wk[w].outcome
           n == FinalizedRow(row[e], o)
<1>1. /\ e \in Events /\ o \in Outcomes /\ row[e] \in Row
      /\ o = "published" => e \in processed
  BY DEF WorkerShape, Busy, TypeOK
<1>2. CASE UNCHANGED row
  BY <1>2 DEF Seen, KeepsOpen
<1>3. CASE CurrentClaim(e, wk[w].token) /\ row' = [row EXCEPT ![e] = FinalizedRow(@, o)]
  <2>1. row' = [row EXCEPT ![e] = n] /\ row[e].status = "delivering"
    BY <1>3 DEF CurrentClaim
  <2>2. /\ n \in Row /\ n.status \in {"pending", "published", "dead"}
        /\ n.created = row[e].created
        /\ (o = "published") <=> (n.status = "published")
    BY <1>1, FinalizedRowFacts
  <2> HIDE DEF n, e, o
  <2>3. row'[e] = n /\ OnlyRow(e)
    BY <1>1, <2>1, <2>2 DEF TypeOK, OnlyRow
  <2>4. n.status = "pending" => KeepsOpen
    BY <2>1, <2>2, <2>3 DEF KeepsOpen, OnlyRow
  <2>5. n.status # "pending" => Closes(e)
    BY <1>1, <2>1, <2>2, <2>3 DEF Closes
  <2> QED
    BY <1>1, <2>4, <2>5 DEF Seen
<1> QED
  BY <1>2, <1>3 DEF FinalizeRow

\* Every step is one of the three.
LEMMA StepSeen == OutboxInv /\ [Next]_vars => Seen
<1> SUFFICES ASSUME OutboxInv, [Next]_vars PROVE Seen
  OBVIOUS
<1>0. row \in [Events -> Row] /\ wk \in [Workers -> Worker] /\ serial \in Nat
  BY DEF OutboxInv, TypeOK
<1>1. ASSUME NEW e \in Events, Publish(e) PROVE Seen
  <2>1. Published(e)
    BY <1>0, <1>1 DEF Publish, NewRow, Published, OnlyRow
  <2> QED
    BY <2>1 DEF Seen
<1>2. ASSUME NEW w \in Workers, Claim(w) \/ ClaimReplyLost(w) PROVE Seen
  <2>1. PICK e \in Events : ClaimRow(w, serial + 1, e)
    BY <1>2 DEF Claim, ClaimReplyLost
  <2>2. processed' = processed /\ serial + 1 \in Nat
    BY <1>0, <1>2 DEF Claim, ClaimReplyLost
  <2> QED
    BY <2>1, <2>2, ClaimSeen DEF Seen
<1>3. ASSUME NEW w \in Workers, ClaimAgain(w) PROVE Seen
  <2>1. processed' = processed /\ wk[w].request \in Nat
    BY <1>0, <1>3 DEF ClaimAgain, Worker
  <2>2. CASE row' = row
    BY <2>1, <2>2 DEF Seen, KeepsOpen
  <2>3. CASE \E e \in Events : ClaimRow(w, wk[w].request, e)
    BY <2>1, <2>3, ClaimSeen DEF Seen
  <2> QED
    BY <1>3, <2>2, <2>3 DEF ClaimAgain, ReplayClaim
<1>4. ASSUME NEW w \in Workers, NEW o \in Outcomes, Work(w, o) PROVE Seen
  <2>1. wk[w].ev \in Events /\ row[wk[w].ev].status # "none"
    BY <1>4 DEF Work, OutboxInv, WorkerShape, Busy
  <2>2. row' = row /\ (processed' = processed \/ processed' = processed \cup {wk[w].ev})
    BY <1>4 DEF Work
  <2> QED
    BY <2>1, <2>2 DEF Seen, KeepsOpen
<1>5. ASSUME NEW w \in Workers, Finalize(w) \/ FinalizeReplyLost(w) PROVE Seen
  BY <1>5, FinalizeSeen DEF Finalize, FinalizeReplyLost
<1>6. ASSUME NEW w \in Workers, Abandon(w) PROVE Seen
  BY <1>6 DEF Abandon, Seen, KeepsOpen
<1>7. CASE Tick
  <2>1. processed' = processed
        /\ row' = [e \in Events |-> [row[e] EXCEPT !.lease = Dec(@), !.wait = Dec(@)]]
    BY <1>7, Zenon DEF Tick
  <2>2. ASSUME NEW e \in Events
        PROVE  \/ row'[e] = row[e]
               \/ /\ row[e].status \in {"pending", "delivering"}
                  /\ row'[e].status \in {"pending", "delivering"}
                  /\ row'[e].created = row[e].created
    <3> DEFINE r == row[e]
               l == Dec(row[e].lease)
               d == Dec(row[e].wait)
    <3>1. row'[e] = [r EXCEPT !.lease = l, !.wait = d] /\ r \in Row
      BY <1>0, <2>1
    <3>2. r.lease = 0 => l = 0
      BY DEF Dec
    <3>3. r.wait = 0 => d = 0
      BY DEF Dec
    <3>4. r.status \in {"pending", "delivering"} \/ (r.lease = 0 /\ r.wait = 0)
      BY <1>0 DEF OutboxInv, ClaimConsistent, IssuedIds, Row
    <3> HIDE DEF r, l, d
    <3>5. row'[e].status = r.status /\ row'[e].created = r.created
      BY <3>1 DEF Row
    <3>6. ASSUME r.lease = l, r.wait = d PROVE row'[e] = r
      <4> DEFINE q == [r EXCEPT !.lease = l, !.wait = d]
      <4>1. /\ q \in Row /\ q.status = r.status /\ q.created = r.created
            /\ q.attempts = r.attempts /\ q.token = r.token /\ q.request = r.request
            /\ q.lease = r.lease /\ q.wait = r.wait
        BY <3>1, <3>6 DEF Row
      <4> HIDE DEF q
      <4>2. q = r
        BY <3>1, <4>1, RowEquality
      <4> QED
        BY <3>1, <4>2 DEF q
    <3> QED
      BY <3>2, <3>3, <3>4, <3>5, <3>6 DEF r
  <2> QED
    BY <2>1, <2>2 DEF Seen, KeepsOpen
<1>8. CASE UNCHANGED vars
  BY <1>8 DEF vars, Seen, KeepsOpen
<1>9. CASE Next
  BY <1>1, <1>2, <1>3, <1>4, <1>5, <1>6, <1>7, <1>9, Zenon DEF Next, WorkerNext
<1> QED
  BY <1>8, <1>9

\* protect_delivery_transition: a published or dead row never changes again, and
\* a row that was inserted is never deleted or inserted twice.
THEOREM TerminalRowsImmutable == Spec => TerminalImmutable
<1>1. OutboxInv /\ [Next]_vars
        => [\A e \in Events : /\ Terminal(e) => row'[e] = row[e]
                              /\ row[e].status # "none" => row'[e].created = row[e].created]_vars
  BY StepSeen DEF Seen, Published, Closes, KeepsOpen, OnlyRow, Terminal
<1> QED
  BY <1>1, OutboxInvariant, PTL DEF Spec, TerminalImmutable

\* Delivery at least once: leases, retries and tokens implement a queue whose
\* entries close exactly once, as published only after the work was carried out.
THEOREM Refinement == Spec => AtLeastOnce
<1>1. Init => Contract!Init
  BY DEF Init, Contract!Init, ContractState, NoRow
<1>2. OutboxInv /\ [Next]_vars => [Contract!Next]_(Contract!contractVars)
  <2> SUFFICES ASSUME OutboxInv, [Next]_vars
               PROVE  Contract!Next \/ UNCHANGED <<ContractState, processed>>
    BY DEF Contract!contractVars
  <2>1. ASSUME NEW e \in Events, Published(e) PROVE Contract!Next
    <3>1. Contract!Open(e)
      BY <2>1 DEF Contract!Open, Published, OnlyRow, ContractState
    <3> QED
      BY <3>1 DEF Contract!Next
  <2>2. ASSUME NEW e \in Events, Closes(e) PROVE Contract!Next
    <3>1. Contract!Close(e, row'[e].status)
      BY <2>2 DEF Contract!Close, Closes, OnlyRow, ContractState
    <3> QED
      BY <2>2, <3>1 DEF Contract!Next, Closes
  <2>3. ASSUME KeepsOpen PROVE Contract!Next \/ UNCHANGED <<ContractState, processed>>
    <3>1. ContractState' = ContractState
      BY <2>3 DEF KeepsOpen, ContractState
    <3>2. ASSUME NEW e \in Events, row[e].status # "none", processed' = processed \cup {e}
          PROVE  Contract!CarryOut(e)
      BY <3>1, <3>2 DEF Contract!CarryOut, ContractState
    <3> QED
      BY <2>3, <3>1, <3>2 DEF KeepsOpen, Contract!Next
  <2> QED
    BY <2>1, <2>2, <2>3, StepSeen DEF Seen
<1> QED
  BY <1>1, <1>2, OutboxInvariant, PTL DEF Spec, AtLeastOnce, Contract!Spec
-----------------------------------------------------------------------------
(***************************************************************************)
(* The receipts of callbacks.                                              *)
(***************************************************************************)
\* The initial state satisfies the inductive invariant.
LEMMA ConsumerInitInv == ConsumerInit => ConsumerInv
BY ConsumerAssumption DEF ConsumerInit, ConsumerInv, ConsumerTypeOK, LocksExclusive, RequestShape,
   ReceiptMeaning, InsertIsAlone, NoReceipt, Free, Receipt, Request, HoldsEvent, HoldsReceipt

\* A thread that gives up or is done releases its locks and changes no receipt.
LEMMA AnsweredInv ==
    ASSUME ConsumerInv, NEW r \in Requests, Answered(r),
           UNCHANGED <<receipt, effects, told>>, deliveries' \in Nat, crashes' \in Nat
    PROVE  ConsumerInv'
<1> USE DEF ConsumerInv
<1>1. /\ req' \in [Requests -> Request]
      /\ \A q \in Requests \ {r} : req'[q] = req[q]
      /\ req'[r].pc = "idle"
  BY DEF Answered, Free, ConsumerTypeOK, Request
<1>2. ConsumerTypeOK'
  BY <1>1 DEF ConsumerTypeOK
<1>3. LocksExclusive'
  BY <1>1 DEF LocksExclusive, HoldsEvent, HoldsReceipt
<1>4. RequestShape' /\ InsertIsAlone'
  BY <1>1 DEF RequestShape, InsertIsAlone
<1>5. ReceiptMeaning'
  BY DEF ReceiptMeaning
<1> QED
  BY <1>2, <1>3, <1>4, <1>5

\* A thread that moves on without touching the table keeps the invariant when
\* it may hold the locks of the place it moves to.
LEMMA GotoInv ==
    ASSUME ConsumerInv, NEW r \in Requests, NEW pc, req[r].pc # "idle", Goto(r, pc),
           UNCHANGED <<receipt, effects, told, deliveries, crashes>>,
           \/ pc = "find" /\ EventFree(req[r].id)
           \/ pc = "create" /\ req[r].pc = "find" /\ receipt[req[r].id].status = "none"
           \/ pc = "lock_receipt" /\ receipt[req[r].id].status # "none" /\ Valid(r)
           \/ /\ pc = "yield" /\ ReceiptFree(req[r].id)
              /\ receipt[req[r].id].status = "processing" /\ Valid(r)
    PROVE  ConsumerInv'
<1> USE DEF ConsumerInv
<1>0. pc \in {"find", "create", "lock_receipt", "yield"}
  OBVIOUS
<1>1. /\ req' \in [Requests -> Request]
      /\ \A q \in Requests \ {r} : req'[q] = req[q]
      /\ req'[r].pc = pc /\ req'[r].id = req[r].id /\ req'[r].digest = req[r].digest
  BY <1>0 DEF Goto, ConsumerTypeOK, Request
<1>2. ConsumerTypeOK'
  BY <1>1 DEF ConsumerTypeOK
<1>3. LocksExclusive'
  BY <1>0, <1>1 DEF LocksExclusive, HoldsEvent, HoldsReceipt, EventFree, ReceiptFree
<1>4. RequestShape' /\ InsertIsAlone'
  BY <1>0, <1>1 DEF RequestShape, InsertIsAlone, Valid
<1>5. ReceiptMeaning'
  BY DEF ReceiptMeaning
<1> QED
  BY <1>2, <1>3, <1>4, <1>5

\* Whoever waits for the row lock finds the receipt it has validated.
LEMMA LockedReceipt ==
    ASSUME ConsumerInv, NEW r \in Requests, req[r].pc = "lock_receipt"
    PROVE  /\ Valid(r)
           /\ req[r].id \in Ids /\ req[r].digest \in Digests
           /\ ~Replayable(req[r].id) => receipt[req[r].id].status = "processing"
           /\ Replayable(req[r].id) => receipt[req[r].id].result \in Results
<1>1. /\ Valid(r) /\ req[r].id \in Ids /\ req[r].digest \in Digests
      /\ receipt[req[r].id].status # "none"
  BY DEF ConsumerInv, RequestShape, Valid
<1>2. receipt[req[r].id] \in Receipt
  BY <1>1 DEF ConsumerInv, ConsumerTypeOK
<1> QED
  BY <1>1, <1>2 DEF ConsumerInv, ReceiptMeaning, Replayable, Receipt

\* A delivery starts without a lock.
LEMMA DeliverInv ==
    ASSUME ConsumerInv, NEW r \in Requests, NEW i \in Ids, NEW d \in Digests, Deliver(r, i, d)
    PROVE  ConsumerInv'
<1> USE DEF ConsumerInv
<1>1. /\ req' \in [Requests -> Request]
      /\ \A q \in Requests \ {r} : req'[q] = req[q]
      /\ req'[r].pc = "lock_event" /\ req'[r].id = i /\ req'[r].digest = d
      /\ UNCHANGED <<receipt, effects, told, crashes>> /\ deliveries' = deliveries + 1
  BY DEF Deliver, ConsumerTypeOK, Request
<1>2. ConsumerTypeOK'
  BY <1>1 DEF ConsumerTypeOK
<1>3. LocksExclusive'
  BY <1>1 DEF LocksExclusive, HoldsEvent, HoldsReceipt
<1>4. RequestShape' /\ InsertIsAlone'
  BY <1>1 DEF RequestShape, InsertIsAlone
<1>5. ReceiptMeaning'
  BY <1>1 DEF ReceiptMeaning
<1> QED
  BY <1>2, <1>3, <1>4, <1>5

\* The insert is made under the event's lock.
LEMMA CreateInv ==
    ASSUME ConsumerInv, NEW r \in Requests, Create(r)
    PROVE  ConsumerInv'
<1> USE DEF ConsumerInv
<1> DEFINE i == req[r].id
<1>0. /\ i \in Ids /\ req[r].digest \in Digests /\ receipt[i].status = "none"
      /\ req[r].pc = "create"
  BY DEF Create, RequestShape, InsertIsAlone
<1> DEFINE n == [status |-> "processing", digest |-> req[r].digest, result |-> "none"]
<1>a. /\ receipt' = [receipt EXCEPT ![i] = n]
      /\ req' = [req EXCEPT ![r].pc = "lock_receipt"]
      /\ UNCHANGED <<effects, told, deliveries, crashes>>
  BY <1>0 DEF Create, Goto
<1>b. n \in Receipt /\ n.status = "processing" /\ n.digest = req[r].digest /\ n.result = "none"
  BY <1>0 DEF Receipt
<1>c. /\ req' \in [Requests -> Request]
      /\ \A q \in Requests \ {r} : req'[q] = req[q]
      /\ req'[r].pc = "lock_receipt" /\ req'[r].id = req[r].id
      /\ req'[r].digest = req[r].digest
  BY <1>a DEF ConsumerTypeOK, Request
<1> HIDE DEF n
<1>d. /\ receipt' \in [Ids -> Receipt]
      /\ \A k \in Ids \ {i} : receipt'[k] = receipt[k]
      /\ receipt'[i] = n
  BY <1>0, <1>a, <1>b DEF ConsumerTypeOK
<1>1. /\ req' \in [Requests -> Request]
      /\ \A q \in Requests \ {r} : req'[q] = req[q]
      /\ req'[r].pc = "lock_receipt" /\ req'[r].id = i /\ req'[r].digest = req[r].digest
      /\ receipt' \in [Ids -> Receipt]
      /\ \A k \in Ids \ {i} : receipt'[k] = receipt[k]
      /\ receipt'[i].status = "processing" /\ receipt'[i].digest = req[r].digest
      /\ receipt'[i].result = "none"
      /\ UNCHANGED <<effects, told, deliveries, crashes>>
  BY <1>a, <1>b, <1>c, <1>d
<1> HIDE DEF i
<1>2. ConsumerTypeOK'
  BY <1>1 DEF ConsumerTypeOK
<1>3. LocksExclusive'
  BY <1>1 DEF LocksExclusive, HoldsEvent, HoldsReceipt
<1>4. RequestShape'
  BY <1>0, <1>1 DEF RequestShape
<1>5. InsertIsAlone'
  <2> SUFFICES ASSUME NEW q \in Requests, req'[q].pc = "create"
               PROVE  receipt'[req'[q].id].status = "none"
    BY DEF InsertIsAlone
  <2>1. q # r /\ req'[q] = req[q] /\ req[q].id \in Ids
    BY <1>1 DEF RequestShape
  <2>2. req[q].id # i
    BY <1>0, <1>1, <2>1 DEF LocksExclusive, HoldsEvent, i
  <2> QED
    BY <1>1, <2>1, <2>2 DEF InsertIsAlone
<1>6. ReceiptMeaning'
  BY <1>0, <1>1 DEF ReceiptMeaning
<1> QED
  BY <1>2, <1>3, <1>4, <1>5, <1>6

\* The block runs under the row lock, which stays where it is.
LEMMA YieldInv ==
    ASSUME ConsumerInv, NEW r \in Requests, NEW x \in Results, Yield(r, x)
    PROVE  ConsumerInv'
<1> USE DEF ConsumerInv
<1>1. /\ req' \in [Requests -> Request]
      /\ \A q \in Requests \ {r} : req'[q] = req[q]
      /\ req[r].pc = "yield" /\ req'[r].pc = "complete" /\ req'[r].id = req[r].id
      /\ req'[r].digest = req[r].digest /\ req'[r].result = x
      /\ UNCHANGED <<receipt, effects, told, deliveries, crashes>>
  BY DEF Yield, ConsumerTypeOK, Request
<1>2. ConsumerTypeOK'
  BY <1>1 DEF ConsumerTypeOK
<1>3. LocksExclusive'
  BY <1>1 DEF LocksExclusive, HoldsEvent, HoldsReceipt
<1>4. RequestShape' /\ InsertIsAlone'
  BY <1>1 DEF RequestShape, InsertIsAlone
<1>5. ReceiptMeaning'
  BY <1>1 DEF ReceiptMeaning
<1> QED
  BY <1>2, <1>3, <1>4, <1>5

\* What Complete does to the table, as facts about single columns.
LEMMA CompleteFacts ==
    ASSUME ConsumerInv, NEW r \in Requests, NEW i, i = req[r].id, Complete(r)
    PROVE  /\ i \in Ids /\ req[r].digest \in Digests /\ req[r].result \in Results
           /\ receipt[i].status = "processing" /\ receipt[i].digest = req[r].digest
           /\ receipt' \in [Ids -> Receipt]
           /\ \A k \in Ids \ {i} : receipt'[k] = receipt[k]
           /\ receipt'[i].status = "completed" /\ receipt'[i].digest = req[r].digest
           /\ receipt'[i].result = req[r].result
           /\ effects' = [effects EXCEPT ![i] = effects[i] + 1]
           /\ told' = [told EXCEPT ![i] = @ \cup {[digest |-> req[r].digest,
                                                   result |-> req[r].result]}]
           /\ Answered(r)
           /\ UNCHANGED <<deliveries, crashes>>
<1> USE DEF ConsumerInv
<1>1. /\ i \in Ids /\ req[r].digest \in Digests /\ req[r].result \in Results
      /\ receipt[i].status = "processing" /\ receipt[i].digest = req[r].digest
  BY DEF Complete, RequestShape
<1>2. receipt[i] \in Receipt
  BY <1>1 DEF ConsumerTypeOK
<1> DEFINE n == CompletedReceipt(receipt[i], req[r].result)
<1>3. /\ n \in Receipt /\ n.status = "completed" /\ n.digest = receipt[i].digest
      /\ n.result = req[r].result
  BY <1>1, <1>2 DEF CompletedReceipt, Receipt
<1>4. receipt' = [receipt EXCEPT ![i] = n]
  BY DEF Complete
<1> HIDE DEF n
<1>5. /\ receipt' \in [Ids -> Receipt]
      /\ \A k \in Ids \ {i} : receipt'[k] = receipt[k]
      /\ receipt'[i] = n
  BY <1>1, <1>3, <1>4 DEF ConsumerTypeOK
<1>6. /\ effects' = [effects EXCEPT ![i] = effects[i] + 1]
      /\ told' = [told EXCEPT ![i] = @ \cup {[digest |-> req[r].digest,
                                              result |-> req[r].result]}]
      /\ Answered(r)
      /\ UNCHANGED <<deliveries, crashes>>
  BY DEF Complete, Tell
<1> QED
  BY <1>1, <1>3, <1>5, <1>6

\* The one commit of the block is the one that completes its receipt.
LEMMA CompleteInv ==
    ASSUME ConsumerInv, NEW r \in Requests, Complete(r)
    PROVE  ConsumerInv'
<1> USE ConsumerAssumption DEF ConsumerInv
<1> DEFINE i == req[r].id
<1>1. /\ i \in Ids /\ req[r].digest \in Digests /\ req[r].result \in Results
      /\ receipt[i].status = "processing" /\ receipt[i].digest = req[r].digest
      /\ receipt' \in [Ids -> Receipt]
      /\ \A k \in Ids \ {i} : receipt'[k] = receipt[k]
      /\ receipt'[i].status = "completed" /\ receipt'[i].digest = req[r].digest
      /\ receipt'[i].result = req[r].result
      /\ effects' = [effects EXCEPT ![i] = effects[i] + 1]
      /\ told' = [told EXCEPT ![i] = @ \cup {[digest |-> req[r].digest,
                                              result |-> req[r].result]}]
      /\ Answered(r)
      /\ UNCHANGED <<deliveries, crashes>>
  BY CompleteFacts
<1>2. /\ req' \in [Requests -> Request]
      /\ \A q \in Requests \ {r} : req'[q] = req[q]
      /\ req'[r].pc = "idle"
  BY <1>1 DEF Answered, Free, ConsumerTypeOK, Request
<1>3. HoldsReceipt(r, i)
  BY DEF Complete, HoldsReceipt
<1> HIDE DEF i
<1>4. ConsumerTypeOK'
  BY <1>1, <1>2 DEF ConsumerTypeOK
<1>5. LocksExclusive'
  BY <1>2 DEF LocksExclusive, HoldsEvent, HoldsReceipt
<1>6. InsertIsAlone'
  BY <1>1, <1>2 DEF InsertIsAlone, RequestShape
<1>7. RequestShape'
  <2> SUFFICES ASSUME NEW q \in Requests
               PROVE  /\ req'[q].pc # "idle" => req'[q].id \in Ids /\ req'[q].digest \in Digests
                      /\ req'[q].pc = "lock_receipt"
                           => /\ receipt'[req'[q].id].status # "none"
                              /\ receipt'[req'[q].id].digest = req'[q].digest
                      /\ req'[q].pc \in {"yield", "complete"}
                           => /\ receipt'[req'[q].id].status = "processing"
                              /\ receipt'[req'[q].id].digest = req'[q].digest
                      /\ req'[q].pc = "complete" => req'[q].result \in Results
    BY DEF RequestShape
  <2>1. CASE q = r
    BY <1>2, <2>1
  <2>2. CASE q # r
    <3>1. req'[q] = req[q]
      BY <1>2, <2>2
    <3>2. req[q].pc \in {"yield", "complete"} => req[q].id # i
      BY <1>3, <2>2, <1>1 DEF LocksExclusive, HoldsReceipt
    <3> QED
      BY <1>1, <3>1, <3>2 DEF RequestShape
  <2> QED
    BY <2>1, <2>2
<1>8. ReceiptMeaning'
  BY <1>1 DEF ReceiptMeaning, ConsumerTypeOK
<1> QED
  BY <1>4, <1>5, <1>6, <1>7, <1>8

\* A completed receipt answers with its result.
LEMMA ReceiptReplayInv ==
    ASSUME ConsumerInv, NEW r \in Requests, req[r].pc = "lock_receipt", Replayable(req[r].id),
           Tell(req[r].id, req[r].digest, receipt[req[r].id].result), Answered(r),
           UNCHANGED <<receipt, effects, deliveries, crashes>>
    PROVE  ConsumerInv'
<1> USE DEF ConsumerInv
<1>1. /\ req' \in [Requests -> Request]
      /\ \A q \in Requests \ {r} : req'[q] = req[q]
      /\ req'[r].pc = "idle"
  BY DEF Answered, Free, ConsumerTypeOK, Request
<1>2. told' \in [Ids -> SUBSET [digest : Digests, result : Results]]
  BY LockedReceipt DEF Tell, ConsumerTypeOK
<1>3. ConsumerTypeOK'
  BY <1>1, <1>2 DEF ConsumerTypeOK
<1>4. LocksExclusive'
  BY <1>1 DEF LocksExclusive, HoldsEvent, HoldsReceipt
<1>5. RequestShape' /\ InsertIsAlone'
  BY <1>1 DEF RequestShape, InsertIsAlone
<1>6. ReceiptMeaning'
  <2>1. \A k \in Ids : receipt[k].status # "completed" => told'[k] = told[k]
    BY DEF Tell, Replayable, ConsumerTypeOK
  <2> QED
    BY <2>1 DEF ReceiptMeaning
<1> QED
  BY <1>3, <1>4, <1>5, <1>6

\* Every step of the consumer preserves its inductive invariant.
LEMMA ConsumerNextInv == ConsumerInv /\ [ConsumerNext]_consumerVars => ConsumerInv'
<1> SUFFICES ASSUME ConsumerInv, [ConsumerNext]_consumerVars PROVE ConsumerInv'
  OBVIOUS
<1>0. deliveries \in Nat /\ crashes \in Nat
  BY DEF ConsumerInv, ConsumerTypeOK
<1>1. ASSUME NEW r \in Requests, NEW i \in Ids, NEW d \in Digests, Deliver(r, i, d)
      PROVE  ConsumerInv'
  BY <1>1, DeliverInv
<1>2. ASSUME NEW r \in Requests, LockEvent(r) PROVE ConsumerInv'
  BY <1>2, GotoInv DEF LockEvent
<1>3. ASSUME NEW r \in Requests, Find(r) PROVE ConsumerInv'
  BY <1>0, <1>3, GotoInv, AnsweredInv DEF Find
<1>4. ASSUME NEW r \in Requests, Create(r) PROVE ConsumerInv'
  BY <1>4, CreateInv
<1>5. ASSUME NEW r \in Requests, LockReceipt(r) PROVE ConsumerInv'
  <2>1. Valid(r) /\ (~Replayable(req[r].id) => receipt[req[r].id].status = "processing")
    BY <1>5, LockedReceipt DEF LockReceipt
  <2>2. /\ req[r].pc = "lock_receipt" /\ ReceiptFree(req[r].id)
        /\ UNCHANGED <<receipt, effects, deliveries, crashes>>
        /\ \/ /\ Replayable(req[r].id)
              /\ Tell(req[r].id, req[r].digest, receipt[req[r].id].result)
              /\ Answered(r)
           \/ ~Replayable(req[r].id) /\ Goto(r, "yield") /\ UNCHANGED told
    BY <1>5, <2>1 DEF LockReceipt
  <2> QED
    BY <2>1, <2>2, GotoInv, ReceiptReplayInv
<1>6. ASSUME NEW r \in Requests, NEW x \in Results, Yield(r, x) PROVE ConsumerInv'
  BY <1>6, YieldInv
<1>7. ASSUME NEW r \in Requests, YieldRaises(r) PROVE ConsumerInv'
  BY <1>0, <1>7, AnsweredInv DEF YieldRaises
<1>8. ASSUME NEW r \in Requests, Complete(r) PROVE ConsumerInv'
  BY <1>8, CompleteInv
<1>9. ASSUME NEW r \in Requests, Crash(r) PROVE ConsumerInv'
  BY <1>0, <1>9, AnsweredInv DEF Crash
<1>10. CASE UNCHANGED consumerVars
  BY <1>10 DEF consumerVars, ConsumerInv, ConsumerTypeOK, LocksExclusive, RequestShape, ReceiptMeaning,
     InsertIsAlone, HoldsEvent, HoldsReceipt
<1>11. CASE ConsumerNext
  BY <1>1, <1>2, <1>3, <1>4, <1>5, <1>6, <1>7, <1>8, <1>9, <1>11, Zenon DEF ConsumerNext, Step
<1> QED
  BY <1>10, <1>11

\* The invariant holds in every reachable state.
THEOREM ConsumerInvariant == ConsumerSpec => []ConsumerInv
<1>1. ConsumerInit => ConsumerInv
  BY ConsumerInitInv
<1>2. ConsumerInv /\ [ConsumerNext]_consumerVars => ConsumerInv'
  BY ConsumerNextInv
<1> QED
  BY <1>1, <1>2, PTL DEF ConsumerSpec

\* Receipts, requests and answers keep their types.
THEOREM ConsumerTypeCorrect == ConsumerSpec => []ConsumerTypeOK
BY ConsumerInvariant, PTL DEF ConsumerInv

\* No delivery fails on the unique index of the receipts.
THEOREM InsertAlone == ConsumerSpec => []InsertIsAlone
BY ConsumerInvariant, PTL DEF ConsumerInv

\* ReceiptsConsistent: of any number of concurrent deliveries one inserts the
\* receipt.
THEOREM ReceiptsAreConsistent == ConsumerSpec => []ReceiptsConsistent
BY ConsumerTypeCorrect, InsertAlone, PTL DEF ReceiptsConsistent

\* A receipt's reading of its event never changes, nor does a completed receipt.
THEOREM ReceiptsStable == ConsumerSpec => ReceiptStable
<1> DEFINE Stable == \A i \in Ids :
              /\ receipt[i].status # "none" => receipt'[i].digest = receipt[i].digest
              /\ receipt[i].status = "completed" => receipt'[i] = receipt[i]
              /\ receipt'[i].status = "none" => receipt[i].status = "none"
<1>1. ConsumerInv /\ [ConsumerNext]_consumerVars => [Stable]_consumerVars
  <2> SUFFICES ASSUME ConsumerInv, ConsumerNext PROVE Stable
    BY DEF consumerVars
  <2>1. CASE receipt' = receipt
    BY <2>1
  <2>2. ASSUME NEW r \in Requests, Create(r), receipt' # receipt PROVE Stable
    <3>1. /\ req[r].id \in Ids /\ receipt[req[r].id].status = "none"
          /\ receipt' = [receipt EXCEPT ![req[r].id] =
                           [status |-> "processing", digest |-> req[r].digest,
                            result |-> "none"]]
      BY <2>2 DEF Create, ConsumerInv, RequestShape
    <3> QED
      BY <3>1 DEF ConsumerInv, ConsumerTypeOK
  <2>3. ASSUME NEW r \in Requests, Complete(r) PROVE Stable
    <3> DEFINE i == req[r].id
    <3>1. /\ receipt[i].status = "processing" /\ receipt[i].digest = req[r].digest
          /\ \A k \in Ids \ {i} : receipt'[k] = receipt[k]
          /\ receipt'[i].status = "completed" /\ receipt'[i].digest = req[r].digest
      BY <2>3, CompleteFacts
    <3> HIDE DEF i
    <3> QED
      BY <3>1
  <2>4. \/ receipt' = receipt
        \/ \E r \in Requests : Create(r) \/ Complete(r)
    BY DEF ConsumerNext, Step, Deliver, LockEvent, Find, LockReceipt, Yield, YieldRaises, Crash
  <2> QED
    BY <2>1, <2>2, <2>3, <2>4
<1> QED
  BY <1>1, ConsumerInvariant, PTL DEF ConsumerSpec, ReceiptStable

\* The two transactions implement a consumer that executes each event at most
\* once, for one reading of it, and answers every delivery alike.
THEOREM ConsumerRefinement == ConsumerSpec => ExactlyOnce
<1>1. ConsumerInit => ReceiptsContract!Init
  BY DEF ConsumerInit, ReceiptsContract!Init, ReceiptsContract!NotConsumed, ContractOutcome, NoReceipt
<1>2. ConsumerInv /\ [ConsumerNext]_consumerVars => [ReceiptsContract!Next]_(ReceiptsContract!contractVars)
  <2> SUFFICES ASSUME ConsumerInv, [ConsumerNext]_consumerVars
               PROVE  ReceiptsContract!Next \/ UNCHANGED <<ContractOutcome, effects, told>>
    BY DEF ReceiptsContract!contractVars
  <2>1. CASE UNCHANGED <<receipt, effects, told>>
    BY <2>1 DEF ContractOutcome
  <2>2. ASSUME NEW r \in Requests, Create(r) PROVE UNCHANGED <<ContractOutcome, effects, told>>
    <3>1. CASE receipt' = receipt
      BY <2>2, <3>1 DEF Create, ContractOutcome
    <3>2. CASE receipt' # receipt
      <4>1. /\ req[r].id \in Ids /\ receipt[req[r].id].status = "none"
            /\ receipt' = [receipt EXCEPT ![req[r].id] =
                             [status |-> "processing", digest |-> req[r].digest,
                              result |-> "none"]]
            /\ UNCHANGED <<effects, told>>
        BY <2>2, <3>2 DEF Create, ConsumerInv, RequestShape
      <4> QED
        BY <4>1 DEF ConsumerInv, ConsumerTypeOK, ContractOutcome
    <3> QED
      BY <3>1, <3>2
  <2>3. ASSUME NEW r \in Requests, LockReceipt(r)
        PROVE  ReceiptsContract!Next \/ UNCHANGED <<receipt, effects, told>>
    <3> DEFINE i == req[r].id
    <3>1. /\ Valid(r) /\ i \in Ids /\ UNCHANGED <<receipt, effects>>
      BY <2>3, LockedReceipt DEF LockReceipt
    <3>2. CASE Replayable(i) /\ Tell(i, req[r].digest, receipt[i].result)
      <4>1. /\ ContractOutcome[i] = [digest |-> req[r].digest, result |-> receipt[i].result]
            /\ receipt[i].result \in Results
        BY <2>3, <3>1, <3>2, LockedReceipt DEF ContractOutcome, Replayable, Valid, LockReceipt
      <4>2. ContractOutcome[i] # ReceiptsContract!NotConsumed
        BY <4>1, ConsumerAssumption DEF ReceiptsContract!NotConsumed
      <4>3. told' = [told EXCEPT ![i] = @ \cup {ContractOutcome[i]}]
        BY <3>2, <4>1 DEF Tell
      <4>4. UNCHANGED ContractOutcome
        BY <3>1 DEF ContractOutcome
      <4>5. ReceiptsContract!Replay(i)
        BY <3>1, <4>2, <4>3, <4>4 DEF ReceiptsContract!Replay
      <4>6. i \in Ids
        BY <3>1
      <4> HIDE DEF i
      <4>7. ReceiptsContract!Next
        BY <4>5, <4>6, Zenon DEF ReceiptsContract!Next
      <4> QED
        BY <4>7
    <3>3. CASE UNCHANGED told
      BY <3>1, <3>3
    <3>4. \/ Replayable(i) /\ Tell(i, req[r].digest, receipt[i].result)
          \/ UNCHANGED told
      BY <2>3, Zenon DEF LockReceipt
    <3> QED
      BY <3>2, <3>3, <3>4
  <2>4. ASSUME NEW r \in Requests, Complete(r) PROVE ReceiptsContract!Next
    <3> DEFINE i == req[r].id
               d == req[r].digest
               x == req[r].result
    <3>1. /\ i \in Ids /\ d \in Digests /\ x \in Results
          /\ receipt[i].status = "processing"
          /\ \A k \in Ids \ {i} : receipt'[k] = receipt[k]
          /\ receipt'[i].status = "completed" /\ receipt'[i].digest = d
          /\ receipt'[i].result = x
          /\ effects' = [effects EXCEPT ![i] = effects[i] + 1]
          /\ told' = [told EXCEPT ![i] = @ \cup {[digest |-> d, result |-> x]}]
      BY <2>4, CompleteFacts
    <3> HIDE DEF i, d, x
    <3>2. effects[i] = 0 /\ effects' = [effects EXCEPT ![i] = 1]
      <4>1. effects[i] = 0
        BY <3>1 DEF ConsumerInv, ReceiptMeaning
      <4> QED
        BY <3>1, <4>1
    <3>3. ContractOutcome[i] = ReceiptsContract!NotConsumed
      BY <3>1 DEF ContractOutcome, ReceiptsContract!NotConsumed
    <3>4. ContractOutcome' = [ContractOutcome EXCEPT ![i] = [digest |-> d, result |-> x]]
      BY <3>1 DEF ContractOutcome
    <3>5. told[i] = {} /\ told \in [Ids -> SUBSET [digest : Digests, result : Results]]
      BY <3>1 DEF ConsumerInv, ReceiptMeaning, ConsumerTypeOK
    <3>6. ContractOutcome'[i] = [digest |-> d, result |-> x]
      BY <3>1 DEF ContractOutcome
    <3>7. told' = [told EXCEPT ![i] = {ContractOutcome'[i]}]
      BY <3>1, <3>5, <3>6
    <3>8. ReceiptsContract!Consume(i, d, x)
      BY <3>2, <3>3, <3>4, <3>7 DEF ReceiptsContract!Consume
    <3> QED
      BY <3>1, <3>8 DEF ReceiptsContract!Next
  <2>5. \/ UNCHANGED <<receipt, effects, told>>
        \/ \E r \in Requests : Create(r) \/ LockReceipt(r) \/ Complete(r)
    BY DEF consumerVars, ConsumerNext, Step, Deliver, LockEvent, Find, Yield, YieldRaises, Crash
  <2> QED
    BY <2>1, <2>2, <2>3, <2>4, <2>5 DEF ContractOutcome
<1> QED
  BY <1>1, <1>2, ConsumerInvariant, PTL DEF ConsumerSpec, ExactlyOnce, ReceiptsContract!Spec

-----------------------------------------------------------------------------
(***************************************************************************)
(* The deliveries of a Git provider.                                       *)
(***************************************************************************)

\* The initial state satisfies the invariant.
LEMMA GitInitInv == GitAssumption /\ GitInit => GitInv
BY DEF GitAssumption, GitInit, GitInv, GitTypeOK, HistoryInv, Sent, InstallationStatuses,
   DeliveryIds, NoConnection

\* The deliveries there are have ids.
LEMMA SentIds == GitAssumption /\ GitInv => Sent = 1..Len(events) /\ Sent \subseteq DeliveryIds
BY DEF GitAssumption, GitInv, HistoryInv, Sent, DeliveryIds

\* A new event is the last one.
LEMMA EmitAppends ==
    ASSUME GitAssumption, GitInv, NEW type \in Lifecycle \cup Deployable,
           NEW repo \in Repos \cup {"none"}, Emit(type, repo)
    PROVE  /\ events' \in Seq(Event) /\ Len(events') <= MaxEvents
           /\ Len(events') = Len(events) + 1
           /\ Sent' = Sent \cup {Len(events) + 1}
           /\ Len(events) + 1 \notin Sent
           /\ \A i \in Sent : events'[i] = events[i] /\ i <= Len(events)
           /\ events'[Len(events) + 1] = [type |-> type, repo |-> repo]
<1>1. events \in Seq(Event) /\ Len(events) < MaxEvents /\ Len(events) \in Nat
  BY DEF GitInv, HistoryInv, Emit
<1>2. [type |-> type, repo |-> repo] \in Event
  BY DEF Event
<1> DEFINE e == [type |-> type, repo |-> repo]
<1>3. events' = Append(events, e)
  BY DEF Emit
<1>4. e \in Event
  BY <1>2
<1> HIDE DEF e
<1>5. /\ events' \in Seq(Event) /\ Len(events') = Len(events) + 1
      /\ \A i \in 1..Len(events) : events'[i] = events[i]
      /\ events'[Len(events) + 1] = e
  BY <1>1, <1>3, <1>4
<1>6. Sent = 1..Len(events) /\ Sent' = 1..Len(events')
  BY <1>1, <1>5 DEF Sent
<1>7. Sent' = Sent \cup {Len(events) + 1} /\ Len(events) + 1 \notin Sent
      /\ \A i \in Sent : i <= Len(events)
  BY <1>1, <1>5, <1>6
<1>8. Len(events') <= MaxEvents
  BY <1>1, <1>5 DEF GitAssumption
<1> QED
  BY <1>5, <1>6, <1>7, <1>8 DEF e

\* What an event says is what holds, of the installation and of a repository.
LEMMA EmitInv ==
    ASSUME GitAssumption, GitInv, NEW type \in Lifecycle \cup Deployable,
           NEW repo \in Repos \cup {"none"}, Emit(type, repo),
           provider # "disconnected", provider' \in InstallationStatuses,
           selected' \subseteq Repos, gone' \subseteq Repos,
           type = "disconnected" => provider' = "disconnected",
           type \in {"added", "removed", "gone"} => repo \in Repos,
           provider' = IF TellsStatus([type |-> type, repo |-> repo])
                       THEN StatusOf([type |-> type, repo |-> repo]) ELSE provider,
           \A r \in Repos :
              Available(r)' <=> IF TellsOf([type |-> type, repo |-> repo], r)
                                THEN type = "added" ELSE Available(r)
    PROVE  GitInv'
<1> DEFINE e == [type |-> type, repo |-> repo]
           n == Len(events) + 1
<1>1. /\ events' \in Seq(Event) /\ Len(events') <= MaxEvents /\ Len(events') = n
      /\ Sent' = Sent \cup {n} /\ n \notin Sent
      /\ \A i \in Sent : events'[i] = events[i] /\ i <= Len(events)
      /\ events'[n] = e
  BY EmitAppends
<1>2. /\ Sent \subseteq DeliveryIds /\ Sent = 1..Len(events) /\ n \in Nat
      /\ \A i \in Sent : i < n /\ i \in Nat
  BY SentIds DEF GitInv, HistoryInv
<1>3. UNCHANGED <<inst, conn, inbox, made, ignored, ingest, install, link>>
  BY DEF Emit, rows
<1>4. e.type = type /\ e.repo = repo /\ e \in [type : Lifecycle \cup Deployable, repo : Repos \cup {"none"}]
  OBVIOUS
<1> HIDE DEF e, n
<1>5. \A i \in Sent : events[i].type # "disconnected"
  BY DEF GitInv, HistoryInv
<1>6. ASSUME NEW i \in Sent'
      PROVE  /\ events'[i].type = "disconnected" => i = Len(events') /\ provider' = "disconnected"
             /\ events'[i].type \in {"added", "removed", "gone"} => events'[i].repo \in Repos
             /\ TellsStatus(events'[i]) /\ (\A j \in Sent' : j > i => ~TellsStatus(events'[j]))
                  => provider' = StatusOf(events'[i])
             /\ \A r \in Repos :
                  TellsOf(events'[i], r) /\ (\A j \in Sent' : j > i => ~TellsOf(events'[j], r))
                    => (Available(r)' <=> events'[i].type = "added")
  <2>1. CASE i = n
    <3>1. provider' = IF TellsStatus(e) THEN StatusOf(e) ELSE provider
      BY DEF e
    <3>2. \A r \in Repos : TellsOf(e, r) => (Available(r)' <=> type = "added")
      BY DEF e
    <3> QED
      BY <2>1, <1>1, <1>4, <3>1, <3>2
  <2>2. CASE i \in Sent
    <3>1. events'[i] = events[i] /\ i < n /\ n \in Sent' /\ n > i
      BY <2>2, <1>1, <1>2
    <3>2. events[i].type # "disconnected"
      BY <2>2, <1>5
    <3>3. events[i].type \in {"added", "removed", "gone"} => events[i].repo \in Repos
      BY <2>2 DEF GitInv, HistoryInv
    <3>4. ASSUME TellsStatus(events'[i]), \A j \in Sent' : j > i => ~TellsStatus(events'[j])
          PROVE  provider' = StatusOf(events'[i])
      <4>1. ~TellsStatus(e)
        BY <3>1, <3>4, <1>1
      <4>2. provider' = provider
        BY <4>1 DEF e
      <4>3. \A j \in Sent : j > i => ~TellsStatus(events[j])
        BY <3>4, <1>1
      <4>4. provider = StatusOf(events[i])
        BY <2>2, <3>1, <3>4, <4>3 DEF GitInv, HistoryInv
      <4> QED
        BY <4>2, <4>4, <3>1
    <3>5. ASSUME NEW r \in Repos, TellsOf(events'[i], r),
                 \A j \in Sent' : j > i => ~TellsOf(events'[j], r)
          PROVE  Available(r)' <=> events'[i].type = "added"
      <4>1. ~TellsOf(e, r)
        BY <3>1, <3>5, <1>1
      <4>2. Available(r)' <=> Available(r)
        BY <4>1 DEF e
      <4>3. \A j \in Sent : j > i => ~TellsOf(events[j], r)
        BY <3>5, <1>1
      <4>4. Available(r) <=> events[i].type = "added"
        BY <2>2, <3>1, <3>5, <4>3 DEF GitInv, HistoryInv
      <4> QED
        BY <4>2, <4>4, <3>1
    <3> QED
      BY <3>1, <3>2, <3>3, <3>4, <3>5
  <2> QED
    BY <1>1, <2>1, <2>2
<1>7. HistoryInv'
  <2>1. \A i \in DeliveryIds : inbox'[i] # "none" => i \in Sent'
    BY <1>1, <1>3 DEF GitInv, HistoryInv
  <2>2. ignored' \subseteq Sent' /\ (\A q \in ingest' : q.id \in Sent') /\ install' # "disconnected"
    BY <1>1, <1>3 DEF GitInv, HistoryInv
  <2> QED
    BY <1>1, <1>6, <2>1, <2>2 DEF HistoryInv
<1>8. GitTypeOK'
  <2>1. \A i \in DOMAIN events' : events'[i] \in [type : Lifecycle \cup Deployable, repo : Repos \cup {"none"}]
    <3>1. \A i \in 1..Len(events') : events'[i] \in Event
      BY <1>1, ElementOfSeq
    <3>2. DOMAIN events' = 1..Len(events')
      BY <1>1
    <3> QED
      BY <3>1, <3>2 DEF Event
  <2>2. \A i \in DeliveryIds : made'[i] => inbox'[i] = "processed" /\ events'[i].type = "push"
    BY <1>1, <1>3 DEF GitInv, GitTypeOK, HistoryInv
  <2>3. \A i \in DeliveryIds : made'[i] => inbox'[i] = "processed"
    BY <2>2
  <2> QED
    BY <2>1, <2>2, <1>3 DEF GitInv, GitTypeOK
<1> QED
  BY <1>7, <1>8 DEF GitInv

\* What happens at the provider keeps the invariant.
LEMMA ProviderKeepsGitInv ==
    ASSUME GitAssumption, GitInv,
           \/ StatusChanges
           \/ \E r \in Repos : \/ SelectionChanges(r)
                               \/ \E type \in Deployable : Push(r, type)
    PROVE  GitInv'
<1>1. /\ provider \in InstallationStatuses /\ selected \subseteq Repos /\ gone \subseteq Repos
      /\ "none" \notin Repos
  BY DEF GitInv, GitTypeOK, GitAssumption
<1>2. CASE StatusChanges
  <2>1. UNCHANGED <<selected, gone>>
    BY <1>2 DEF StatusChanges
  <2>2. CASE provider = "active" /\ provider' = "suspended" /\ Emit("suspended", "none")
    BY <2>1, <2>2, <1>1, EmitInv
       DEF Lifecycle, InstallationStatuses, TellsStatus, StatusOf, TellsOf, Available
  <2>3. CASE provider = "suspended" /\ provider' = "active" /\ Emit("connected", "none")
    BY <2>1, <2>3, <1>1, EmitInv
       DEF Lifecycle, InstallationStatuses, TellsStatus, StatusOf, TellsOf, Available
  <2>4. CASE provider # "disconnected" /\ provider' = "disconnected" /\ Emit("disconnected", "none")
    BY <2>1, <2>4, <1>1, EmitInv
       DEF Lifecycle, InstallationStatuses, TellsStatus, StatusOf, TellsOf, Available
  <2> QED
    BY <1>2, <2>2, <2>3, <2>4 DEF StatusChanges
<1>3. ASSUME NEW r \in Repos, SelectionChanges(r)
      PROVE  GitInv'
  <2>1. provider # "disconnected" /\ provider' = provider
    BY <1>3 DEF SelectionChanges
  <2>2. CASE r \notin selected \cup gone /\ selected' = selected \cup {r} /\ gone' = gone /\ Emit("added", r)
    <3>1. /\ ~TellsStatus([type |-> "added", repo |-> r])
          /\ \A s \in Repos : TellsOf([type |-> "added", repo |-> r], s) <=> s = r
      BY DEF TellsStatus, TellsOf
    <3>2. \A s \in Repos : Available(s)' <=> IF s = r THEN TRUE ELSE Available(s)
      BY <2>1, <2>2 DEF Available
    <3> QED
      BY <2>1, <2>2, <1>1, <3>1, <3>2, EmitInv DEF Lifecycle
  <2>3. CASE r \in selected /\ selected' = selected \ {r} /\ gone' = gone /\ Emit("removed", r)
    <3>1. /\ ~TellsStatus([type |-> "removed", repo |-> r])
          /\ \A s \in Repos : TellsOf([type |-> "removed", repo |-> r], s) <=> s = r
      BY DEF TellsStatus, TellsOf
    <3>2. \A s \in Repos : Available(s)' <=> IF s = r THEN FALSE ELSE Available(s)
      BY <2>1, <2>3 DEF Available
    <3> QED
      BY <2>1, <2>3, <1>1, <3>1, <3>2, EmitInv DEF Lifecycle
  <2>4. CASE r \in selected /\ selected' = selected \ {r} /\ gone' = gone \cup {r} /\ Emit("gone", r)
    <3>1. /\ ~TellsStatus([type |-> "gone", repo |-> r])
          /\ \A s \in Repos : TellsOf([type |-> "gone", repo |-> r], s) <=> s = r
      BY DEF TellsStatus, TellsOf
    <3>2. \A s \in Repos : Available(s)' <=> IF s = r THEN FALSE ELSE Available(s)
      BY <2>1, <2>4 DEF Available
    <3> QED
      BY <2>1, <2>4, <1>1, <3>1, <3>2, EmitInv DEF Lifecycle
  <2> QED
    BY <1>3, <2>2, <2>3, <2>4 DEF SelectionChanges
<1>4. ASSUME NEW r \in Repos, NEW type \in Deployable, Push(r, type)
      PROVE  GitInv'
  <2>1. provider = "active" /\ Emit(type, r) /\ UNCHANGED <<provider, selected, gone>>
    BY <1>4 DEF Push
  <2>2. /\ type \notin {"disconnected", "added", "removed", "gone", "connected", "suspended"}
        /\ type \in Lifecycle \cup Deployable /\ r \in Repos \cup {"none"}
    BY DEF Deployable
  <2>3. /\ ~TellsStatus([type |-> type, repo |-> r])
        /\ \A s \in Repos : ~TellsOf([type |-> type, repo |-> r], s)
        /\ \A s \in Repos : Available(s)' <=> Available(s)
    BY <2>1, <2>2 DEF TellsStatus, TellsOf, Available
  <2> QED
    BY <1>1, <2>1, <2>2, <2>3, EmitInv
<1> QED
  BY <1>2, <1>3, <1>4

\* What Rails does leaves the history of the provider alone.
LEMMA RailsKeepsGitInv ==
    ASSUME GitAssumption, GitInv,
           \/ \E r \in Repos : LinkAsk(r)
           \/ \E i \in DeliveryIds : Load(i) \/ Consume(i)
           \/ \E q \in ingest : Commit(q) \/ Dies(q)
           \/ InstallAsk \/ InstallSave \/ LinkSave
    PROVE  GitInv'
<1>1. UNCHANGED atProvider
  BY DEF LinkAsk, Load, Consume, Commit, Dies, InstallAsk, InstallSave, LinkSave
<1>2. /\ Sent' = Sent /\ \A r \in Repos : Available(r)' <=> Available(r)
      /\ Sent \subseteq DeliveryIds
  BY <1>1, SentIds DEF atProvider, Sent, Available
<1>3. SUFFICES ASSUME GitTypeOK', \A i \in DeliveryIds : inbox'[i] # "none" => i \in Sent,
                      ignored' \subseteq Sent, \A q \in ingest' : q.id \in Sent,
                      install' # "disconnected"
               PROVE  GitInv'
  <2>1. GitTypeOK'
    <3>1. CASE \E r \in Repos : LinkAsk(r)
      BY <1>1, <3>1 DEF LinkAsk, atProvider, rows, GitInv, GitTypeOK
    <3>2. ASSUME NEW i \in DeliveryIds, Load(i) PROVE GitTypeOK'
      BY <1>1, <3>2 DEF Load, atProvider, rows, GitInv, GitTypeOK
    <3>3. ASSUME NEW i \in DeliveryIds, Consume(i) PROVE GitTypeOK'
      <4> DEFINE Outcome == {"none", "pending", "processed", "failed"}
      <4>1. inbox' \in [DeliveryIds -> Outcome] /\ made' \in [DeliveryIds -> BOOLEAN]
        BY <3>3 DEF Consume, GitInv, GitTypeOK
      <4>2. \A j \in DeliveryIds : made'[j] => inbox'[j] = "processed" /\ events[j].type = "push"
        BY <3>3 DEF Consume, GitInv, GitTypeOK, MessageSettled
      <4>3. UNCHANGED <<provider, selected, gone, events, inst, conn, ignored, ingest, install, link>>
        BY <3>3 DEF Consume, atProvider
      <4> QED
        BY <4>1, <4>2, <4>3 DEF GitInv, GitTypeOK
    <3>4. ASSUME NEW q \in ingest, Commit(q) PROVE GitTypeOK'
      <4>1. q \in [id : DeliveryIds, status : InstallationStatuses]
        BY DEF GitInv, GitTypeOK
      <4>2. CASE Known(q.id)
        BY <1>1, <3>4, <4>2 DEF Commit, atProvider, rows, GitInv, GitTypeOK
      <4>3. CASE ~Known(q.id)
        <5>1. inbox' \in [DeliveryIds -> {"none", "pending", "processed", "failed"}]
          BY <3>4, <4>1, <4>3 DEF Commit, GitInv, GitTypeOK
        <5>2. \A i \in DeliveryIds : made[i] => inbox'[i] = "processed"
          BY <3>4, <4>1, <4>3 DEF Commit, GitInv, GitTypeOK, Known
        <5>3. inst' \in InstallationStatuses \cup {"none"}
          BY <3>4, <4>3 DEF Commit, Installation, Updated, GitInv, GitTypeOK, InstallationStatuses
        <5>4. conn' = NoConnection \/ conn' \in [repo : Repos, status : {"active", "removed", "disconnected"}]
          <6>1. conn' = Connections(events[q.id])
            BY <3>4, <4>3 DEF Commit
          <6>2. events[q.id].repo = conn.repo /\ events[q.id].type \in {"added", "removed", "gone"}
                  => conn # NoConnection
            BY <4>1 DEF GitInv, HistoryInv, NoConnection, GitAssumption
          <6> QED
            BY <6>1, <6>2 DEF Connections, GitInv, GitTypeOK
        <5>5. /\ UNCHANGED <<provider, selected, gone, events, made, ignored, install, link>>
              /\ ingest' \subseteq ingest
          BY <3>4, <4>3 DEF Commit, atProvider
        <5> QED
          BY <5>1, <5>2, <5>3, <5>4, <5>5 DEF GitInv, GitTypeOK
      <4> QED
        BY <4>2, <4>3
    <3>5. ASSUME NEW q \in ingest, Dies(q) PROVE GitTypeOK'
      BY <1>1, <3>5 DEF Dies, atProvider, rows, GitInv, GitTypeOK
    <3>6. CASE InstallAsk
      BY <1>1, <3>6 DEF InstallAsk, atProvider, rows, GitInv, GitTypeOK
    <3>7. CASE InstallSave
      BY <1>1, <3>7 DEF InstallSave, atProvider, GitInv, GitTypeOK
    <3>8. CASE LinkSave
      BY <1>1, <3>8 DEF LinkSave, atProvider, GitInv, GitTypeOK
    <3> QED
      BY <3>1, <3>2, <3>3, <3>4, <3>5, <3>6, <3>7, <3>8
  <2>2. \A i \in DeliveryIds : inbox'[i] # "none" => i \in Sent
    BY DEF LinkAsk, Load, Consume, Commit, Dies, InstallAsk, InstallSave, LinkSave, rows,
           GitInv, GitTypeOK, HistoryInv, Known
  <2>3. ignored' \subseteq Sent /\ (\A q \in ingest' : q.id \in Sent) /\ install' # "disconnected"
    BY DEF LinkAsk, Load, Comes, Consume, Commit, Dies, InstallAsk, InstallSave, LinkSave,
           GitInv, HistoryInv
  <2> QED
    BY <2>1, <2>2, <2>3
<1>4. HistoryInv'
  BY <1>1, <1>2, <1>3 DEF atProvider, GitInv, HistoryInv
<1> QED
  BY <1>3, <1>4 DEF GitInv

\* GitInv is inductive.
LEMMA GitNextInv == GitAssumption /\ GitInv /\ [GitNext]_gitVars => GitInv'
<1> SUFFICES ASSUME GitAssumption, GitInv, [GitNext]_gitVars PROVE GitInv'
  OBVIOUS
<1>1. CASE GitNext
  BY <1>1, ProviderKeepsGitInv, RailsKeepsGitInv DEF GitNext
<1>2. CASE UNCHANGED gitVars
  BY <1>2 DEF gitVars, GitInv, GitTypeOK, HistoryInv, Sent, Available
<1> QED
  BY <1>1, <1>2

\* Rails keeps well-typed records of an installation, and the events of the
\* provider say what became of it, in whatever order they are delivered.
THEOREM GitInvariant == GitAssumption => (GitSpec => []GitInv)
<1> SUFFICES ASSUME GitAssumption PROVE GitSpec => []GitInv
  OBVIOUS
<1>1. GitInit => GitInv
  BY GitInitInv
<1>2. GitInv /\ [GitNext]_gitVars => GitInv'
  BY GitNextInv
<1> QED
  BY <1>1, <1>2, PTL DEF GitSpec

\* A delivery is applied once: what Rails knows of an installation changes with
\* a delivery that is new to the inbox or a connection that a user asked for.
THEOREM DeliveriesAppliedOnce == GitAssumption => (GitSpec => [][AppliedOnce]_gitVars)
<1> SUFFICES ASSUME GitAssumption PROVE GitSpec => [][AppliedOnce]_gitVars
  OBVIOUS
<1>1. GitInv /\ [GitNext]_gitVars => [AppliedOnce]_gitVars
  <2> SUFFICES ASSUME GitInv, GitNext PROVE AppliedOnce
    OBVIOUS
  <2>1. ASSUME NEW q \in ingest, Commit(q) PROVE AppliedOnce
    <3>1. q.id \in DeliveryIds /\ inbox \in [DeliveryIds -> {"none", "pending", "processed", "failed"}]
      BY DEF GitInv, GitTypeOK
    <3>2. CASE Known(q.id)
      BY <2>1, <3>2 DEF Commit, rows, AppliedOnce
    <3>3. CASE ~Known(q.id)
      <4>1. inbox[q.id] = "none" /\ inbox'[q.id] # "none"
        BY <2>1, <3>1, <3>3 DEF Commit, Known
      <4> QED
        BY <3>1, <4>1 DEF AppliedOnce
    <3> QED
      BY <3>2, <3>3
  <2>2. CASE InstallSave
    BY <2>2 DEF InstallSave, AppliedOnce
  <2>3. CASE LinkSave
    BY <2>3 DEF LinkSave, AppliedOnce
  <2>4. CASE UNCHANGED <<inst, conn>>
    BY <2>4 DEF AppliedOnce
  <2> QED
    BY <2>1, <2>2, <2>3, <2>4
       DEF GitNext, StatusChanges, SelectionChanges, Push, Emit, LinkAsk, Load, Consume, Dies,
           InstallAsk, rows
<1>2. GitSpec => []GitInv
  BY GitInvariant
<1> QED
  BY <1>1, <1>2, PTL DEF GitSpec

\* The outcome of a message is final, whatever is delivered, consumed again or
\* connected later.
THEOREM OutcomesOfMessagesStand == GitAssumption => (GitSpec => [][OutcomeStands]_gitVars)
<1> SUFFICES ASSUME GitAssumption PROVE GitSpec => [][OutcomeStands]_gitVars
  OBVIOUS
<1>1. GitInv /\ [GitNext]_gitVars => [OutcomeStands]_gitVars
  <2> SUFFICES ASSUME GitInv, GitNext PROVE OutcomeStands
    OBVIOUS
  <2>1. /\ inbox \in [DeliveryIds -> {"none", "pending", "processed", "failed"}]
        /\ made \in [DeliveryIds -> BOOLEAN]
    BY DEF GitInv, GitTypeOK
  <2>2. ASSUME NEW q \in ingest, Commit(q) PROVE OutcomeStands
    BY <2>1, <2>2 DEF Commit, Known, rows, OutcomeStands
  <2>3. ASSUME NEW i \in DeliveryIds, Consume(i) PROVE OutcomeStands
    <3>1. CASE MessageSettled(i)
      BY <2>3, <3>1 DEF Consume, OutcomeStands
    <3>2. CASE ~MessageSettled(i)
      <4>1. inbox[i] \notin {"processed", "failed"}
        BY <3>2 DEF MessageSettled
      <4>2. \A j \in DeliveryIds \ {i} : inbox'[j] = inbox[j] /\ made'[j] = made[j]
        BY <2>1, <2>3, <3>2 DEF Consume
      <4> QED
        BY <4>1, <4>2 DEF OutcomeStands
    <3> QED
      BY <3>1, <3>2
  <2>4. CASE UNCHANGED <<inbox, made>>
    BY <2>4 DEF OutcomeStands
  <2> QED
    BY <2>2, <2>3, <2>4
       DEF GitNext, StatusChanges, SelectionChanges, Push, Emit, LinkAsk, Load, Dies,
           InstallAsk, InstallSave, LinkSave, rows
<1>2. GitSpec => []GitInv
  BY GitInvariant
<1> QED
  BY <1>1, <1>2, PTL DEF GitSpec

\* In order, the initial state satisfies what Rails knows.
LEMMA FollowInit == GitAssumption /\ GitInit => FollowInv
BY DEF GitAssumption, GitInit, FollowInv, OneRequest, TakenInOrder, Sent, Taken, DeliveryIds,
   NoConnection

\* Whatever happens at the provider, a delivery is to come that tells of it.
LEMMA EmitFollows ==
    ASSUME GitAssumption, GitInv, FollowInv, NEW type \in Lifecycle \cup Deployable,
           NEW repo \in Repos \cup {"none"}, Emit(type, repo), provider # "disconnected",
           provider' = provider \/ TellsStatus([type |-> type, repo |-> repo]),
           \A r \in Repos : \/ Available(r)' <=> Available(r)
                            \/ TellsOf([type |-> type, repo |-> repo], r)
    PROVE  FollowInv'
<1> DEFINE e == [type |-> type, repo |-> repo]
           n == Len(events) + 1
<1>1. /\ Sent' = Sent \cup {n} /\ n \notin Sent
      /\ \A i \in Sent : events'[i] = events[i] /\ i <= Len(events)
      /\ events'[n] = e
  BY EmitAppends
<1>2. /\ Sent = 1..Len(events) /\ Sent \subseteq DeliveryIds /\ Len(events) \in Nat
      /\ \A i \in Sent : 1..(i - 1) \subseteq Sent
  BY SentIds DEF GitInv, HistoryInv
<1>3. UNCHANGED <<inst, conn, inbox, made, ignored, ingest, install, link>>
  BY DEF Emit, rows
<1>4. n \in DeliveryIds
  <2>1. Len(events) < MaxEvents
    BY DEF Emit
  <2> QED
    BY <1>2, <2>1 DEF GitAssumption, DeliveryIds
<1>5. \A i : Taken(i)' <=> Taken(i)
  BY <1>3 DEF Taken
<1>6. ~Taken(n)
  BY <1>1, <1>4 DEF Taken, GitInv, HistoryInv
<1> HIDE DEF e, n
<1>7. OneRequest'
  BY <1>3 DEF FollowInv, OneRequest
<1>8. TakenInOrder'
  <2>1. ASSUME NEW i \in Sent', Taken(i) PROVE \A j \in 1..(i - 1) : Taken(j)
    BY <1>1, <1>6, <2>1 DEF FollowInv, TakenInOrder
  <2>2. \A q \in ingest :
         /\ q.status = inst
         /\ inbox[q.id] = "none" => q.id \notin ignored /\ \A j \in 1..(q.id - 1) : Taken(j)
    BY DEF FollowInv, TakenInOrder
  <2> QED
    BY <1>3, <1>5, <2>1, <2>2 DEF TakenInOrder
<1>9. StatusToCome \/ TellsStatus(e) => StatusToCome'
  BY <1>1, <1>5, <1>6 DEF StatusToCome
<1>10. \A r : ToCome(r) \/ TellsOf(e, r) => ToCome(r)'
  BY <1>1, <1>5, <1>6 DEF ToCome
<1>11. provider' = provider \/ TellsStatus(e)
  BY DEF e
<1>12. \A r \in Repos : (Available(r)' <=> Available(r)) \/ TellsOf(e, r)
  BY DEF e
<1>13. inst # "none" => inst' = provider' \/ StatusToCome'
  BY <1>3, <1>9, <1>11 DEF FollowInv
<1>14. install # "none" => install' = provider' \/ StatusToCome'
  BY <1>3, <1>9, <1>11 DEF FollowInv
<1>15. \A r \in Repos : conn # NoConnection /\ conn.repo = r
         => (conn.status = "active" <=> Available(r)') \/ ToCome(r)'
  <2>1. \A r \in Repos : conn # NoConnection /\ conn.repo = r
          => (conn.status = "active" <=> Available(r)) \/ ToCome(r)
    BY DEF FollowInv
  <2> QED
    BY <2>1, <1>10, <1>12
<1>16. \A r \in Repos : link = r => Available(r)' \/ ToCome(r)'
  <2>1. \A r \in Repos : link = r => Available(r) \/ ToCome(r)
    BY DEF FollowInv, GitAssumption
  <2> QED
    BY <2>1, <1>10, <1>12
<1>17. inst # "disconnected"
  <2>1. SUFFICES ASSUME inst = "disconnected" PROVE FALSE
    OBVIOUS
  <2>2. events # <<>> /\ events[Len(events)].type = "disconnected"
    BY <2>1 DEF FollowInv
  <2>3. Len(events) \in Sent
    BY <1>2, <2>2 DEF GitInv, HistoryInv
  <2> QED
    BY <2>2, <2>3 DEF GitInv, HistoryInv
<1>18. inst = "none" => conn = NoConnection /\ link = "none" /\ ingest = {}
  BY DEF FollowInv
<1>19. (conn # NoConnection => conn.repo \in Repos) /\ (link # "none" => link \in Repos)
  BY DEF GitInv, GitTypeOK
<1>20. conn' # NoConnection =>
         (conn'.status = "active" <=> Available(conn.repo)') \/ ToCome(conn.repo)'
  BY <1>3, <1>15, <1>19
<1>21. link' # "none" => Available(link)' \/ ToCome(link)'
  BY <1>3, <1>16, <1>19
<1> QED
  BY <1>3, <1>7, <1>8, <1>13, <1>14, <1>17, <1>18, <1>20, <1>21 DEF FollowInv

\* What happens at the provider keeps what Rails knows, or has yet to be told.
LEMMA ProviderFollows ==
    ASSUME GitAssumption, GitInv, FollowInv,
           \/ StatusChanges
           \/ \E r \in Repos : \/ SelectionChanges(r)
                               \/ \E type \in Deployable : Push(r, type)
    PROVE  FollowInv'
<1>1. CASE StatusChanges
  <2>1. PICK type \in {"suspended", "connected", "disconnected"} :
             provider # "disconnected" /\ Emit(type, "none")
    BY <1>1 DEF StatusChanges
  <2>2. TellsStatus([type |-> type, repo |-> "none"])
    BY DEF TellsStatus
  <2>3. \A r \in Repos : \/ Available(r)' <=> Available(r)
                         \/ TellsOf([type |-> type, repo |-> "none"], r)
    BY <1>1, <2>1 DEF StatusChanges, Available, TellsOf, Emit
  <2>4. type \in Lifecycle \cup Deployable
    BY DEF Lifecycle
  <2> QED
    BY <2>1, <2>2, <2>3, <2>4, EmitFollows
<1>2. ASSUME NEW r \in Repos, SelectionChanges(r) PROVE FollowInv'
  <2>1. PICK type \in {"added", "removed", "gone"} :
             /\ Emit(type, r) /\ provider # "disconnected" /\ provider' = provider
             /\ \A s \in Repos : s # r => (s \in selected' <=> s \in selected)
    BY <1>2 DEF SelectionChanges
  <2>2. \A s \in Repos : \/ Available(s)' <=> Available(s)
                         \/ TellsOf([type |-> type, repo |-> r], s)
    BY <2>1 DEF Available, TellsOf
  <2>3. type \in Lifecycle \cup Deployable
    BY DEF Lifecycle
  <2> QED
    BY <2>1, <2>2, <2>3, EmitFollows
<1>3. ASSUME NEW r \in Repos, NEW type \in Deployable, Push(r, type) PROVE FollowInv'
  <2>1. provider # "disconnected" /\ Emit(type, r) /\ UNCHANGED <<provider, selected>>
    BY <1>3 DEF Push
  <2>2. \A s \in Repos : Available(s)' <=> Available(s)
    BY <2>1 DEF Available
  <2> QED
    BY <2>1, <2>2, EmitFollows
<1> QED
  BY <1>1, <1>2, <1>3

\* In order, a delivery is loaded when nothing else is going on.
LEMMA LoadFollows ==
    ASSUME GitInv, FollowInv, InOrder, NEW i \in DeliveryIds, Load(i)
    PROVE  FollowInv'
<1>1. /\ ingest = {} /\ install = "none" /\ link = "none" /\ i \in Sent
      /\ inbox[i] # "none" \/ (i \notin ignored /\ \A j \in 1..(i - 1) : Taken(j))
  BY DEF Load, Comes, Quiet, Taken
<1>2. UNCHANGED <<provider, selected, events, inst, conn, inbox, install, link>> /\ Sent' = Sent
  BY DEF Load, atProvider, rows, Sent
<1>3. CASE inst = "none"
  <2>1. ignored' = ignored \cup {i} /\ ingest' = {}
    BY <1>1, <1>3 DEF Load
  <2>2. \A j : Taken(j)' <=> Taken(j) \/ j = i
    BY <1>2, <2>1 DEF Taken
  <2>3. \A j \in 1..(i - 1) : Taken(j)
    BY <1>1 DEF FollowInv, TakenInOrder, Taken
  <2>4. \A k \in Sent : Taken(k)' => \A j \in 1..(k - 1) : Taken(j)'
    BY <2>2, <2>3 DEF FollowInv, TakenInOrder
  <2>5. TakenInOrder' /\ OneRequest'
    BY <1>1, <1>2, <2>1, <2>4 DEF TakenInOrder, OneRequest
  <2>6. conn = NoConnection
    BY <1>3 DEF FollowInv
  <2> QED
    BY <1>1, <1>2, <1>3, <2>1, <2>5, <2>6 DEF FollowInv
<1>4. CASE inst # "none"
  <2>1. ignored' = ignored /\ ingest' = {[id |-> i, status |-> inst]}
    BY <1>1, <1>4 DEF Load
  <2>2. \A j : Taken(j)' <=> Taken(j)
    BY <1>2, <2>1 DEF Taken
  <2>3. TakenInOrder'
    BY <1>1, <1>2, <2>1, <2>2 DEF FollowInv, TakenInOrder
  <2>4. OneRequest'
    BY <1>1, <1>2, <2>1 DEF OneRequest
  <2>5. /\ StatusToCome' <=> StatusToCome
        /\ \A r : (ToCome(r)' <=> ToCome(r)) /\ (Available(r)' <=> Available(r))
    BY <1>2, <2>2 DEF StatusToCome, ToCome, Available
  <2>6. (ToCome(conn.repo)' <=> ToCome(conn.repo)) /\ (Available(conn.repo)' <=> Available(conn.repo))
    BY <1>2, <2>2 DEF ToCome, Available
  <2> QED
    BY <1>1, <1>2, <1>4, <2>1, <2>2, <2>3, <2>4, <2>5, <2>6 DEF FollowInv
<1> QED
  BY <1>3, <1>4

\* A request that leaves the rows alone, or whose message was taken before,
\* leaves what is to come.
LEMMA NothingTaken ==
    ASSUME GitAssumption, GitInv, UNCHANGED <<provider, selected, events, conn, link, ignored>>,
           \A i \in DeliveryIds : inbox'[i] # "none" <=> inbox[i] # "none"
    PROVE  /\ Sent' = Sent /\ \A i \in DeliveryIds : Taken(i)' <=> Taken(i)
           /\ StatusToCome' <=> StatusToCome
           /\ \A r : (ToCome(r)' <=> ToCome(r)) /\ (Available(r)' <=> Available(r))
           /\ ToCome(conn.repo)' <=> ToCome(conn.repo)
           /\ Available(conn.repo)' <=> Available(conn.repo)
           /\ ToCome(link)' <=> ToCome(link)
           /\ Available(link)' <=> Available(link)
<1>1. Sent' = Sent /\ \A i \in DeliveryIds : Taken(i)' <=> Taken(i)
  BY DEF Sent, Taken
<1>2. Sent \subseteq DeliveryIds
  BY SentIds
<1> QED
  BY <1>1, <1>2 DEF StatusToCome, ToCome, Available

\* A request that dies and a message that is consumed change nothing of it.
LEMMA OtherFollows ==
    ASSUME GitAssumption, GitInv, FollowInv,
           \/ \E q \in ingest : Dies(q) \/ (Known(q.id) /\ Commit(q))
           \/ \E i \in DeliveryIds : Consume(i)
    PROVE  FollowInv'
<1>1. /\ UNCHANGED <<provider, selected, events, inst, conn, ignored, install, link>>
      /\ ingest' \subseteq ingest
  BY DEF Dies, Commit, Consume, atProvider, rows
<1>2. \A i \in DeliveryIds : inbox'[i] # "none" <=> inbox[i] # "none"
  <2>1. CASE \E q \in ingest : Dies(q) \/ (Known(q.id) /\ Commit(q))
    BY <2>1 DEF Dies, Commit, rows
  <2>2. ASSUME NEW i \in DeliveryIds, Consume(i)
        PROVE  \A j \in DeliveryIds : inbox'[j] # "none" <=> inbox[j] # "none"
    <3>1. inbox \in [DeliveryIds -> {"none", "pending", "processed", "failed"}] /\ inbox[i] # "none"
      BY <2>2 DEF GitInv, GitTypeOK, Consume, Known
    <3>2. inbox' = inbox \/ inbox' = [inbox EXCEPT ![i] = "processed"]
            \/ inbox' = [inbox EXCEPT ![i] = "failed"]
      BY <2>2 DEF Consume
    <3> QED
      BY <3>1, <3>2
  <2> QED
    BY <2>1, <2>2
<1>3. /\ Sent' = Sent /\ \A i \in DeliveryIds : Taken(i)' <=> Taken(i)
      /\ StatusToCome' <=> StatusToCome
      /\ \A r : (ToCome(r)' <=> ToCome(r)) /\ (Available(r)' <=> Available(r))
      /\ ToCome(conn.repo)' <=> ToCome(conn.repo)
      /\ Available(conn.repo)' <=> Available(conn.repo)
      /\ ToCome(link)' <=> ToCome(link)
      /\ Available(link)' <=> Available(link)
  BY <1>1, <1>2, NothingTaken
<1>4. OneRequest'
  BY <1>1 DEF FollowInv, OneRequest
<1>5. /\ \A i \in Sent : i \in DeliveryIds /\ 1..(i - 1) \subseteq DeliveryIds
      /\ \A q \in ingest : q.id \in Sent
      /\ events # <<>> => Len(events) \in Sent
  BY SentIds DEF GitInv, HistoryInv, DeliveryIds, GitAssumption
<1>6. TakenInOrder'
  <2>1. \A i \in Sent : Taken(i)' => \A j \in 1..(i - 1) : Taken(j)'
    BY <1>3, <1>5 DEF FollowInv, TakenInOrder
  <2>2. \A q \in ingest' : inbox'[q.id] = "none" =>
           q.id \notin ignored /\ \A j \in 1..(q.id - 1) : Taken(j)'
    BY <1>1, <1>2, <1>3, <1>5 DEF FollowInv, TakenInOrder
  <2>3. \A q \in ingest' : q.status = inst'
    BY <1>1 DEF FollowInv, TakenInOrder
  <2> QED
    BY <1>1, <1>3, <2>1, <2>2, <2>3 DEF TakenInOrder
<1>7. inst = "disconnected" => Taken(Len(events))'
  BY <1>1, <1>2, <1>5 DEF FollowInv, Taken
<1> QED
  BY <1>1, <1>3, <1>4, <1>6, <1>7 DEF FollowInv

\* In order, a delivery that is new to the inbox says what holds, unless there
\* is a later one that will.
LEMMA CommitFollows ==
    ASSUME GitAssumption, GitInv, FollowInv, NEW q \in ingest, ~Known(q.id), Commit(q)
    PROVE  FollowInv'
<1> DEFINE e == events[q.id]
           n == q.id
<1>1. /\ ingest = {q} /\ install = "none" /\ link = "none" /\ q.status = inst /\ inst # "none"
      /\ n \in Sent /\ n \in DeliveryIds /\ ~Taken(n) /\ \A j \in 1..(n - 1) : Taken(j)
  BY SentIds DEF FollowInv, OneRequest, TakenInOrder, Taken, Known, GitInv, HistoryInv
<1>2. /\ inst' = Installation(e, inst) /\ conn' = Connections(e) /\ ingest' = {}
      /\ UNCHANGED <<provider, selected, events, ignored, install, link>>
      /\ inbox' = [inbox EXCEPT ![n] = IF e.type \in Lifecycle THEN "processed" ELSE "pending"]
  BY <1>1 DEF Commit, atProvider
<1>3. Sent = 1..Len(events) /\ Sent \subseteq DeliveryIds /\ Len(events) \in Nat
  BY SentIds DEF GitInv, HistoryInv
<1>4. inbox \in [DeliveryIds -> {"none", "pending", "processed", "failed"}]
  BY DEF GitInv, GitTypeOK
<1> HIDE DEF e, n
<1>5. \A i \in DeliveryIds : Taken(i)' <=> Taken(i) \/ i = n
  BY <1>1, <1>2, <1>4 DEF Taken
<1>6. Sent' = Sent /\ \A r : Available(r)' <=> Available(r)
  BY <1>2 DEF Sent, Available
\* What is still to come are the deliveries after this one.
<1>7. \A i \in Sent : i > n <=> ~Taken(i)'
  <2>1. SUFFICES ASSUME NEW i \in Sent PROVE i > n <=> ~Taken(i)'
    OBVIOUS
  <2>2. i > n => ~Taken(i)
    BY <1>1, <1>3 DEF FollowInv, TakenInOrder
  <2>3. i < n => Taken(i)
    BY <1>1, <1>3
  <2> QED
    BY <2>2, <2>3, <1>1, <1>3, <1>5
<1>8. e = events[n] /\ e.type \in Lifecycle \cup Deployable /\ e.repo \in Repos \cup {"none"}
  BY <1>1 DEF e, n, GitInv, GitTypeOK, Sent
<1>9. inst' = provider' \/ StatusToCome'
  <2>1. CASE ~TellsStatus(e)
    <3>1. inst' = inst
      BY <1>2, <2>1 DEF Installation, TellsStatus
    <3>2. StatusToCome => StatusToCome'
      BY <1>2, <1>3, <1>5, <1>6, <1>8, <2>1 DEF StatusToCome
    <3> QED
      BY <1>1, <1>2, <3>1, <3>2 DEF FollowInv
  <2>2. CASE TellsStatus(e) /\ \E j \in Sent : j > n /\ TellsStatus(events[j])
    BY <2>2, <1>2, <1>6, <1>7 DEF StatusToCome
  <2>3. CASE TellsStatus(e) /\ ~\E j \in Sent : j > n /\ TellsStatus(events[j])
    <3>1. provider = StatusOf(e)
      BY <2>3, <1>1, <1>8 DEF GitInv, HistoryInv
    <3>2. inst' = StatusOf(e)
      BY <1>2, <2>3 DEF Installation, Updated, StatusOf, TellsStatus
    <3> QED
      BY <1>2, <3>1, <3>2
  <2> QED
    BY <2>1, <2>2, <2>3
<1>10. conn # NoConnection => conn.repo \in Repos
  BY DEF GitInv, GitTypeOK
<1>11. /\ conn = NoConnection => conn' = NoConnection
       /\ conn # NoConnection => conn' # NoConnection /\ conn'.repo = conn.repo
  <2>1. e.type \in {"added", "removed", "gone"} => e.repo \in Repos
    BY <1>1, <1>8 DEF GitInv, HistoryInv
  <2>2. conn = NoConnection => conn' = NoConnection
    BY <1>2, <2>1 DEF Connections, NoConnection, GitAssumption
  <2>3. conn # NoConnection => conn' # NoConnection /\ conn'.repo = conn.repo
    <3>1. SUFFICES ASSUME conn # NoConnection PROVE conn' # NoConnection /\ conn'.repo = conn.repo
      OBVIOUS
    <3>2. conn \in [repo : Repos, status : {"active", "removed", "disconnected"}]
      BY <3>1 DEF GitInv, GitTypeOK
    <3>3. conn'.repo = conn.repo
      BY <1>2, <3>2 DEF Connections
    <3> QED
      BY <3>2, <3>3 DEF NoConnection, GitAssumption
  <2> QED
    BY <2>2, <2>3
<1>12. ASSUME NEW r \in Repos, conn # NoConnection, conn.repo = r
       PROVE  (conn'.status = "active" <=> Available(r)) \/ ToCome(r)'
  <2>1. conn \in [repo : Repos, status : {"active", "removed", "disconnected"}] /\ r # "none"
    BY <1>12 DEF GitInv, GitTypeOK, GitAssumption
  <2>2. CASE ~TellsOf(e, r)
    <3>1. conn' = conn
      BY <1>2, <1>12, <2>2 DEF Connections, TellsOf
    <3>2. ToCome(r) => ToCome(r)'
      BY <1>2, <1>3, <1>5, <1>6, <1>8, <2>2 DEF ToCome
    <3> QED
      BY <1>12, <3>1, <3>2 DEF FollowInv
  <2>3. CASE TellsOf(e, r) /\ \E j \in Sent : j > n /\ TellsOf(events[j], r)
    BY <2>3, <1>2, <1>6, <1>7 DEF ToCome
  <2>4. CASE TellsOf(e, r) /\ ~\E j \in Sent : j > n /\ TellsOf(events[j], r)
    <3>1. Available(r) <=> e.type = "added"
      BY <2>4, <1>1, <1>8 DEF GitInv, HistoryInv
    <3>2. conn'.status = "active" <=> e.type = "added"
      BY <1>2, <1>12, <2>1, <2>4 DEF Connections, TellsOf
    <3> QED
      BY <3>1, <3>2
  <2> QED
    BY <2>2, <2>3, <2>4
<1>13. conn' # NoConnection => (conn'.status = "active" <=> Available(conn.repo)') \/ ToCome(conn.repo)'
  <2>1. SUFFICES ASSUME conn' # NoConnection
                 PROVE  (conn'.status = "active" <=> Available(conn.repo)') \/ ToCome(conn.repo)'
    OBVIOUS
  <2>2. PICK r \in Repos : conn # NoConnection /\ conn.repo = r /\ conn'.repo = r
    BY <2>1, <1>10, <1>11
  <2>3. (conn'.status = "active" <=> Available(r)') \/ ToCome(r)'
    BY <2>2, <1>6, <1>12
  <2> QED
    BY <2>2, <2>3 DEF Available, ToCome
\* The installation is disconnected with the last delivery there is.
<1>14. inst' = "disconnected" =>
         /\ events # <<>> /\ Taken(Len(events))' /\ events[Len(events)].type = "disconnected"
         /\ conn'.status # "active"
  <2>1. SUFFICES ASSUME inst' = "disconnected"
                 PROVE  /\ events # <<>> /\ Taken(Len(events))'
                        /\ events[Len(events)].type = "disconnected" /\ conn'.status # "active"
    OBVIOUS
  <2>2. inst # "disconnected"
    <3>1. SUFFICES ASSUME inst = "disconnected" PROVE FALSE
      OBVIOUS
    <3>2. events # <<>> /\ Taken(Len(events))
      BY <3>1 DEF FollowInv
    <3>3. Len(events) \in Sent /\ n <= Len(events)
      BY <1>1, <1>3, <3>2 DEF GitInv, HistoryInv
    <3> QED
      BY <1>1, <1>3, <3>2, <3>3 DEF FollowInv, TakenInOrder
  <2>3. e.type = "disconnected"
    BY <1>2, <2>1, <2>2 DEF Installation, Updated
  <2>4. n = Len(events) /\ events[n].type = "disconnected"
    BY <1>1, <1>8, <2>3 DEF GitInv, HistoryInv
  <2>5. events # <<>>
    BY <1>1, <1>3, <2>4
  <2>6. Taken(Len(events))'
    <3>1. Taken(n)'
      BY <1>1, <1>5
    <3> QED
      BY <1>2, <2>4, <3>1 DEF Taken
  <2>7. conn'.status # "active"
    BY <1>2, <2>3 DEF Connections, NoConnection, GitInv, GitTypeOK
  <2> QED
    BY <2>4, <2>5, <2>6, <2>7
<1>15. inst' # "none"
  BY <1>1, <1>2 DEF Installation, Updated
<1>16. OneRequest' /\ TakenInOrder'
  <2>1. \A i \in Sent : Taken(i)' => \A j \in 1..(i - 1) : Taken(j)'
    BY <1>1, <1>3, <1>7
  <2> QED
    BY <1>1, <1>2, <1>6, <2>1 DEF OneRequest, TakenInOrder
<1> QED
  BY <1>1, <1>2, <1>9, <1>13, <1>14, <1>15, <1>16 DEF FollowInv

\* In order, a user connects something when nothing else is going on.
LEMMA ConnectFollows ==
    ASSUME GitAssumption, GitInv, FollowInv, InOrder,
           InstallAsk \/ InstallSave \/ LinkSave \/ \E r \in Repos : LinkAsk(r)
    PROVE  FollowInv'
<1>1. UNCHANGED <<provider, selected, events, ignored, inbox, ingest>>
  BY DEF InstallAsk, InstallSave, LinkSave, LinkAsk, atProvider, rows
<1>2. /\ Sent' = Sent /\ \A i : Taken(i)' <=> Taken(i)
      /\ StatusToCome' <=> StatusToCome
      /\ \A r : (ToCome(r)' <=> ToCome(r)) /\ (Available(r)' <=> Available(r))
  BY <1>1 DEF Sent, Taken, StatusToCome, ToCome, Available
<1>3. /\ conn' = conn => (ToCome(conn.repo)' <=> ToCome(conn.repo))
                          /\ (Available(conn.repo)' <=> Available(conn.repo))
      /\ link' = link => (ToCome(link)' <=> ToCome(link)) /\ (Available(link)' <=> Available(link))
      /\ Taken(Len(events))' <=> Taken(Len(events))
  BY <1>1 DEF Sent, Taken, ToCome, Available
<1>4. TakenInOrder' <=> \/ inst' = inst /\ TakenInOrder
                        \/ inst' # inst /\ TakenInOrder'
  BY <1>1, <1>2 DEF TakenInOrder
<1>5. CASE InstallAsk
  <2>1. /\ ingest = {} /\ install = "none" /\ link = "none" /\ install' = provider
        /\ UNCHANGED <<inst, conn, link>>
    BY <1>5 DEF InstallAsk, Begins, Quiet, rows
  <2>2. TakenInOrder'
    BY <1>4, <2>1 DEF FollowInv
  <2> QED
    BY <1>1, <1>2, <1>3, <2>1, <2>2 DEF FollowInv, OneRequest
<1>6. CASE InstallSave
  <2>1. install # "none" /\ inst' = install /\ install' = "none" /\ UNCHANGED <<conn, link>>
    BY <1>6 DEF InstallSave
  <2>2. ingest = {} /\ link = "none" /\ install # "disconnected"
    BY <2>1 DEF FollowInv, OneRequest, GitInv, HistoryInv
  <2>3. TakenInOrder'
    BY <1>1, <1>2, <2>2 DEF FollowInv, TakenInOrder
  <2> QED
    BY <1>1, <1>2, <1>3, <2>1, <2>2, <2>3 DEF FollowInv, OneRequest
<1>7. CASE LinkSave
  <2>1. /\ link # "none" /\ conn' = [repo |-> link, status |-> "active"] /\ link' = "none"
        /\ UNCHANGED <<inst, install>>
    BY <1>7 DEF LinkSave
  <2>2. ingest = {} /\ install = "none" /\ inst \notin {"none", "disconnected"}
    BY <2>1 DEF FollowInv, OneRequest
  <2>3. TakenInOrder' /\ OneRequest'
    BY <1>1, <1>4, <2>1, <2>2 DEF FollowInv, OneRequest
  <2>4. Available(link) \/ ToCome(link)
    BY <2>1 DEF FollowInv
  <2>5. conn'.repo = link /\ conn'.status = "active"
    BY <2>1
  <2>6. Available(conn.repo)' \/ ToCome(conn.repo)'
    BY <1>1, <1>2, <2>4, <2>5 DEF Available, ToCome
  <2> QED
    BY <1>1, <1>2, <2>1, <2>2, <2>3, <2>5, <2>6 DEF FollowInv
<1>8. ASSUME NEW r \in Repos, LinkAsk(r)
      PROVE  FollowInv'
  <2>1. /\ ingest = {} /\ install = "none" /\ link = "none" /\ inst # "none" /\ link' = r
        /\ provider = "active" /\ r \in selected /\ UNCHANGED <<inst, conn, install>>
    BY <1>8 DEF LinkAsk, Begins, Quiet, rows, Opens
  <2>2. TakenInOrder' /\ OneRequest'
    BY <1>1, <1>4, <2>1 DEF FollowInv, OneRequest
  <2>3. Available(link)'
    BY <1>1, <2>1 DEF Available
  <2>4. inst # "disconnected"
    <3>1. SUFFICES ASSUME inst = "disconnected" PROVE FALSE
      OBVIOUS
    <3>2. events # <<>> /\ events[Len(events)].type = "disconnected"
      BY <3>1 DEF FollowInv
    <3>3. Len(events) \in Sent
      BY <3>2, SentIds DEF GitInv, HistoryInv
    <3> QED
      BY <2>1, <3>2, <3>3 DEF GitInv, HistoryInv
  <2> QED
    BY <1>1, <1>2, <1>3, <2>1, <2>2, <2>3, <2>4 DEF FollowInv
<1> QED
  BY <1>5, <1>6, <1>7, <1>8

\* FollowInv is inductive when deliveries come in order.
LEMMA FollowNext == GitAssumption /\ InOrder /\ GitInv /\ FollowInv /\ [GitNext]_gitVars => FollowInv'
<1> SUFFICES ASSUME GitAssumption, InOrder, GitInv, FollowInv, [GitNext]_gitVars PROVE FollowInv'
  OBVIOUS
<1>1. CASE \/ StatusChanges
           \/ \E r \in Repos : \/ SelectionChanges(r)
                               \/ \E type \in Deployable : Push(r, type)
  BY <1>1, ProviderFollows
<1>2. CASE \E i \in DeliveryIds : Load(i)
  BY <1>2, LoadFollows
<1>3. ASSUME NEW q \in ingest, Commit(q) \/ Dies(q) PROVE FollowInv'
  BY <1>3, CommitFollows, OtherFollows
<1>4. CASE \E i \in DeliveryIds : Consume(i)
  BY <1>4, OtherFollows
<1>5. CASE InstallAsk \/ InstallSave \/ LinkSave \/ \E r \in Repos : LinkAsk(r)
  BY <1>5, ConnectFollows
<1>6. CASE UNCHANGED gitVars
  BY <1>6 DEF gitVars, FollowInv, OneRequest, TakenInOrder, StatusToCome, ToCome, Taken, Sent,
     Available
<1> QED
  BY <1>1, <1>2, <1>3, <1>4, <1>5, <1>6 DEF GitNext

\* In order, what Rails knows of an installation is what holds, unless there is
\* a delivery to come that says so.
THEOREM DeliveriesAreFollowed == GitAssumption /\ InOrder => (GitSpec => []FollowInv)
<1> SUFFICES ASSUME GitAssumption, InOrder PROVE GitSpec => []FollowInv
  OBVIOUS
<1>1. GitInit => FollowInv
  BY FollowInit
<1>2. GitInv /\ FollowInv /\ [GitNext]_gitVars => FollowInv'
  BY FollowNext
<1>3. GitSpec => []GitInv
  BY GitInvariant
<1> QED
  BY <1>1, <1>2, <1>3, PTL DEF GitSpec

\* When every delivery has been taken, in order, and nobody is connecting
\* anything, the installation has the status that the provider gives it, and
\* the connection of the service is active if its repository can be read.
THEOREM StatusFollows == GitAssumption /\ InOrder => (GitSpec => []StatusFollowsProvider)
<1> SUFFICES ASSUME GitAssumption, InOrder PROVE GitSpec => []StatusFollowsProvider
  OBVIOUS
<1>1. GitInv /\ FollowInv => StatusFollowsProvider
  <2> SUFFICES ASSUME GitInv, FollowInv, AllTaken, inst # "none"
               PROVE  /\ inst = provider
                      /\ conn # NoConnection =>
                           (conn.status = "active" <=> provider # "disconnected" /\ conn.repo \in selected)
    BY DEF StatusFollowsProvider
  <2>1. \A i \in Sent : Taken(i)
    BY DEF AllTaken, Taken
  <2> QED
    BY <2>1 DEF FollowInv, StatusToCome, ToCome, Available
<1>2. GitSpec => []GitInv
  BY GitInvariant
<1>3. GitSpec => []FollowInv
  BY DeliveriesAreFollowed
<1> QED
  BY <1>1, <1>2, <1>3, PTL

\* However deliveries come the rows keep their shape, and in order Rails knows
\* what the provider says once it has taken all.
THEOREM DeliveriesDoFollow ==
    GitAssumption => (GitSpec => [](GitTypeOK /\ DeliveriesFollow))
<1> SUFFICES ASSUME GitAssumption PROVE GitSpec => [](GitTypeOK /\ DeliveriesFollow)
  OBVIOUS
<1>1. GitInv => GitTypeOK
  BY DEF GitInv
<1>2. CASE InOrder
  <2>1. GitSpec => []StatusFollowsProvider
    BY <1>2, StatusFollows
  <2> QED
    BY <1>1, <2>1, GitInvariant, PTL DEF DeliveriesFollow
<1>3. CASE ~InOrder
  <2>1. GitInv => GitTypeOK /\ DeliveriesFollow
    BY <1>1, <1>3 DEF DeliveriesFollow
  <2> QED
    BY <2>1, GitInvariant, PTL
<1> QED
  BY <1>2, <1>3

\* In order, nothing is deployed for an installation that Rails knows to be
\* disconnected.
THEOREM DisconnectedStaysClosed ==
    GitAssumption /\ InOrder => (GitSpec => [][DisconnectedFailsClosed]_gitVars)
<1> SUFFICES ASSUME GitAssumption, InOrder PROVE GitSpec => [][DisconnectedFailsClosed]_gitVars
  OBVIOUS
<1>1. GitInv /\ FollowInv /\ [GitNext]_gitVars => [DisconnectedFailsClosed]_gitVars
  <2> SUFFICES ASSUME GitInv, FollowInv, GitNext, inst = "disconnected" PROVE made' = made
    BY DEF DisconnectedFailsClosed
  <2>1. conn.status # "active"
    BY DEF FollowInv
  <2>2. ASSUME NEW i \in DeliveryIds, Consume(i) PROVE made' = made
    <3>1. ~Connected(events[i].repo)
      BY <2>1 DEF Connected
    <3> QED
      BY <2>2, <3>1 DEF Consume
  <2>3. ASSUME NEW q \in ingest, Commit(q) PROVE made' = made
    BY <2>3 DEF Commit, rows
  <2> QED
    BY <2>2, <2>3
       DEF GitNext, StatusChanges, SelectionChanges, Push, Emit, LinkAsk, Load, Dies,
           InstallAsk, InstallSave, LinkSave, rows
<1>2. GitSpec => []GitInv
  BY GitInvariant
<1>3. GitSpec => []FollowInv
  BY DeliveriesAreFollowed
<1> QED
  BY <1>1, <1>2, <1>3, PTL DEF GitSpec

\* Together: what was settled is not done again.
THEOREM NothingDoneIsRedone == GitAssumption => (GitSpec => [][NothingIsRedone]_gitVars)
<1> SUFFICES ASSUME GitAssumption PROVE GitSpec => [][NothingIsRedone]_gitVars
  OBVIOUS
<1>1. CASE InOrder
  <2>1. [AppliedOnce]_gitVars /\ [OutcomeStands]_gitVars /\ [DisconnectedFailsClosed]_gitVars
          => [NothingIsRedone]_gitVars
    BY DEF NothingIsRedone
  <2>2. GitSpec => [][DisconnectedFailsClosed]_gitVars
    BY <1>1, DisconnectedStaysClosed
  <2> QED
    BY <2>1, <2>2, DeliveriesAppliedOnce, OutcomesOfMessagesStand, PTL
<1>2. CASE ~InOrder
  <2>1. [AppliedOnce]_gitVars /\ [OutcomeStands]_gitVars => [NothingIsRedone]_gitVars
    BY <1>2 DEF NothingIsRedone
  <2> QED
    BY <2>1, DeliveriesAppliedOnce, OutcomesOfMessagesStand, PTL
<1> QED
  BY <1>1, <1>2

\* WebhooksFollow: Rails makes of webhooks what the provider meant by them.
THEOREM WebhooksDoFollow == GitAssumption => (GitSpec => WebhooksFollow)
<1> QED BY DeliveriesDoFollow, NothingDoneIsRedone, PTL DEF WebhooksFollow
=============================================================================
