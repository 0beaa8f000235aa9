------------------------------- MODULE Outbox -------------------------------
(***************************************************************************)
(* The control plane's transactional outbox and the workers that drain it. *)
(* Every row of the table outbox_events is delivered at least once: a      *)
(* worker claims the oldest eligible row under a lease, works on it        *)
(* outside any transaction, and finalizes it with the token of its claim.  *)
(*                                                                         *)
(* Deadlines are kept as the time left until them (lease, wait), so that   *)
(* "locked_until <= now" is lease = 0 and "available_at <= now" is         *)
(* wait = 0; Tick lets one unit of time pass for every row at once.        *)
(***************************************************************************)
EXTENDS Naturals

CONSTANTS
    Events,         \* the rows that may be published (one per idempotency key)
    Workers,        \* the processes that poll: local provider, bridge, controller
    Handles,        \* Handles[w]: the rows whose event_type w asks for
    Lease,          \* LEASE_DURATION of the claim endpoints
    BaseDelay,      \* the 5 seconds of retry_delay
    MaxRetryDelay,  \* MAX_RETRY_DELAY
    MaxAttempts,    \* MAX_ATTEMPTS
    MaxFaults       \* bound on lost replies, abandoned claims and slow workers

ASSUME OutboxAssumption ==
    /\ Handles \in [Workers -> SUBSET Events]
    /\ Lease \in Nat \ {0}
    /\ BaseDelay \in Nat
    /\ MaxRetryDelay \in Nat
    /\ MaxAttempts \in Nat \ {0}
    /\ MaxFaults \in Nat

VARIABLES
    row,        \* outbox_events
    wk,         \* what each worker knows of its current command
    serial,     \* number of UUIDs handed out: row ids, request ids, claim tokens
    faults,     \* how much of MaxFaults is spent
    processed,  \* rows whose work some worker has carried out
    acked       \* acked[e]: outcomes the server has confirmed for e

vars == <<row, wk, serial, faults, processed, acked>>

Statuses == {"pending", "delivering", "published", "dead"}
Outcomes == {"published", "retry", "rejected"}

\* status "none" is a row that has not been inserted; 0 is a NULL uuid.
Row == [status : Statuses \cup {"none"}, created : Nat, attempts : Nat,
        token : Nat, request : Nat, lease : Nat, wait : Nat]

NoRow == [status |-> "none", created |-> 0, attempts |-> 0,
          token |-> 0, request |-> 0, lease |-> 0, wait |-> 0]

\* request is the last claim request whose reply the worker is missing.
Worker == [pc : {"idle", "working", "finalize"}, request : Nat,
           ev : Events \cup {"none"}, token : Nat, outcome : Outcomes \cup {"none"}]

Idle(r) == [pc |-> "idle", request |-> r, ev |-> "none", token |-> 0,
            outcome |-> "none"]

TypeOK ==
    /\ row \in [Events -> Row]
    /\ wk \in [Workers -> Worker]
    /\ serial \in Nat
    /\ faults \in Nat
    /\ processed \in SUBSET Events
    /\ acked \in [Events -> SUBSET Outcomes]

Init ==
    /\ row = [e \in Events |-> NoRow]
    /\ wk = [w \in Workers |-> Idle(0)]
    /\ serial = 0
    /\ faults = 0
    /\ processed = {}
    /\ acked = [e \in Events |-> {}]

Terminal(e) == row[e].status \in {"published", "dead"}
Busy(w) == wk[w].pc \in {"working", "finalize"}

\* The worker's claim is the one the row records.
Holds(w, e) == /\ Busy(w)
               /\ wk[w].ev = e
               /\ row[e].status = "delivering"
               /\ wk[w].token = row[e].token

Fault == faults < MaxFaults /\ faults' = faults + 1
-----------------------------------------------------------------------------
\* The columns OutboxEvents::Publish inserts, under a fresh uuid_v7.
NewRow(id) == [status |-> "pending", created |-> id, attempts |-> 0,
               token |-> 0, request |-> 0, lease |-> 0, wait |-> 0]

\* OutboxEvents::Publish of a new key.  Publishing a key again changes nothing.
Publish(e) ==
    /\ row[e].status = "none"
    /\ row' = [row EXCEPT ![e] = NewRow(serial + 1)]
    /\ serial' = serial + 1
    /\ UNCHANGED <<wk, faults, processed, acked>>

\* Mutant: an expired lease is never claimed again.
EligibleOnlyPending(w) ==
    {e \in Handles[w] : row[e].status = "pending" /\ row[e].wait = 0}

\* Mutant: any row without a running lease is taken, whatever its status.
EligibleAnyStatus(w) ==
    {e \in Handles[w] : row[e].status # "none" /\ row[e].lease = 0 /\ row[e].wait = 0}

Eligible(w) ==
    {e \in Handles[w] : \/ row[e].status = "pending" /\ row[e].wait = 0
                        \/ row[e].status = "delivering" /\ row[e].lease = 0}

\* A finalization in flight may hold the lock of its row, which
\* FOR UPDATE SKIP LOCKED then passes over.
MaybeLocked(e) == \E w \in Workers : wk[w].pc = "finalize" /\ wk[w].ev = e

Selectable(w) ==
    {e \in Eligible(w) :
        \A f \in Eligible(w) : row[f].created < row[e].created => MaybeLocked(f)}

RequestedBy(r) == {e \in Events : r # 0 /\ row[e].request = r}

\* Mutant: a reclaim keeps the token of the expired claim.
ClaimedRowKeepsToken(old, r, t) ==
    [status |-> "delivering", created |-> old.created, attempts |-> old.attempts + 1,
     token |-> IF old.token = 0 THEN t ELSE old.token, request |-> r,
     lease |-> Lease, wait |-> 0]

\* The row after a claim by request r: a new token, a new lease.
ClaimedRow(old, r, t) ==
    [status |-> "delivering", created |-> old.created, attempts |-> old.attempts + 1,
     token |-> t, request |-> r, lease |-> Lease, wait |-> 0]

\* OutboxEvents::Claim.call with request id r, its effect on the table.  A
\* request id that is still on another row makes the update violate the unique
\* index, and one on a settled row finds no command: nothing changes then.
ClaimRow(w, r, e) ==
    /\ e \in Selectable(w)
    /\ RequestedBy(r) \subseteq {e}
    /\ \A f \in RequestedBy(r) : row[f].status = "delivering" /\ row[f].lease = 0
    /\ row' = [row EXCEPT ![e] = ClaimedRow(@, r, serial + 1)]
    /\ serial' = serial + 1

\* The request id has an active claim: the same token is returned.
ReplayClaim(r, e) ==
    /\ e \in RequestedBy(r)
    /\ row[e].status = "delivering"
    /\ row[e].lease > 0
    /\ UNCHANGED <<row, serial>>

Receive(w, e, t) ==
    wk' = [wk EXCEPT ![w] = [pc |-> "working", request |-> 0, ev |-> e,
                             token |-> t, outcome |-> "none"]]

\* A fresh claim request whose reply arrives.
Claim(w) ==
    /\ wk[w].pc = "idle"
    /\ \E e \in Events :
          /\ ClaimRow(w, serial + 1, e)
          /\ Receive(w, e, serial + 1)
    /\ UNCHANGED <<faults, processed, acked>>

\* A fresh claim request whose reply is lost: the claim stands on the row.
ClaimReplyLost(w) ==
    /\ wk[w].pc = "idle"
    /\ Fault
    /\ \E e \in Events : ClaimRow(w, serial + 1, e)
    /\ wk' = [wk EXCEPT ![w] = Idle(serial + 1)]
    /\ UNCHANGED <<processed, acked>>

\* The request whose reply was lost arrives again: it is replayed, starts a
\* new claim, or finds its event settled and returns no command.
ClaimAgain(w) ==
    /\ wk[w].pc = "idle"
    /\ wk[w].request # 0
    /\ \/ \E e \in Events : /\ ReplayClaim(wk[w].request, e)
                            /\ Receive(w, e, row[e].token)
       \/ \E e \in Events : /\ ClaimRow(w, wk[w].request, e)
                            /\ Receive(w, e, serial + 1)
       \/ /\ \E e \in RequestedBy(wk[w].request) : row[e].status # "delivering"
          /\ wk' = [wk EXCEPT ![w] = Idle(0)]
          /\ UNCHANGED <<row, serial>>
    /\ UNCHANGED <<faults, processed, acked>>

\* The worker carries the command out and decides its outcome.
Work(w, o) ==
    /\ wk[w].pc = "working"
    /\ wk' = [wk EXCEPT ![w] = [@ EXCEPT !.pc = "finalize", !.outcome = o]]
    /\ processed' = IF o = "published" THEN processed \cup {wk[w].ev} ELSE processed
    /\ UNCHANGED <<row, serial, faults, acked>>
-----------------------------------------------------------------------------
\* The delay doubles with every attempt up to MAX_RETRY_DELAY.
retry_delay(n) ==
    LET d == BaseDelay * (2 ^ (n - 1))
    IN  IF d \in 0..MaxRetryDelay THEN d ELSE MaxRetryDelay

\* Mutant: the claim of a settled row is not cleared.
SettledKeepsClaim(r, s) == [r EXCEPT !.status = s]

Settled(r, s) == [r EXCEPT !.status = s, !.token = 0, !.lease = 0]

\* Mutant: one attempt too many goes back to pending.
FinalizedRowOffByOne(r, o) ==
    IF o = "published" THEN Settled(r, "published")
    ELSE IF o = "retry" /\ r.attempts <= MaxAttempts
         THEN [Settled(r, "pending") EXCEPT !.wait = retry_delay(r.attempts)]
         ELSE Settled(r, "dead")

\* Mutant: an exhausted retry is recorded as delivered.
FinalizedRowNeverDead(r, o) ==
    IF o = "retry" /\ r.attempts < MaxAttempts
    THEN [Settled(r, "pending") EXCEPT !.wait = retry_delay(r.attempts)]
    ELSE Settled(r, "published")

\* The row after Finalize by a current claim.
FinalizedRow(r, o) ==
    IF o = "published" THEN Settled(r, "published")
    ELSE IF o = "retry" /\ r.attempts < MaxAttempts
         THEN [Settled(r, "pending") EXCEPT !.wait = retry_delay(r.attempts)]
         ELSE Settled(r, "dead")

\* Mutant: a settled row confirms every outcome.
CompatibleAlways(s, o) == TRUE

\* replay_terminal: a settled row confirms only the outcome it settled on.
Compatible(s, o) == (s = "published") <=> (o = "published")

CurrentClaim(e, t) == row[e].status = "delivering" /\ row[e].token = t

Confirm(e, o) == acked' = [acked EXCEPT ![e] = @ \cup {o}]

\* OutboxEvents::Finalize.call: the current claim settles the row, a settled
\* row confirms a compatible outcome, everything else raises StaleClaim or
\* OutcomeConflict and changes nothing.
FinalizeRow(e, t, o) ==
    \/ /\ Terminal(e)
       /\ Compatible(row[e].status, o)
       /\ Confirm(e, o)
       /\ UNCHANGED row
    \/ /\ ~Terminal(e)
       /\ CurrentClaim(e, t)
       /\ row' = [row EXCEPT ![e] = FinalizedRow(@, o)]
       /\ Confirm(e, o)
    \/ /\ \/ Terminal(e) /\ ~Compatible(row[e].status, o)
          \/ ~Terminal(e) /\ ~CurrentClaim(e, t)
       /\ UNCHANGED <<row, acked>>

\* The reply arrives, whatever it says: the worker polls again.
Finalize(w) ==
    /\ wk[w].pc = "finalize"
    /\ FinalizeRow(wk[w].ev, wk[w].token, wk[w].outcome)
    /\ wk' = [wk EXCEPT ![w] = Idle(0)]
    /\ UNCHANGED <<serial, faults, processed>>

\* The reply is lost and the request arrives a second time later on.
FinalizeReplyLost(w) ==
    /\ wk[w].pc = "finalize"
    /\ Fault
    /\ FinalizeRow(wk[w].ev, wk[w].token, wk[w].outcome)
    /\ UNCHANGED <<wk, serial, processed>>

\* A crash, or an error the polling loop only logs: the claim is forgotten.
Abandon(w) ==
    /\ Busy(w)
    /\ Fault
    /\ wk' = [wk EXCEPT ![w] = Idle(0)]
    /\ UNCHANGED <<row, serial, processed, acked>>

\* Mutant: the time left runs below zero.
DecUnchecked(n) == n - 1

Dec(n) == IF n > 0 THEN n - 1 ELSE 0

\* A worker still busy when its lease runs out is one of the faults.
Tick ==
    /\ \E e \in Events : row[e].lease > 0 \/ row[e].wait > 0
    /\ IF \E e \in Events, w \in Workers : Holds(w, e) /\ row[e].lease = 1
       THEN Fault ELSE UNCHANGED faults
    /\ row' = [e \in Events |-> [row[e] EXCEPT !.lease = Dec(@), !.wait = Dec(@)]]
    /\ UNCHANGED <<wk, serial, processed, acked>>

WorkerNext(w) ==
    \/ Claim(w) \/ ClaimReplyLost(w) \/ ClaimAgain(w)
    \/ \E o \in Outcomes : Work(w, o)
    \/ Finalize(w) \/ FinalizeReplyLost(w) \/ Abandon(w)

Next == \/ \E e \in Events : Publish(e)
        \/ \E w \in Workers : WorkerNext(w)
        \/ Tick

Spec == Init /\ [][Next]_vars

\* The pollers run for ever, a worker finishes what it holds, time passes.
Fairness ==
    /\ WF_vars(Tick)
    /\ \A w \in Workers : /\ WF_vars(Claim(w))
                          /\ WF_vars(\E o \in Outcomes : Work(w, o))
                          /\ WF_vars(Finalize(w))

-----------------------------------------------------------------------------
\* The columns of a row agree (delivery_state_is_consistent and the check
\* constraints of outbox_events): a row has a claim token exactly while it is
\* delivering, only a delivering row has a lease, a request id is on at most
\* one row, and no two rows share a claim token.
ClaimConsistent ==
    \A e \in Events :
        /\ (row[e].token # 0) <=> (row[e].status = "delivering")
        /\ row[e].lease > 0 => row[e].status = "delivering"
        /\ \A f \in Events \ {e} :
              /\ row[e].request # 0 => row[f].request # row[e].request
              /\ row[e].token # 0 => row[f].token # row[e].token

\* Lease exclusion: when a lease has run out and the row is claimed again,
\* the earlier holder is shut out, so never do two workers hold claims with
\* which Finalize would settle the same row.
OneHolder ==
    \A e \in Events : \A v, w \in Workers : Holds(v, e) /\ Holds(w, e) => v = w

\* Finalize sends a row back to pending only while attempts are left: no
\* sequence of claims, expiries and retries makes a row pending whose
\* attempt_count has reached MAX_ATTEMPTS.
RetryBudget ==
    \A e \in Events : row[e].status = "pending" => row[e].attempts < MaxAttempts

\* What the server told any worker stays true: once some holder was told that
\* the row is published (or rejected), it is published (or dead) for good,
\* also when another holder of the same row reports the opposite.
AckedOutcomeStands ==
    \A e \in Events : /\ "published" \in acked[e] => row[e].status = "published"
                      /\ "rejected" \in acked[e] => row[e].status = "dead"

\* protect_delivery_transition: published and dead rows never change again,
\* and a row is never deleted or inserted twice.
TerminalImmutable ==
    [][\A e \in Events : /\ Terminal(e) => row'[e] = row[e]
                         /\ row[e].status # "none" => row'[e].created = row[e].created
      ]_vars

\* The parts of the inductive invariant behind OneHolder.  Identifiers on rows
\* and at workers have been handed out already (they are UUIDs), and a row waits
\* or is leased only in the status that goes with it.
IssuedIds ==
    /\ \A e \in Events : /\ row[e].token <= serial
                         /\ row[e].request <= serial
                         /\ row[e].status \in {"none", "pending"} => row[e].lease = 0
                         /\ row[e].status # "pending" => row[e].wait = 0
    /\ \A w \in Workers : wk[w].token <= serial /\ wk[w].request <= serial

\* A worker with a claim works on an inserted row; an idle one remembers at
\* most a request whose reply it misses.
WorkerShape ==
    \A w \in Workers :
        /\ Busy(w) => /\ wk[w].ev \in Events
                      /\ wk[w].token # 0
                      /\ wk[w].request = 0
                      /\ row[wk[w].ev].status # "none"
        /\ wk[w].pc = "finalize" => wk[w].outcome \in Outcomes
        /\ wk[w].pc = "finalize" /\ wk[w].outcome = "published" => wk[w].ev \in processed

\* No two workers have the same token or miss the reply to the same request,
\* and a claim whose reply is missing is in nobody's hands.
TokensApart ==
    /\ \A v, w \in Workers : v # w /\ Busy(v) /\ Busy(w) => wk[v].token # wk[w].token
    /\ \A v, w \in Workers : v # w /\ wk[v].request # 0 => wk[v].request # wk[w].request
    /\ \A v, w \in Workers : \A e \in Events :
          /\ wk[w].request # 0
          /\ row[e].request = wk[w].request
          /\ row[e].status = "delivering"
          /\ Busy(v)
          => wk[v].token # row[e].token

\* The inductive invariant of the outbox: the safety properties above hold in
\* every state because these facts about identifiers survive every step.
OutboxInv ==
    /\ TypeOK
    /\ ClaimConsistent
    /\ IssuedIds
    /\ WorkerShape
    /\ TokensApart
    /\ RetryBudget
    /\ AckedOutcomeStands

\* Whatever is claimed, retried, replayed or confirmed twice, the columns of a
\* row agree with each other and with what its holders were told.
RowsConsistent == TypeOK /\ ClaimConsistent /\ RetryBudget /\ AckedOutcomeStands

\* The promise of the outbox, for producers who do not look at leases: a row is
\* open until it is published or dead.
ContractState == [e \in Events |-> IF row[e].status \in {"pending", "delivering"}
                                   THEN "open" ELSE row[e].status]

Contract == INSTANCE OutboxContract WITH state <- ContractState

\* Delivery at least once: the leases, retries and tokens implement a queue
\* whose entries close exactly once, as published only after some worker has
\* carried the command out.
AtLeastOnce == Contract!Spec
=============================================================================
