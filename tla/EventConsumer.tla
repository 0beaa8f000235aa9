---------------------------- MODULE EventConsumer ----------------------------
(***************************************************************************)
(* EventConsumers::Process: a callback of the local provider or the build  *)
(* controller is consumed in two transactions.  The first records the      *)
(* receipt under an advisory lock, the second locks the receipt's row,     *)
(* runs the block and completes the receipt.  Requests run concurrently,   *)
(* the block may raise and the server may die between any two steps; a     *)
(* transaction that has not committed leaves nothing behind.               *)
(***************************************************************************)
EXTENDS Naturals

CONSTANTS
    Ids,            \* event ids (of one consumer)
    Digests,        \* the readings of an envelope its digest tells apart
    Results,        \* what the block may return
    Requests,       \* server threads
    MaxDeliveries,  \* bound on deliveries
    MaxCrashes      \* bound on crashed requests

ASSUME ConsumerAssumption ==
    /\ "none" \notin Digests
    /\ "none" \notin Results
    /\ MaxDeliveries \in Nat
    /\ MaxCrashes \in Nat

VARIABLES
    receipt,    \* event_receipts
    req,        \* what each thread is doing
    effects,    \* effects[i]: committed executions of the block
    told,       \* told[i]: answers given to deliveries of i
    deliveries, \* how much of MaxDeliveries is spent
    crashes     \* how much of MaxCrashes is spent

consumerVars == <<receipt, req, effects, told, deliveries, crashes>>

Receipt == [status : {"none", "processing", "completed"},
            digest : Digests \cup {"none"}, result : Results \cup {"none"}]

NoReceipt == [status |-> "none", digest |-> "none", result |-> "none"]

Request == [pc : {"idle", "lock_event", "find", "create", "lock_receipt", "yield", "complete"},
            id : Ids \cup {"none"}, digest : Digests \cup {"none"},
            result : Results \cup {"none"}]

Free == [pc |-> "idle", id |-> "none", digest |-> "none", result |-> "none"]

ConsumerTypeOK ==
    /\ receipt \in [Ids -> Receipt]
    /\ req \in [Requests -> Request]
    /\ effects \in [Ids -> Nat]
    /\ told \in [Ids -> SUBSET [digest : Digests, result : Results]]
    /\ deliveries \in Nat
    /\ crashes \in Nat

ConsumerInit ==
    /\ receipt = [i \in Ids |-> NoReceipt]
    /\ req = [r \in Requests |-> Free]
    /\ effects = [i \in Ids |-> 0]
    /\ told = [i \in Ids |-> {}]
    /\ deliveries = 0
    /\ crashes = 0

\* Both locks are held to the end of the transaction that takes them.
HoldsEvent(r, i) == req[r].id = i /\ req[r].pc \in {"find", "create"}
HoldsReceipt(r, i) == req[r].id = i /\ req[r].pc \in {"yield", "complete"}

\* Mutants: nobody waits for the lock; the advisory lock belongs to the session
\* and outlives the transaction.
EventFreeAlways(i) == TRUE
EventFreeOfSession(i) == /\ \A r \in Requests : ~HoldsEvent(r, i)
                         /\ receipt[i].status = "none"
ReceiptFreeAlways(i) == TRUE

EventFree(i) == \A r \in Requests : ~HoldsEvent(r, i)
ReceiptFree(i) == \A r \in Requests : ~HoldsReceipt(r, i)

\* Mutant: any receipt is replayed.
ReplayableAlways(i) == TRUE

Replayable(i) == receipt[i].status = "completed"

Goto(r, pc) == req' = [req EXCEPT ![r].pc = pc]
Answered(r) == req' = [req EXCEPT ![r] = Free]

\* Mutant: only the id is compared.
ValidAlways(r) == TRUE

\* validate_receipt!: everything but the receipt's status is the same.
Valid(r) == receipt[req[r].id].digest = req[r].digest
-----------------------------------------------------------------------------
Deliver(r, i, d) ==
    /\ req[r].pc = "idle"
    /\ deliveries < MaxDeliveries
    /\ deliveries' = deliveries + 1
    /\ req' = [req EXCEPT ![r] = [pc |-> "lock_event", id |-> i, digest |-> d,
                                  result |-> "none"]]
    /\ UNCHANGED <<receipt, effects, told, crashes>>

\* lock_event!
LockEvent(r) ==
    /\ req[r].pc = "lock_event"
    /\ EventFree(req[r].id)
    /\ Goto(r, "find")
    /\ UNCHANGED <<receipt, effects, told, deliveries, crashes>>

\* receive, with a receipt in the table: the transaction ends here, with the
\* receipt or with Conflict.
Find(r) ==
    /\ req[r].pc = "find"
    /\ \/ receipt[req[r].id].status = "none" /\ Goto(r, "create")
       \/ receipt[req[r].id].status # "none" /\ Valid(r) /\ Goto(r, "lock_receipt")
       \/ receipt[req[r].id].status # "none" /\ ~Valid(r) /\ Answered(r)
    /\ UNCHANGED <<receipt, effects, told, deliveries, crashes>>

\* receive, without one: the insert commits.  (On a receipt that has come into
\* the table since, the unique index would make it fail.)
Create(r) ==
    /\ req[r].pc = "create"
    /\ IF receipt[req[r].id].status = "none"
       THEN /\ receipt' = [receipt EXCEPT ![req[r].id] =
                             [status |-> "processing", digest |-> req[r].digest,
                              result |-> "none"]]
            /\ Goto(r, "lock_receipt")
       ELSE Answered(r) /\ UNCHANGED receipt
    /\ UNCHANGED <<effects, told, deliveries, crashes>>

Tell(i, d, x) == told' = [told EXCEPT ![i] = @ \cup {[digest |-> d, result |-> x]}]

\* call takes the row lock, validates once more and replays a completed
\* receipt; otherwise the block runs.
LockReceipt(r) ==
    /\ req[r].pc = "lock_receipt"
    /\ ReceiptFree(req[r].id)
    /\ IF ~Valid(r)
       THEN Answered(r) /\ UNCHANGED told
       ELSE \/ /\ Replayable(req[r].id)
               /\ Tell(req[r].id, req[r].digest, receipt[req[r].id].result)
               /\ Answered(r)
            \/ /\ ~Replayable(req[r].id)
               /\ Goto(r, "yield")
               /\ UNCHANGED told
    /\ UNCHANGED <<receipt, effects, deliveries, crashes>>

\* The block ends with a result that canonical_result accepts.
Yield(r, x) ==
    /\ req[r].pc = "yield"
    /\ req' = [req EXCEPT ![r] = [@ EXCEPT !.pc = "complete", !.result = x]]
    /\ UNCHANGED <<receipt, effects, told, deliveries, crashes>>

\* The block raises, or canonical_result does: everything is rolled back.
YieldRaises(r) ==
    /\ req[r].pc = "yield"
    /\ Answered(r)
    /\ UNCHANGED <<receipt, effects, told, deliveries, crashes>>

CompletedReceipt(old, x) == [old EXCEPT !.status = "completed", !.result = x]

\* The receipt is completed and the transaction commits, with all the block
\* did.  The status allow_completion_only looks at was read under the lock.
Complete(r) ==
    /\ req[r].pc = "complete"
    /\ receipt' = [receipt EXCEPT ![req[r].id] = CompletedReceipt(@, req[r].result)]
    /\ effects' = [effects EXCEPT ![req[r].id] = @ + 1]
    /\ Tell(req[r].id, req[r].digest, req[r].result)
    /\ Answered(r)
    /\ UNCHANGED <<deliveries, crashes>>

\* The thread dies; PostgreSQL rolls its transaction back.
Crash(r) ==
    /\ req[r].pc # "idle"
    /\ crashes < MaxCrashes
    /\ crashes' = crashes + 1
    /\ Answered(r)
    /\ UNCHANGED <<receipt, effects, told, deliveries>>

Step(r) ==
    \/ LockEvent(r) \/ Find(r) \/ Create(r) \/ LockReceipt(r)
    \/ \E x \in Results : Yield(r, x)
    \/ YieldRaises(r) \/ Complete(r)

ConsumerNext == \E r \in Requests : \/ \E i \in Ids, d \in Digests : Deliver(r, i, d)
                            \/ Step(r)
                            \/ Crash(r)

ConsumerSpec == ConsumerInit /\ [][ConsumerNext]_consumerVars

\* A thread that can go on does.
ConsumerFairness == \A r \in Requests : WF_consumerVars(Step(r))
-----------------------------------------------------------------------------
\* The advisory lock does what it is there for: between the look-up and the
\* insert of a receipt nobody else inserts it, so no delivery fails on the
\* unique index.
InsertIsAlone ==
    \A r \in Requests : req[r].pc = "create" => receipt[req[r].id].status = "none"

\* attr_readonly and allow_completion_only: what a receipt says of its event
\* never changes, and nothing of it changes once it is completed.
ReceiptStable ==
    [][\A i \in Ids :
          /\ receipt[i].status # "none" => receipt'[i].digest = receipt[i].digest
          /\ receipt[i].status = "completed" => receipt'[i] = receipt[i]
          /\ receipt'[i].status = "none" => receipt[i].status = "none"]_consumerVars

\* The parts of the inductive invariant: each lock has one holder, whoever runs
\* the block has validated a receipt that is still processing, and a receipt is
\* completed exactly when the block was committed and some delivery answered.
LocksExclusive ==
    /\ \A q, r \in Requests : \A i \in Ids : HoldsEvent(q, i) /\ HoldsEvent(r, i) => q = r
    /\ \A q, r \in Requests : \A i \in Ids : HoldsReceipt(q, i) /\ HoldsReceipt(r, i) => q = r

RequestShape ==
    \A r \in Requests :
        /\ req[r].pc # "idle" => req[r].id \in Ids /\ req[r].digest \in Digests
        /\ req[r].pc = "lock_receipt" => /\ receipt[req[r].id].status # "none"
                                         /\ receipt[req[r].id].digest = req[r].digest
        /\ req[r].pc \in {"yield", "complete"}
             => /\ receipt[req[r].id].status = "processing"
                /\ receipt[req[r].id].digest = req[r].digest
        /\ req[r].pc = "complete" => req[r].result \in Results

ReceiptMeaning ==
    \A i \in Ids :
        /\ receipt[i].status # "none" => receipt[i].digest \in Digests
        /\ receipt[i].status = "completed" <=> receipt[i].result # "none"
        /\ effects[i] = IF receipt[i].status = "completed" THEN 1 ELSE 0
        /\ receipt[i].status # "completed" => told[i] = {}

\* The inductive invariant of the consumer.
ConsumerInv ==
    /\ ConsumerTypeOK
    /\ LocksExclusive
    /\ RequestShape
    /\ ReceiptMeaning
    /\ InsertIsAlone

\* Nobody inserts a receipt that is there, and receipts keep their shape.
ReceiptsConsistent == ConsumerTypeOK /\ InsertIsAlone

\* An event counts as consumed when its receipt is completed.
ContractOutcome ==
    [i \in Ids |-> IF receipt[i].status = "completed"
                   THEN [digest |-> receipt[i].digest, result |-> receipt[i].result]
                   ELSE [digest |-> "none", result |-> "none"]]

ReceiptsContract == INSTANCE ReceiptContract WITH outcome <- ContractOutcome

\* Exactly one effect: the receipts implement a consumer that executes each
\* event at most once and answers every delivery of it alike.
ExactlyOnce == ReceiptsContract!Spec
=============================================================================
