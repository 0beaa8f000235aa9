---------------------------- MODULE LocalProvider ----------------------------
(***************************************************************************)
(* The local provider together with the control plane it works for: one    *)
(* process that claims deployment, cancellation and routing commands,      *)
(* drives Docker, its SQLite store and the Traefik route file, and reports *)
(* by callbacks that Rails consumes through its event receipts.  Each      *)
(* request, SQLite transaction, Docker call and file replacement is a step *)
(* of its own, and the process may die between any two of them.            *)
(*                                                                         *)
(* Leases and retry delays are abstract here (Outbox has them): a row that *)
(* waits, or that nobody works on any more, becomes claimable at some time.*)
(***************************************************************************)
EXTENDS ControlPlane

CONSTANTS
    MaxAttempts,    \* MAX_ATTEMPTS of OutboxEvents::Finalize
    MaxClaims,      \* bound on attempt_count
    MaxFaults       \* bound on crashes and lost or failed calls

ASSUME ProviderAssumption ==
    /\ MaxAttempts \in Nat \ {0}
    /\ MaxClaims \in Nat
    /\ MaxFaults \in Nat

VARIABLES
    box,        \* outbox_events, oldest first
    receipts,   \* event_receipts of the consumer "local-provider"
    job,        \* the command the process is working on
    store,      \* the SQLite tables
    runtime,    \* the deployments that have a container
    routes,     \* the route file: routes[a] is where Traefik sends alias a
    faults      \* how much of MaxFaults is spent

providerVars == <<job, store, runtime, routes>>
lpVars == <<cpVars, box, receipts, providerVars, faults>>

Kinds == {"ready", "failed", "canceled", "routed"}

\* A row is held from its claim until it is finalized or its lease expires.
Row == [cmd : Command, status : {"ready", "held", "waiting", "published", "dead"},
        attempts : Nat]

\* The result of a command, with the callback that reports it.  The event id of
\* the callback is made of command and kind; its digest covers the time it was
\* built at, which the claim it was built under stands for.
Result == [cmd : Command, kind : Kinds, claim : Nat]

EventReceipt == [envelope : Result, status : {"processing", "completed"}]

Job == [pc : {"idle", "receive", "ensure", "probe", "discard", "remove", "forget",
              "apply", "write", "callback", "save", "complete", "finalize"},
        row : Nat, kind : Kinds \cup {"none"}, claim : Nat,
        outcome : {"none", "published", "retry", "rejected"}]

NoJob == [pc |-> "idle", row |-> 0, kind |-> "none", claim |-> 0, outcome |-> "none"]

\* events (received, and completed with their results), revisions, aliases.
Store == [received : SUBSET Command, completed : SUBSET Result,
          revisions : SUBSET Deployments, aliases : [Aliases -> Deployments \cup {"none"}]]

NoRoutes == [a \in Aliases |-> "none"]

LPTypeOK ==
    /\ CPTypeOK
    /\ box \in Seq(Row)
    /\ receipts \subseteq EventReceipt
    /\ job \in Job
    /\ store \in Store
    /\ runtime \subseteq Deployments
    /\ routes \in [Aliases -> Deployments \cup {"none"}]
    /\ faults \in 0..MaxFaults

LPInit ==
    /\ CPInit
    /\ box = <<>>
    /\ receipts = {}
    /\ job = NoJob
    /\ store = [received |-> {}, completed |-> {}, revisions |-> {}, aliases |-> NoRoutes]
    /\ runtime = {}
    /\ routes = NoRoutes
    /\ faults = 0

Fault == faults < MaxFaults /\ faults' = faults + 1

cmd == box[job.row].cmd

\* What the process does next, and what it tells the control plane at the end.
Then(pc) == job' = [job EXCEPT !.pc = pc]
Report(kind) == job' = [job EXCEPT !.pc = "callback", !.kind = kind, !.claim = box[job.row].attempts]
Outcome(o) == job' = [job EXCEPT !.pc = "finalize", !.outcome = o]
Drop == job' = NoJob
-----------------------------------------------------------------------------
\* A user's request; what it publishes goes to the end of the outbox.
UserStep ==
    /\ UserNext
    /\ box' = IF commands' = commands THEN box
              ELSE Append(box, [cmd |-> CHOOSE c \in commands' : c \notin commands,
                                status |-> "ready", attempts |-> 0])
    /\ UNCHANGED <<receipts, providerVars, faults>>

\* A retry delay or the lease of a row nobody works on has run out.
Expire(i) ==
    /\ \/ box[i].status = "waiting"
       \/ box[i].status = "held" /\ job.row # i
    /\ box' = [box EXCEPT ![i].status = "ready"]
    /\ UNCHANGED <<cpVars, receipts, providerVars, faults>>

\* The oldest claimable row.
Claim(i) ==
    /\ job = NoJob
    /\ box[i].status = "ready"
    /\ \A j \in 1..(i - 1) : box[j].status # "ready"
    /\ box[i].attempts < MaxClaims
    /\ box' = [box EXCEPT ![i].status = "held", ![i].attempts = @ + 1]
    /\ job' = [NoJob EXCEPT !.pc = "receive", !.row = i]
    /\ UNCHANGED <<cpVars, receipts, store, runtime, routes, faults>>

\* Mutant: a receipt that is still processing counts as completed.
CompletedWhenReceived(c) == c \in store.received

\* StateStore.receive finds the result of an earlier execution.
Completed(c) == \E e \in store.completed : e.cmd = c

\* Processor.process: a completed command repeats its callback, if it had one,
\* any other one is executed (again).
Receive ==
    /\ job.pc = "receive"
    /\ store' = [store EXCEPT !.received = @ \cup {cmd}]
    /\ IF Completed(cmd)
       THEN \/ \E e \in store.completed :
                  /\ e.cmd = cmd /\ e.kind # "routed"
                  /\ job' = [job EXCEPT !.pc = "callback", !.kind = e.kind, !.claim = e.claim]
            \/ cmd.type = "route" /\ Outcome("published")
       ELSE \/ cmd.type = "deploy" /\ Then("ensure")
            \/ cmd.type = "cancel" /\ Then("remove")
            \/ cmd.type = "route" /\ Then("apply")
    /\ UNCHANGED <<cpVars, box, receipts, runtime, routes, faults>>

DockerStep == UNCHANGED <<cpVars, box, receipts, store, routes>>

\* RuntimeUnavailable: a Docker call failed, the command will be retried.
RuntimeUnavailable ==
    /\ job.pc \in {"ensure", "discard", "remove"}
    /\ Fault
    /\ Outcome("retry")
    /\ UNCHANGED runtime
    /\ DockerStep

\* DockerRuntime.ensure finds or creates and starts the container.
Ensure ==
    /\ job.pc = "ensure" /\ cmd.id \in OciDeployments
    /\ runtime' = runtime \cup {cmd.id}
    /\ Then("probe")
    /\ UNCHANGED faults
    /\ DockerStep

\* A source the provider does not run, or an image that does not match.
Refuse ==
    /\ job.pc = "ensure"
    /\ Report("failed")
    /\ UNCHANGED <<runtime, faults>>
    /\ DockerStep

\* _wait_ready
Probe ==
    /\ job.pc = "probe"
    /\ Report("ready") \/ Then("discard")
    /\ UNCHANGED <<runtime, faults>>
    /\ DockerStep

\* DockerRuntime.remove, for a candidate that is not ready or a cancellation.
Remove ==
    /\ \/ job.pc = "discard" /\ Report("failed")
       \/ job.pc = "remove" /\ Then("forget")
    /\ runtime' = runtime \ {cmd.id}
    /\ UNCHANGED faults
    /\ DockerStep
-----------------------------------------------------------------------------
StoreStep == UNCHANGED <<cpVars, box, receipts, runtime, faults>>

\* Mutants: only the revision, or only the alias mappings, are deleted.
WithoutRevisionOnly(s, d) == [s EXCEPT !.revisions = @ \ {d}]
WithoutAliasesOnly(s, d) ==
    [s EXCEPT !.aliases = [a \in Aliases |-> IF @[a] = d THEN "none" ELSE @[a]]]

Without(s, d) ==
    [s EXCEPT !.revisions = @ \ {d},
              !.aliases = [a \in Aliases |-> IF @[a] = d THEN "none" ELSE @[a]]]

\* StateStore.remove_deployment
Forget ==
    /\ job.pc = "forget"
    /\ store' = Without(store, cmd.id)
    /\ Then("write")
    /\ UNCHANGED routes
    /\ StoreStep

\* Mutant: the target of a routing command need not be known locally.
KnownAlways(c) == TRUE

Known(c) == c.current \in store.revisions

\* RouteWriter.apply up to save_alias; an unknown target is retried.
Apply ==
    /\ job.pc = "apply"
    /\ IF Known(cmd)
       THEN /\ store' = [store EXCEPT !.aliases[cmd.id] = cmd.current]
            /\ Then("write")
       ELSE Outcome("retry") /\ UNCHANGED store
    /\ UNCHANGED routes
    /\ StoreStep

\* RouteWriter._write_all replaces the route file.
Write ==
    /\ job.pc = "write"
    /\ routes' = store.aliases
    /\ \/ cmd.type = "cancel" /\ Report("canceled")
       \/ cmd.type = "route" /\ job' = [job EXCEPT !.pc = "complete", !.kind = "routed",
                                                   !.claim = box[job.row].attempts]
    /\ UNCHANGED store
    /\ StoreStep

\* StateStore.save_revision
Save ==
    /\ job.pc = "save"
    /\ store' = [store EXCEPT !.revisions = @ \cup {cmd.id}]
    /\ Then("complete")
    /\ UNCHANGED routes
    /\ StoreStep

Envelope == [cmd |-> cmd, kind |-> job.kind, claim |-> job.claim]

\* StateStore.complete
Complete ==
    /\ job.pc = "complete"
    /\ store' = [store EXCEPT !.completed = @ \cup {Envelope}]
    /\ Outcome("published")
    /\ UNCHANGED routes
    /\ StoreStep
-----------------------------------------------------------------------------
\* The receipt Rails keeps under the event id of the envelope.
ReceiptOf(e) == {r \in receipts : r.envelope.cmd = e.cmd /\ r.envelope.kind = e.kind}

\* validate_receipt!: another digest under the same id is refused.
Conflict(e) == \E r \in ReceiptOf(e) : r.envelope # e
Replayed(e) == [envelope |-> e, status |-> "completed"] \in receipts

\* LocalProviderEvents::Consume#process
Process(e) ==
    \/ ~Current(e.cmd) /\ UNCHANGED cpVars
    \/ e.kind = "ready" /\ ProviderReady(e.cmd)
    \/ e.kind = "failed" /\ ProviderFailed(e.cmd)
    \/ e.kind = "canceled" /\ ProviderCanceled(e.cmd)

\* EventConsumers::Process: a replay changes nothing, a first execution
\* completes the receipt together with what it does.
Consume(e) ==
    /\ ~Conflict(e)
    /\ IF Replayed(e)
       THEN UNCHANGED <<cpVars, receipts>>
       ELSE /\ Process(e)
            /\ receipts' = (receipts \ ReceiptOf(e)) \cup
                 {[envelope |-> e, status |-> "completed"]}

\* The callback was built under an earlier claim.
Replaying == job.claim # box[job.row].attempts

\* What the process does with a reply; a repeated callback is all there is to do.
Proceed ==
    IF Replaying THEN Outcome("published")
    ELSE IF job.kind # "ready" THEN Then("complete")
    ELSE IF dep'[cmd.id].revision # "none" THEN Then("save")
    ELSE Outcome("rejected")

\* ControlPlaneClient.callback is answered.
CallbackAnswered ==
    /\ job.pc = "callback"
    /\ Consume(Envelope)
    /\ Proceed
    /\ UNCHANGED <<box, store, runtime, routes, faults>>

\* ControlPlaneRejected: the loop only logs it, the row keeps its lease.
CallbackRefused ==
    /\ job.pc = "callback"
    /\ Conflict(Envelope)
    /\ Drop
    /\ UNCHANGED <<cpVars, box, receipts, store, runtime, routes, faults>>

\* Mutant: an unanswered callback is taken for an answered one.
UnavailableIsDone == Then("complete")

\* ControlPlaneUnavailable: retried, but from a repeated callback it reaches
\* the loop.
Unavailable == IF Replaying THEN Drop ELSE Outcome("retry")

\* The request is lost, or the server dies after the first transaction, or the
\* reply is lost.
CallbackLost ==
    /\ job.pc = "callback"
    /\ Fault
    /\ \/ UNCHANGED <<cpVars, receipts>>
       \/ /\ ReceiptOf(Envelope) = {}
          /\ receipts' = receipts \cup
               {[envelope |-> Envelope, status |-> "processing"]}
          /\ UNCHANGED cpVars
       \/ Consume(Envelope)
    /\ Unavailable
    /\ UNCHANGED <<box, store, runtime, routes>>
-----------------------------------------------------------------------------
\* Mutant: a command that was tried often enough is done with.
FinalStatusPublished(r, o) ==
    IF o = "retry" /\ r.attempts < MaxAttempts THEN "waiting" ELSE "published"

\* The status OutboxEvents::Finalize gives the row.
FinalStatus(r, o) ==
    IF o = "published" THEN "published"
    ELSE IF o = "retry" /\ r.attempts < MaxAttempts THEN "waiting" ELSE "dead"

\* ControlPlaneClient.finalize.  Whether its reply arrives makes no difference
\* to the process, and a lost request none from a crash.
Finalize ==
    /\ job.pc = "finalize"
    /\ box' = [box EXCEPT ![job.row].status = FinalStatus(box[job.row], job.outcome)]
    /\ Drop
    /\ UNCHANGED <<cpVars, receipts, store, runtime, routes, faults>>

\* The process dies and is restarted, or an exception ends up in the loop.
Crash ==
    /\ job # NoJob
    /\ Fault
    /\ Drop
    /\ UNCHANGED <<cpVars, box, receipts, store, runtime, routes>>

ProviderStep ==
    \/ \E i \in DOMAIN box : Claim(i)
    \/ Receive
    \/ Ensure \/ Refuse \/ Probe \/ Remove \/ RuntimeUnavailable
    \/ Forget \/ Apply \/ Write \/ Save \/ Complete
    \/ CallbackAnswered \/ CallbackRefused \/ CallbackLost
    \/ Finalize \/ Crash

LPNext == \/ UserStep
          \/ \E i \in DOMAIN box : Expire(i)
          \/ ProviderStep

LPSpec == LPInit /\ [][LPNext]_lpVars
-----------------------------------------------------------------------------
\* Whatever is retried, replayed or late, Traefik sends an alias only to a
\* revision that Rails holds ready, of a deployment not canceled or failed.
RoutesToReady ==
    \A a \in Aliases :
        routes[a] # "none" => /\ dep[routes[a]].revision = "ready"
                              /\ dep[routes[a]].status \notin {"canceled", "failed"}

\* When Rails takes a deployment to canceled, its container, its mapping and
\* every route to it are gone (the order of Processor._cancellation).
CanceledAfterRemoval ==
    [][\A d \in Deployments :
          dep[d].status = "canceling" /\ dep'[d].status = "canceled"
          => /\ d \notin runtime
             /\ d \notin store.revisions
             /\ \A a \in Aliases : routes[a] # d /\ store.aliases[a] # d]_lpVars

\* The route file may lag behind the alias mappings after a crash, but only
\* while a command is open that writes it anew.
RouteFileRepaired ==
    routes # store.aliases =>
        \E i \in DOMAIN box : box[i].status # "published" /\ box[i].cmd.type \in {"cancel", "route"}

HasAnswer(c) == \E r \in receipts : r.envelope.cmd = c /\ r.status = "completed"

\* A deployment or cancellation command is published only when Rails has
\* consumed a callback for it and the deployment moved on.
PublishedIsAnswered ==
    \A i \in DOMAIN box :
        box[i].status = "published" /\ box[i].cmd.type \in {"deploy", "cancel"}
        => /\ ~Current(box[i].cmd)
           /\ HasAnswer(box[i].cmd)

\* A deployment stays canceling only while its cancellation is open or dead: no
\* reply, crash or lost lease loses it.
CancelingIsOpen ==
    \A d \in Deployments :
        dep[d].status = "canceling" =>
            \E i \in DOMAIN box : /\ box[i].cmd = CancelCommand(d, dep[d].version)
                                  /\ box[i].status # "published"

\* Whatever crashes or is lost, routes lead to ready deployments, and the route
\* file, the mappings and the outbox agree or will agree again.
ProviderConsistent == LPTypeOK /\ RoutesToReady /\ RouteFileRepaired

\* No command is settled before Rails has its answer.
CommandsAnswered == PublishedIsAnswered /\ CancelingIsOpen

\* What the documentation says and the code does not do.  A replay returns the
\* same callback identity, so that an unknown outcome can be retried safely:
\* no callback the provider sends is refused as a changed replay.
CallbackIdentityKept == job.pc = "callback" => ~Conflict(Envelope)

\* Cancellation removes the runtime: when all commands of a canceled deployment
\* are settled, it has no container.
CanceledHasNoRuntime ==
    \A d \in Deployments :
        /\ dep[d].status = "canceled"
        /\ job = NoJob
        /\ \A i \in DOMAIN box : box[i].cmd.id = d => box[i].status \in {"published", "dead"}
        => d \notin runtime

\* A callback or a finalization of unknown outcome can be retried safely: when
\* the command of a ready deployment is settled, it has its container.
ReadyIsRunning ==
    \A d \in Deployments :
        /\ dep[d].status \in {"ready", "promoted"}
        /\ job = NoJob
        /\ \A i \in DOMAIN box : box[i].cmd.id = d => box[i].status \in {"published", "dead"}
        => d \in runtime

\* Rails is authoritative for alias pointers: when every routing command of an
\* alias is published, its route is the one Rails has.
RoutesFollowAliases ==
    \A a \in Aliases :
        (\A i \in DOMAIN box : box[i].cmd.id = a => box[i].status = "published")
        => routes[a] = alias[a].current
-----------------------------------------------------------------------------
\* The inductive invariant, in parts.  Commands: each has one row; those of a
\* deployment quote a version that it has, or had.
Overtaken(c) == c.version < dep[c.id].version

BoxMatches ==
    /\ \A i \in DOMAIN box : box[i].cmd \in commands
    /\ \A i, j \in DOMAIN box : box[i].cmd = box[j].cmd => i = j
    /\ \A c \in commands : \E i \in DOMAIN box : box[i].cmd = c

CommandsKnown ==
    \A c \in commands :
        /\ c.type \in {"deploy", "cancel", "route"}
        /\ c.type # "route" => /\ dep[c.id].status # "none"
                               /\ c.version <= dep[c.id].version

\* Results and receipts: each answers a command of its kind, what is completed
\* has moved the deployment on, and a revision has the receipt that made it.
KindFits(e) ==
    \/ e.kind \in {"ready", "failed"} /\ e.cmd.type = "deploy"
    \/ e.kind = "canceled" /\ e.cmd.type = "cancel"
    \/ e.kind = "routed" /\ e.cmd.type = "route"

Answered(e) == [envelope |-> e, status |-> "completed"] \in receipts

ReceiptsFit ==
    \A r \in receipts :
        /\ r.envelope.cmd \in commands /\ r.envelope.cmd.type # "route"
        /\ KindFits(r.envelope)
        /\ r.status = "completed" => Overtaken(r.envelope.cmd)

RevisionsAnswered ==
    \A d \in Deployments :
        dep[d].revision # "none" =>
            \E r \in receipts : /\ r.envelope.cmd = DeployCommand(d, 0)
                                /\ r.envelope.kind = "ready" /\ r.status = "completed"

ResultsFit ==
    \A e \in store.completed : KindFits(e) /\ (e.kind # "routed" => Answered(e))

\* The claim a receipt names is one its row had, and an earlier one as long as
\* the process has not sent the callback of the present claim.
Unsent ==
    \/ job.pc \in {"receive", "ensure", "probe", "discard", "remove", "forget", "apply", "write"}
    \/ job.pc = "callback" /\ job.claim = box[job.row].attempts

ClaimsBounded ==
    \A r \in receipts : \A i \in DOMAIN box :
        r.envelope.cmd = box[i].cmd =>
            /\ r.envelope.claim <= box[i].attempts
            /\ Unsent /\ job.row = i => r.envelope.claim < box[i].attempts

\* The process holds the row it works on, follows the procedure of its type, and
\* executes no command it has completed; a callback is of the present claim, or
\* repeats a completed one.
JobFits ==
    /\ job.pc = "idle" <=> job = NoJob
    /\ job.pc # "idle" => /\ job.row \in DOMAIN box
                          /\ box[job.row].status = "held"
    /\ job.pc \in {"ensure", "probe", "discard", "save"} => cmd.type = "deploy"
    /\ job.pc \in {"remove", "forget"} => cmd.type = "cancel"
    /\ job.pc = "apply" => cmd.type = "route"
    /\ job.pc = "write" => cmd.type \in {"cancel", "route"}
    /\ job.pc \in {"ensure", "probe", "discard", "remove", "forget", "apply", "write",
                   "save", "complete"} => ~Completed(cmd)
    /\ job.pc \in {"callback", "save", "complete"} => job.kind # "none" /\ KindFits(Envelope)
    /\ job.pc = "callback" =>
          /\ job.kind # "routed"
          /\ \/ job.claim = box[job.row].attempts /\ ~Completed(cmd)
             \/ job.claim < box[job.row].attempts /\ Envelope \in store.completed
    /\ job.pc \in {"save", "complete"} /\ job.kind # "routed" => Answered(Envelope)
    /\ job.pc = "finalize" => job.outcome # "none"
    /\ job.pc = "finalize" /\ job.outcome = "published" /\ cmd.type # "route" =>
          HasAnswer(cmd)

\* What a cancellation has taken away stays away until Rails is told.
Removed ==
    /\ job.pc = "forget" \/ (job.pc = "write" /\ cmd.type = "cancel")
         \/ (job.pc = "callback" /\ job.kind = "canceled" /\ ~Completed(cmd))
       => cmd.id \notin runtime
    /\ (job.pc = "write" /\ cmd.type = "cancel")
         \/ (job.pc = "callback" /\ job.kind = "canceled" /\ ~Completed(cmd))
       => /\ cmd.id \notin store.revisions
          /\ \A a \in Aliases : store.aliases[a] # cmd.id
    /\ job.pc = "callback" /\ job.kind = "canceled" /\ ~Completed(cmd)
       => \A a \in Aliases : routes[a] # cmd.id

\* Whatever the provider stores or routes to is live or being canceled.
Kept(r) == r.revision = "ready" /\ r.status \in PROMOTABLE_DEPLOYMENT_STATUSES \cup {"canceling"}

StoreKept ==
    /\ job.pc = "save" => Kept(dep[cmd.id])
    /\ \A d \in store.revisions : Kept(dep[d])
    /\ \A a \in Aliases : store.aliases[a] # "none" => store.aliases[a] \in store.revisions
    /\ \A a \in Aliases : routes[a] # "none" => Kept(dep[routes[a]])

\* Row i will be executed (again) up to its Write.
Repairs(i) ==
    /\ box[i].cmd.type \in {"cancel", "route"}
    /\ box[i].status # "published"
    /\ ~Completed(box[i].cmd)
    /\ job.row = i => \/ job.pc \in {"receive", "remove", "forget", "apply", "write"}
                      \/ job.pc = "finalize" /\ job.outcome = "retry"

Repairable == routes # store.aliases => \E i \in DOMAIN box : Repairs(i)

PublishedAnswered ==
    \A i \in DOMAIN box :
        box[i].status = "published" /\ box[i].cmd.type # "route" =>
            HasAnswer(box[i].cmd)

LPInv ==
    /\ LPTypeOK
    /\ CPInv
    /\ BoxMatches
    /\ CommandsKnown
    /\ ReceiptsFit
    /\ RevisionsAnswered
    /\ ResultsFit
    /\ ClaimsBounded
    /\ JobFits
    /\ Removed
    /\ StoreKept
    /\ Repairable
    /\ PublishedAnswered
=============================================================================
