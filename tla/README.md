# Formal models of Lrail deploy

TLA+ models of the deployment platform in this repository: the Rails control
plane (`src/apps/control_plane`), the local provider that runs images
(`src/apps/local_provider`), the services around them (`src/services`) and the
older FastAPI application (`src/app`). The modules are checked with TLC on
small instances, and the theorems about them with TLAPS for every value of the
constants.

Run a model with `tlc -config MCDelivery.cfg MCDelivery`, check the proofs with
`tlapm DeliveryProofs.tla`. `PROJECT.json` lists the runs, the theorems, the
source lines behind every definition, the hazards of the code and the findings.

## 1. The system

```
 user/API        control plane (Rails, PostgreSQL)              workers
 --------   -------------------------------------------    ------------------
 create  -> Deployment --+                                 local provider
 cancel  -> Build        +--> outbox_events  <-- claim --- (SQLite, Docker,
 promote -> Revision     |    (commands)     --- lease -->  route file)
 rollback-> Alias -------+                   <-- finalize- orchestrator bridge
                ^                                          build controller
                +---- event_receipts <-------- callback ---+
```

A request changes the records of the control plane and, in the same
transaction, publishes a command to the table `outbox_events`. Workers poll for
commands over HTTP: a *claim* leases the oldest eligible row to the worker, the
worker acts outside any transaction, reports by a *callback*, and *finalizes*
the row with the token of its claim. Callbacks are deduplicated by
`event_receipts`. No component calls another one while it holds a lock, so
everything that can go wrong lies between a step in one process and the answer
to it in another.

### Inventory

| Component | State it keeps | Operations | What is hard about it | What makes it correct |
|---|---|---|---|---|
| **Transactional outbox** (`services/outbox_events`, the three `*_commands_controller.rb`) | `outbox_events`: status, attempt count, claim token, claim request id, `locked_until`, `available_at` | Publish, Claim, Finalize, Dispatch | expiring leases, lost replies, late answers, retry limits | one holder per row, confirmed outcomes stand, every row settles |
| **Event consumer** (`services/event_consumers`) | `event_receipts` | Process | two transactions and two kinds of lock, a crash in between, changed replays | each event takes effect once, all answers agree |
| **Deployments, builds, revisions, aliases** (`services/deployments`, `builds`, `build_events`, `build_cancellations`, `aliases`, `local_provider_events`) | status and `lock_version` of deployments, builds, revisions; current and previous revision of aliases | Create, Cancel, Promote, Rollback, Prepare, Complete, Fail, callbacks | stale versions, cancellation racing promotion and completion, aliases that share deployments | an alias routes to live deployments only; an accepted cancellation finishes |
| **Local provider** (`apps/local_provider`) | SQLite tables `events`, `revisions`, `aliases`; containers; the Traefik route file | claim loop, deploy, cancel, route | a crash between any two effects, repeated and overtaken commands | routes go to ready revisions, canceled means removed, published means answered |
| **Orchestrator API and signals** (`internal/v1/orchestrator_*`) | none of its own | read a deployment, Prepare, cancel | versions quoted by the workflow | stale operations refused |
| **Git webhooks and connections** (`services/git_webhooks`, `git_installations`, `repository_connections`) | inbox of deliveries, installations, repository connections | ingest, consume, connect | deliveries late, repeated and out of order, answers of the provider that are old when they are saved | each delivery applied once; what Rails knows is what the provider says |
| **API idempotency** (`services/api/idempotency`) | `idempotency_records` | first-writer-wins record around mutations | two requests with one key, a crash or a lost answer, a resource that moved on | one effect per key, the answer replayed |
| **Authentication and limits** (`services/authentication`) | users, email-auth keys, attempts, the first organization | ask for a link, follow it | candidates that follow their links at once, windows that slide while a request waits | one owner, one session per key, budgets kept in every window |
| **Configurations** (`services/configurations`) | encrypted versions, snapshots | resolve, snapshot, reveal | none of its own: data merged once | snapshot equals the merge at creation |
| **Resource creation** (`services/organizations`, `projects`, `environments`) | organizations, projects, environments | create | unique slugs | uniqueness |
| **Logs and pages** (`services/deployment_logs`, controllers) | none | read | none | - |
| **Orchestrator** (`services/orchestrator`: Temporal bridge and workflow) | workflow history | signals, activities, minimum versions | signals before the workflow knows what they are about, redelivery | monotone versions, a cancellation that is observed is passed on |
| **Build controller** (`services/build_controller`) | SQLite store of operations, Kubernetes Jobs and Secrets, registry credentials | claim loop, reconciler, result handler; the worker in its pod | three tasks over one row, answers that are lost, pods and process that die | both sides settle a build alike, on evidence that is stored; nothing is left behind |
| **Artifact gateway** (`services/artifact_gateway`) | objects of a store without transactions | publish, reconcile (retention), serve | publications and retentions that break off | a site with a manifest is whole and the confirmed one |
| **Registry authentication** (`services/registry_auth`) | credentials | register, revoke, exchange for a token | tokens outlive rows, calls are repeated | no token beyond its credential's scope and end |
| **Legacy pipeline** (`app/workers`, `app/services/deployment.py`) | deployment rows, containers, job queue, aliases, Traefik files | start, monitor, finalize, fail, cancel, roll back, clean up | jobs racing over one row with unconditional updates | what is routed answered; conclusions stand; only what is active runs |
| **Legacy project, team, user, storage, registry tasks** (`app/workers/tasks`, `app/services`) | rows, directories, override files | provision, reset, delete, verify, toggle | jobs that overlap, cascades that stop half-way | a storage holds its own data; rows refer to rows there are |
| **Legacy web application** (`app/main.py`, routers, forms) | projects with JSON columns, domains, teams, invitations | forms | checks and writes of different requests overlap; lost updates | unique slugs, proven domains, teams with owners |
| **Operations** (`compose`, `docker`, `infrastructure`, `scripts`) | - | - | restart policy and process counts are what fairness rests on | - |

Section 2 says which module models which of them, section 6 what is left out.

## 2. Modules

| Module | What it is |
|---|---|
| `Outbox` | rows, leases, claim tokens and workers, one action per endpoint and per fault |
| `OutboxContract` | what a publisher may rely on: an entry is open until it is closed once, as published only after somebody did the work |
| `EventConsumer` | both transactions of `EventConsumers::Process`, for concurrent server threads |
| `ReceiptContract` | exactly-once consumption with one answer; `EventConsumer` and `ApiIdempotency` implement it |
| `ControlPlane` | deployments (with build and revision), aliases, the commands they publish, API requests in flight |
| `ServingContract` | what a user sees: phases of a deployment, where an alias points |
| `LocalProvider` | EXTENDS `ControlPlane`: the outbox rows, the receipts, the provider process, SQLite, containers, the route file |
| `RowLocks` | the services of the control plane as sequences of their lock requests |
| `Orchestrator` | EXTENDS `ControlPlane`: the bridge, the Temporal workflow of each Git deployment, its activities |
| `ApiIdempotency` | the transaction around a mutation of the public API, step by step |
| `GitWebhooks` | the provider, its deliveries, the inbox, both Connect services |
| `RequestLimiter`, `AccountAccess` | the budgets of sign-in links; the election of the first owner and the one-time keys |
| `BuildController` | one build in the store, the command task, the reconciler, the result handler, Job, pods and Secret |
| `BuildPlans` | `detect_plan`, the worker's report, the two checks it meets |
| `ArtifactGateway` | publication of sites and retention, object by object |
| `RegistryAuth` | credentials and the tokens they are exchanged for |
| `LegacyDeploy` | the arq jobs, the monitor and the requests around the deployment rows of the FastAPI application |
| `StorageLifecycle` | storages, their directories, their jobs and the containers that mount them |
| `ProjectSettings` | environments, variables, configuration and domains of a project, and its Traefik file |
| `Membership` | users, teams, memberships, invitations, and the jobs that delete users and teams |
| `RunnerRegistry` | the catalog and the overrides of runners and presets |
| `MC...` | instances for TLC; section 3 |
| `...Proofs` | theorems; section 4 |

`LocalProvider` composes the first three components: its control-plane steps
*are* the actions of `ControlPlane`; its rows and receipts are `Outbox` and
`EventConsumer` reduced to what a single polling process can tell apart.
`Orchestrator` composes `ControlPlane` with the other back end in the same way.
The remaining modules share no state with each other: what one of them needs of
another (the control plane's side of a build, say) is a variable of its own.

### Outbox

`row[e]` holds the columns of `outbox_events`, `wk[w]` what the loop of a worker
(`local_provider/application.py`, `orchestrator/bridge.rb`, the build
controller's worker) knows of the command in hand.

* `Publish` is `OutboxEvents::Publish`; publishing a key again changes nothing.
* `Claim` is `OutboxEvents::Claim` with a fresh request id. `Selectable` is its
  `ORDER BY created_at ... FOR UPDATE SKIP LOCKED LIMIT 1`: the oldest eligible
  row, but a row whose finalization is under way may be passed over.
* `ClaimReplyLost` and `ClaimAgain` are the HTTP retry of the client: the same
  request id is replayed while its lease runs, makes a new claim afterwards,
  finds nothing when its event was settled, and fails on the unique index when
  the id is still on another row.
* `Work` is the worker's own doing, reduced to its outcome.
* `Finalize` is `OutboxEvents::Finalize` with all its branches: settled by the
  current claim, `replay_terminal` with a compatible outcome, `OutcomeConflict`,
  `StaleClaim`. `FinalizeReplyLost` leaves the worker where it was, so that the
  request is sent again.
* `Abandon` is a crash or an exception the loop only logs.
* `Tick` is the passing of time.

Deadlines are kept as the time *left*: `locked_until <= now` is `lease = 0`.
UUIDs are numbers from a counter (`serial`), which gives freshness and, because
the ids are version 7, the order of creation. `OutboxEvents::Dispatch` is one
more worker (claim, publish, finalize in a row); only specs call it.

### EventConsumer

One thread runs `lock_event` -> `find` -> (`create`) -> commit ->
`lock_receipt` -> `yield` -> `complete` -> commit. The advisory lock lasts
from `find` to the end of the first transaction, the row lock from `yield` to
the end of the second one. A transaction that has not committed has left
nothing in `receipt` or `effects`, so `Crash` and `YieldRaises` only free the
thread. A digest stands for everything `validate_receipt!` compares.

### ControlPlane

Every service call locks the deployment before it looks at it and runs in one
transaction, so a call is one step. What a controller reads *before* the
transaction (`expected_lock_version`) is a step of its own (`ReadForCancel`,
`ReadForRollback`), and any number of other calls may come in between.

A build belongs to one deployment and has at most one revision, so `dep[d]`
holds all three. `commands` are the rows of the outbox as contents only: a
callback is an action that quotes a command, may come late, several times and
in any order, and is fenced by `Current` (the deployment still has the version
the command expects). Services that make several transitions in one transaction
(`mark_ready`: seven) are one step that counts all of them in `lock_version`.

### LocalProvider

`job` is the program counter of the one provider process. Each HTTP request,
SQLite transaction, Docker call and replacement of the route file is a step, and
`Crash` may come between any two of them. `store` is SQLite: `received` and
`completed` are the two states of a row of `events`, a result remembers the
claim under which its callback was built (which stands for the `occurred_at`
and `checked_at` in its digest). `CallbackLost` covers a lost request, a server
that dies between the two receipt transactions, and a lost reply. Leases and
delays are abstract: a row that waits or that nobody works on becomes claimable
at some time (`Expire`).

### RowLocks

The level below `ControlPlane`: `tx[t]` is the call a database connection is in
(promote, rollback, cancel, the result of a build, the completion of its
cancellation), where it is, and what it read; `holds[t]` the row and advisory
locks it has. A transaction reads what is committed and shows its writes when
it commits. Promotions, rollbacks, cancellations and both callbacks of a build
run together over one alias. The advisory locks of outbox keys are left out:
two calls that publish one key hold another lock in common.
`DeadlockDetected` is PostgreSQL ending a transaction of a circle.

### Orchestrator

`events` are the outbox events the bridge has to deliver, in order; one that was
not finalized is delivered again, after the others. `wf[d]` is what a workflow
has done so far: Temporal replays it after a worker's death, and runs the signal
handlers that are due before it resumes. A signal that comes before the workflow
knows what to compare it with is queued and looked at again. `match` stands for
the identifiers (build operation, revision, digest) a signal is compared by.
`Activity` is the call into Rails, retried until it answers or its attempts are
used up.

### ApiIdempotency

A request reads its resource (`Arrive`), takes the advisory lock of its key
(`Lock`), looks for the record (`Find`), runs the operation (`Yield`, or
`Raise`) and commits the record with the change (`Commit`). `Advance` is the
resource moving on by other means, `Crash` the death of the server or the loss
of the answer, after which the client may send the request again.

### GitWebhooks

`provider`, `selected` and `gone` are what the provider says of the
installation and its repositories; `events` the deliveries it has sent, of which
each may come at any time and again. `Ingest` looks at the installation before
it locks it. The two Connect services ask the provider in one step and save in
another. Nothing in the application calls `GitWebhooks::Consume` (only specs
do); it does not look at the installation's status.

### RequestLimiter, AccountAccess

`attempts` are the rows in the order of their insertion. The limiter's
transaction takes the locks of email and address one after the other, counts the
window that begins fifteen minutes before the request was *received* and has no
end, and inserts; the clock goes on in between. In `AccountAccess` the two services of
`IdentityBootstrap` take different advisory locks; `LoginClaims` is the unique
row that lets a key be used once.

### BuildController, BuildPlans

The command task (`ct`), the reconciler (`rt`) and the HTTP handler
(`AcceptResult`) run in one event loop: what stands between two awaits is one
step, and every call to another service is a step that may be refused or be
executed with its answer lost (`Faults`); `faults` counts them and notes whether
one was other than the loss of a pod. `op` is the row in the store, and the
reconciler works on the copy it took. `job`, `secret`, `pods` are the cluster,
`log` and `stored` the evidence in the gateway, `cp` the control plane's build
and its two commands. `BuildPlans` follows one report from the project's files
through the controller's check to the check of the control plane. A line is a head of timestamps and a text, which `redact` has cut
in characters (`Cut`) before the first timestamp is put in front of it; both
receivers count the bytes of the whole (`Written`). Lengths and limits are scaled
down together, and go past each limit.

### ArtifactGateway, RegistryAuth

One lock covers a request of the gateway, but the store has no transactions:
`serving` is the request that holds the lock, and each put and delete is a step after
which the store may refuse or the process die. In `RegistryAuth` a call is one
SQL statement; a token is what was signed, and leaves the model when it expires.

### LegacyDeploy

`row` is the deployment, `box` its container, `queue` and `task` the arq jobs
that wait and the point each running one has reached, `probe` the monitor's
check, `seen` the copy of the row a job holds, `alias` and `file` the routing,
`cfg` the configuration a writer has read and not yet written, `sweep` the
cleanup job. None of them locks the row: an action is the stretch of a job
between two awaits that another actor can come between, and assigns whatever it
sets regardless of what the row has become.

### StorageLifecycle, ProjectSettings, Membership, RunnerRegistry

All four have requests or jobs that act on what they have loaded before.
`StorageLifecycle`: a directory is found by type and name, and remembers its
generation and whose data it holds. `ProjectSettings`: the JSON columns are
loaded, changed and written back as a whole; DNS checks are awaited in the
middle; the Traefik file is rewritten from the rows. `Membership`: what a form
validates is one step and what it writes another; the deletion jobs go through
teams and projects one transaction at a time. A guard is what the handler
checks: what only the page prevents (a disabled button) is sent all the same.
`RunnerRegistry`: both files are
read and pruned when a request constructs the service, and one is written back.
Flags (`Overlap`, `Patient`) restrict an instance to requests that do not overlap
where a property holds only then; section 5 says what happens otherwise. Domains
have no such flag: `raced` remembers the hostnames a domain got while it was being
verified, the one way around the check of their DNS records.

## 3. What the runs check

Sizes are distinct states. All the `.cfg` files say `CHECK_DEADLOCK FALSE`:
deployments, deliveries and faults are finite in an instance, and once all of
them are used up and every row is settled there is nothing left to do.

| Run | Question | Size |
|---|---|---|
| `delivery` | Do claims, expiries, replays, lost replies and retries let two holders settle one row or take back a confirmed outcome; do concurrent callbacks run a block twice or answer differently; does Rails know what the Git provider said? | 427 k (symmetric) |
| `control_plane` | Do cancellations, promotions, rollbacks and callbacks, with stale versions and in any order, make an alias serve something dead, or leave deployment, build, alias and commands in disagreement, and does a workflow know more than Rails has committed? | 418 k (symmetric) |
| `provider` | Do lost calls and crashes anywhere in the provider leave route file, SQLite, outbox and Rails in disagreement? | 863 k (symmetric) |
| `rails` | Can transactions wait for each other in a circle or commit on something stale, does a key execute two requests, do sign-in links exceed a budget, elect two owners or open two sessions? | 566 k |
| `build_path` | Do reconciler, handler, pods, gateway and registry agree about one result, when calls are refused or unanswered, the controller and its pods die, and the tools print too much? | 1.35 M |
| `fastapi_deploys` | Do the jobs that start, watch, conclude, roll back and sweep deployments, and those of storages, keep what they are for when they are repeated and fail half-way? | 125 k |
| `fastapi_settings` | What do forms that change environments, variables, domains, teams and the registry, one after the other, leave true? | 466 k |
| `variants` | And what is true when requests overlap, jobs are canceled or killed, a build makes an image, and deliveries come in any order? | 1.26 M |
| `progress` | Under the fairness below, is every command settled, every request answered, every cancellation and build brought to its end, every job done? | 19 k |
| `provider_callback`, `provider_cancel`, `provider_routing` | Three statements of the documentation the code does not keep (section 5) | violated |

### Runs of several parts

Components that share no state need no interleaving: a behaviour of one is a
behaviour of the whole in which the others wait. So all the runs but those of
the provider are made of parts: a variable `part`, chosen at first and never
changed, says which one runs, and the others stay in their initial state, where
their properties hold. The MC module of a run EXTENDS the components it checks,
so that a property of the run is the definition in the component's module, which
is also the one the theorems of section 4 state. What takes other constants
(requests that overlap, say) is an instance in `MCVariants`, whose one property
says for each part what is asked of it.

| Run | Parts |
|---|---|
| `delivery` | `outbox`: two rows, two workers; `consumer`: three threads, two events in two readings; `webhooks`: two repositories, deliveries taken in order |
| `control_plane` | `records`: two images and a Git deployment, two aliases, two clients; `workflow`: the Git deployment under its workflow, one client, two faults |
| `rails` | `locks`; `api`; `limiter`: two emails at one address; `access` |
| `build_path` | `build`: a static site with one fault of any kind; `plans`: every project, of lines and logs on either side of each limit; `sites` with one fault; `registry` |
| `fastapi_deploys` | `deployments`: two to production with a rollback; `storages`: two of one name whose users wait for their jobs |
| `fastapi_settings` | `page`: every form of a project; `domains`: two projects and two hostnames; `invitations`, roles and the removal of members; `leaving`: users leave teams or are deleted, with their teams and projects; `runners`: catalogs that change, overrides edited by hand |
| `variants` | deployments in `staging` (no way back is remembered) and an `unreliable` one (canceled, with jobs that fail and a process that dies); a storage whose jobs are `killed` while others run, a `volume` whose jobs fail; two `overlapping` requests to the environments of a project, `two projects` over one hostname at once, `two hosts` of one domain, which is edited and verified at once; `accepting` (one invitation twice, and revoked), `deleting` (a job while pages are used); `two admins` with crashes; a `web` image; two reconciliations in `retention`; webhooks in `any order` |
| `progress` | `outbox`, `consumer`, `plane`, `workflow`, `locks` (with rollbacks, which may deadlock), `api`, `limiter`, `build`, `gateway`, `legacy`, `canceled`, `storages`, `teams` |

### The properties

* **delivery.** `RowsConsistent`: the columns agree, tokens and request ids are on
  one row, a pending row has attempts left however retries and expiries mix, and
  what a worker was told stays true. `OneHolder`: never two workers whose
  finalization would settle one row. `AtLeastOnce`: refines `OutboxContract`.
  `ReceiptsConsistent`: the advisory lock does its job.
  `ExactlyOnce`: refines `ReceiptContract`. `WebhooksFollow`: with every delivery
  taken in order Rails knows what the provider says (`DeliveriesFollow`), and
  deliveries are applied once, the outcome of a message stands
  (`NothingIsRedone`).
* **control_plane.** `ServingConsistent`: aliases serve live deployments, a
  promoted one is served. `RecordsConsistent`: deployment, build and revision
  agree, a canceling deployment has a command that quotes its present version,
  routing commands are numbered without gap or repetition and the newest names
  the current revision. `RollbackIsOfVersionSeen`. `ServesOnlyLive`: refines
  `ServingContract`. `WorkflowsKeepUp`: the workflow is never ahead of Rails,
  reports ready for its own build only, passes on a cancellation it observed
  (`WorkflowFollows`), and does not go back (`NeverRegresses`).
* **provider.** `ProviderConsistent`: routes go to deployments that were ready,
  and the route file lags behind SQLite only while a command is open that
  rewrites it. `CommandsAnswered`: a published command was answered by a
  callback Rails consumed. `CanceledAfterRemoval`: when Rails records the
  cancellation, the container, its mappings and routes are gone.
* **rails.** `TransactionsSafe` (no circular wait, the environment URL leads to
  the one promoted deployment, no call fails for a reason its caller has no
  answer to), `RequestsSafe` and `ExecutedOnce` (idempotency keys),
  `SignInIsGuarded` (one owner, one session per key),
  `BudgetsHold` (in every window of fifteen minutes, wherever it begins).
* **build_path.** `PublishedIsEvidenced`, `OutcomeAgrees` (controller and
  control plane never settle a build differently), `ResultKept` (what is
  published is the one result that was accepted: `ArchiveIsResults`,
  `ResultStands`), `SettledHoldsNothing` (as long as no call failed, no sandbox,
  Secret or credential is left), `ReportsAccepted` (a plan installs what the
  project locked, `PlanIsUnambiguous`; a build is told to have succeeded just when
  there is an artifact and its log fits, to the byte and to the line,
  `OutcomeIsOfBuild`; only the last lines of an accepted report can keep the
  control plane from taking its event, `EventIsAccepted`), `SitesKept` (a site with a
  manifest is whole, `SitesAreWhole`, and retention spares what is young or
  declared active, `RecentIsKept`), `CredentialsHold`.
* **fastapi_deploys.** `ServedAnswered` (what is routed answered the monitor),
  `ConcludedOnce` (a status only advances, a conclusion stands),
  `NoneRunsInVain` (when no job is left, only what is served or can be rolled
  back to runs, `OnlyActiveRun`; nothing runs behind a failure,
  `FailedIsStopped`), `StoragesKept` (a storage holds its own
  data only, an active one has its directory, a container sees the directory
  that is there now, each in the scope in which the code keeps it:
  `StoragesConsistent`; and data goes only when somebody asked, `KeepsData`).
* **fastapi_settings.** `SettingsKept` (`EnvironmentsConsistent`, and
  `FormsKeepEachOther`: two forms that share a JSON column keep each other's
  half), `DomainsProven` (a hostname is active for one project, and what is routed
  was verified, but for a hostname that raced), `TeamsConsistent` (rows refer to
  rows there are, nobody is a member twice), `PeopleGoAsAsked`
  (`RevokedStaysOut`; `OnlyAskedGoes`; `OwnersStay`: a team loses its last owner
  only by the form that removes a member), `RunnersOffered` (`PresetHasRunner`,
  `ToggleIsExact`).
* **variants.** `VariantsConsistent`: of each part those of the properties above
  that hold although it goes beyond the scope of the others. That a storage holds
  its own data only, that users who are deleted while pages are in use leave
  owners behind, and that a conclusion stands when jobs fail are not among them:
  their scope is that of `fastapi_deploys` and `fastapi_settings`, and section 5
  says what happens outside of it.
* **progress.** `CommandsSettle`, `CancellationCompletes`, `BuildsConclude`,
  `JobsComplete`.

Every property of a passing run has a mutant in `PROJECT.json`: a plausible
mistake in a mapped definition that makes it fail under the same `.cfg`. The
mutated forms stand beside their originals in the modules, marked `Mutant:`.

### Bounds

| Bound | Value | Why it is enough |
|---|---|---|
| `MaxAttempts` | 2 (code: 5) | the limit is met by retry, by expiry and by both; two is the smallest number with a retry that is allowed and one that is not. The theorems hold for every value. |
| `Lease`, `BaseDelay`, `MaxRetryDelay` | 2, 1, 3 ticks (code: 5 min, 5 s, 5 min) | a lease can run out before and after every step of the worker; the doubled delay (1, 2, 4) passes the cap while `attempts` keeps growing by expiry |
| faults | 2 (`outbox`, `workflow`), 1 or 3 (`provider`), 1 elsewhere | a fault and the repair of it, hit by another one. In `provider` the constraint `Explored` allows one fault with two images, three with one image and an alias version of at most 1; the theorems of section 4 know no such bound |
| `MaxDeliveries`, `MaxCrashes` | 4 and 1 | three threads at one event and one more delivery after them |
| `MaxAliasVersion`, `MaxVersion` | 3 or 2 | version 3 has a promotion, a rollback and the way back (the same pair of revisions at another version) |
| `MaxClaims` | 3 (2 in the runs that show findings) | beyond `MaxAttempts`, as expired leases are claimed without limit in the code; a row whose claims are used up is left alone |
| two rows and workers; two image deployments and one from Git; two aliases; two API requests | | the smallest sets with an overtaking, a shared revision, and a promotion away from each of them |
| `Pods`, `Tries` of a build | 2 and 2 (static site), 2 and 1 (image) | a second pod with another result; a result that is sent again by the same pod |
| `CredIds` | 1..8 | more than can be in use at once: an instance never runs out |
| lengths in `plans` | lines of 3, 5, 6, 7 or 9 characters of 1 or 2 bytes, limit 8, timestamps 2 and 1; logs of 1 or 5 lines, of which 4 are kept and 3 or 4 taken; 2 lines of an event, evidence 14 | a line that fits, one that fits exactly with its timestamp (6), one that fits without (7), one that is cut (9), and the same in characters that are longer than a byte; a log below, at and over either limit; last lines that make an event fit and not |
| two deployments of one branch, one rollback | | one supersedes the other, and comes back |
| one request in `fastapi_settings`, two in `variants`, one or two forms each | | any sequence of forms; a check and a write of one around the write of the other |

Deployments, aliases and clients are interchangeable in `control_plane` and
`provider`, rows and workers in `delivery` (no action or property names one), so
these runs use symmetry; `progress`, which checks liveness, uses none.

The part `killed` has only killed jobs as faults: a reset that is refused or
fails before the storage was ever provisioned sets it active without a
directory, which is one of the departures of section 5.

### Fairness

Only `progress` assumes any. Its modules state what their processes do:

* `Outbox!Fairness`: time passes (`WF(Tick)`); each worker polls, works off the
  command it has and finalizes it (`WF` of `Claim`, `Work`, `Finalize`). The
  loops are endless and catch every exception, and compose restarts the
  processes (`restart: unless-stopped`). Nothing is assumed of the *outcome* of
  the work, of lost replies being retried (`ClaimAgain`), or of the workers
  being in time: a worker that outlives its lease is one of the bounded faults.
* `EventConsumer!ConsumerFairness`, `ApiIdempotency!Fairness`: a thread that can go on
  does (`WF(Step(r))`), without any order among those who wait for a lock.
* `ControlPlane!ProviderAnswers`, `OrchestratorAnswers`: a cancellation command
  is delivered and answered. Delivery is the outbox's promise as long as the
  command does not end up dead. That the *answer* comes is an assumption of this
  module alone: `Orchestrator` shows when the workflow does not give it
  (`CancellationIsCarriedOut` below).
* `LegacyDeploy!Fairness`, `StorageLifecycle!StorageFairness`, `Membership!MembersFairness`:
  arq runs the jobs it has, the monitor goes round, requests are answered,
  deployments grow older than their timeout.
* The bridge polls, the workflow's worker runs, Rails answers its activities,
  and the build controller stops what it is told to stop; nothing is assumed of
  users, builds or the runtime side.
* Both tasks of the build controller go on and its handler answers; a Job ends
  by its deadline at the latest.
* PostgreSQL looks for deadlocks after `deadlock_timeout`, and grants a lock to
  those who wait in their order (strong fairness of the lock steps). Strong
  fairness, too, says that a publication that is asked for again and again is
  at some time carried out, and that a Job that is looked at again and again is
  not found within its grace, nor the cluster silent, for ever.

## 4. What is proved

All theorems hold for arbitrary sets of rows, workers, deployments, aliases,
threads and so on and arbitrary bounds, under the named assumptions on the
constants (`OutboxAssumption`, `ControlPlaneAssumption`, `RowLocksAssumption`,
...), which TLC evaluates in every run. The inductive invariants stand at the
end of the modules they are about, in reach of TLC (`RInv` beside its proof).

**`DeliveryProofs`**, about `Outbox`, `EventConsumer` and `GitWebhooks`. `OutboxInvariant` proves `OutboxInv`, from which
`TypeCorrect`, `ClaimsConsistent`, `RetryBudgetKept`, `AckedOutcomesStand`,
`RowsAreConsistent`, `LeaseExclusion`, `TerminalRowsImmutable` and `Refinement`
(of `OutboxContract`) follow. `OneHolder` is not inductive: a claim must be known
to differ from the tokens of all earlier claims, wherever they still are. The
strengthening says that every token and request id has been issued
(`IssuedIds`), that a worker with a claim knows a real row (`WorkerShape`), and
that no two workers hold the same token or wait for the same reply, nor does
anybody hold the token of a claim whose reply is still missing (`TokensApart`);
the last part is what makes a replayed claim safe.

Of the consumer, `ConsumerInvariant` proves `ConsumerInv`: the locks
have one holder each (`LocksExclusive`), a thread past the row lock has
validated a receipt that is still processing (`RequestShape`), and a receipt is
completed exactly when its block was committed once (`ReceiptMeaning`).
`InsertAlone`, `ReceiptsAreConsistent`, `ReceiptsStable` and
`ConsumerRefinement` (of `ReceiptContract`) follow.

Of the webhooks, `GitInv` says what the deliveries that were sent tell of the
provider: the last one of a kind is what holds, and nothing comes after the
disconnection (`HistoryInv`). It needs no order of arrival, and neither does
`NothingDoneIsRedone` but for its last part. `FollowInv` is about deliveries that
are taken in order and one at a time: what Rails holds, or is about to save from
an answer of the provider, is what holds there, unless a delivery is to come
that will say so. `DeliveriesDoFollow` is its last instant, when none is to come,
and `WebhooksDoFollow` takes states and steps together.

**`ControlPlaneProofs`.** The argument rests on `StepKinds`: every step moves one
deployment that no alias routes to (`Moves`), points an alias at a promotable
deployment (`PromoteAlias`), or leaves both alone (`Stays`). Each callback and
request is sorted into one of the three once; then each invariant is preserved
by the three kinds. That a callback never touches a serving deployment is the
heart of it: a serving deployment is promoted or superseded, and the transition
table together with the version fence leaves no callback that applies to it
(`CallbackFacts`, `DeployVersions`). `CPInv` adds to the checked properties that
requests name what their operation needs (`RequestsNamed`), that commands to
deploy expect version 0 (`DeployVersions`) and that a new alias has no routing
command (`NewAliasUnrouted`). `ServingIsConsistent` and `RecordsAreConsistent`
are the invariants of the run; `RollbackOfVersionSeen` and `Refinement` (of
`ServingContract`) are step properties from the same invariant.

**`LocalProviderProofs`.** It extends `ControlPlaneProofs`. Every step of the
composition is a step of the control plane or leaves its variables alone
(`ProviderRefinesControlPlane`), so `CPInv` is inherited, and with it
`ProviderServesOnlyLive`: with the provider at work, too, an alias is routed to
live deployments only. `ProviderInvariant` proves `LPInv`, the rest of which is
about what the program counter may assume: each command has one row
(`BoxMatches`); the process holds the row it works on and follows the procedure
of its type (`JobFits`); a receipt names an earlier claim than the present one
until the callback of this claim is sent (`ClaimsBounded`), which is why a
callback that Rails has recorded is never taken for a new one; what a
cancellation removed stays away until Rails is told (`Removed`); what the store
maps or routes to is live or being canceled (`StoreKept`); and while the route
file differs from the store some open row will write it again (`Repairable`).
`ProviderStaysConsistent`, `CommandsStayAnswered` and
`CanceledOnlyAfterRemoval` follow, for any number of crashes and lost calls.

**`RailsProofs`**, about `RowLocks`, `ApiIdempotency`, `AccountAccess` and
`RequestLimiter`. `LocksInv` says of each
transaction what it holds and what of the records cannot have changed at the
step it is at (`PromotionFits`, `CancelFits`, `CallbackFits`). From it:
`ServedStaysPromoted`, `ErrorsAreExpected` (rollbacks included), and
`NoCircularWait` when nobody rolls back: the locks have an order (advisory,
alias, served deployment, other deployment, build) that promotions and
cancellations follow, and the two callbacks of a build that lock deployment and
build in opposite order are kept apart by the deployment's status. With
rollbacks a circle is possible; what is promised then is only that PostgreSQL
ends it (`progress`). `IdemInv`: one thread at a time is in the transaction of a
key and one holds the row of the resource (`LocksHeld`), and past the look-up its
key has no record (`RequestsShaped`). `TransactionsStaySafe` and
`RequestsStaySafe` are the invariants of the run, `KeysExecuteOnce` the
refinement of `ReceiptContract`. `AccessInv`, of sign-in: the election is settled
once, by the one thread that holds its lock and reads again under it what the
candidate is (`Elected`), and a key is in the hands of the one thread whose
insert claimed it (`KeysInHand`); so one owner is elected (`OneOwnerElected`) and
a key opens one session (`KeysOpenOneSession`). Who is blocked afterwards is
another matter (`OwnerStaysActive`, section 5): that lock is not `prepare`'s.
`LimiterInv`, of the budgets: a lock has one holder (`LocksApart`), and so what a
request counted is still so when it records its attempt (`CountStands`), however
the clock has gone on. That alone would not do: a window may begin anywhere, also
before the one that was counted. The counted one has no end, so any window with
the new attempt in it holds no more than that one; `BudgetsAreKept` follows for
any number of threads, addresses and attempts.

**`BuildPathProofs`**, about `BuildController`, `RegistryAuth`,
`ArtifactGateway` and `BuildPlans`. Nothing locks the row of a build: the reconciler
works for many calls on the copy it took, while the handler accepts a result,
the command task cancels, and the process may die and start again with all the
calls it made behind it. What keeps the two sides from settling a build
differently is the gateway: it never replaces a log, the log comes before the
event, and a log of giving up differs from any result. `BuildInvariant` proves
`BuildInv`: what is checkpointed is stored (`Evidenced`); the copy differs from
the row only in ways that do not matter (`SnapshotKnown`: a row that is being
given up may get its result meanwhile, a result never changes); how far the
reconciler has come says what is done (`PlaceKnown`); and what the control plane
was told says what the log is and what the row can still become
(`OutcomeKnown`). `PublishedHasEvidence`, `OutcomesAgree`, `ArchiveHolds` and
`ResultStays` (together `ResultIsKept`) follow for any number of faults of every
kind, crashes included.
`SettledHoldsNone` says what is left when a build is settled: nothing, as long as
no call has failed and the process has not died (`CallsSucceed`), although pods
may be lost or silent. (Otherwise a credential that was registered and whose
answer was lost stays until it expires.) `SmoothInv`, which holds as long,
says that the first dispatch is the only one
and comes before all else (`DispatchKnown`), and whose each credential is
(`HeldKnown`). The two invariants were checked with TLC before they were proved,
with images and static sites, `BuildInv` with up to two faults of any kind,
`SmoothInv` with three.

Of the registry, `RInv` ties a token to the row it was issued under (`Issued`);
`AccessDoesEnd`, `TokensAreScoped`, `UsersAreUnique` and `CredentialsDoHold`
follow.

Of the gateway, `SitesInv` says for the one request that is served what it has
read and put so far (`PublicationKnown`, `RetentionKnown`): a publication that
has come to a file has stored those before it, and one that found a manifest
has found its own. The rest is about what is stored when nobody works on it:
a manifest comes with its files (`ManifestsHold`), what is stored has a time,
and while nothing has broken off, deletions are in the record or will be when the
request ends (`DeletionsKnown`). `SitesStayWhole` and `RecentStaysKept` (together
`SitesAreKept`) follow for any sets of revisions, archives and reconciliations and any number of refusals
and deaths; and, as long as nothing breaks off, `RequestsAreFixed`.

Of the plans, `PlansInv` ties a plan to what `detect_plan` makes of the project
and a report to the plan and to what the tools printed (`FirstReport`). What is
refused once is refused for its size and stays too large, since the second report
has the same lines and one more (`GivenUp`), and what the controller then reads
off the pod is a failure (`FromOutside`). `ReportsAreAccepted` follows without a
hypothesis about lengths, for lines and characters of any size: it says of which
projects the report is accepted and of which it is not. Its arithmetic is one
fact: a text that is cut leaves no room for the timestamp, so a line fits exactly
when it fits uncut. That is why both constants are assumed to be what they are in
the code, one limit of characters and of bytes, and a timestamp that is not empty.

**`OrchestratorProofs`.** It extends `ControlPlaneProofs`, too:
`OrchestratorImplements` shows that bridge, workflow, activities and build
callbacks do nothing to the records but what the control plane's operations do,
so `CPInv` holds. `OrchestratorInvariant` proves `OrchInv`. Its core is that an
event tells what does not change any more (`EventKnown`): a Git deployment has
ten records until its release (`Life`), each of them later than the one before
(`Later` in the proofs), so what was true when an event was published is true
whenever it is delivered, and there is one event of each type for a deployment,
so that one delivered again is the one that was seen (`EventsKnown`). On top of
it `WorkflowKnown` says for each place of the workflow what it knows: of its
build once it waits for the release, that a release that was kept is of that
build (`ReleaseFits`), and that a cancellation it was answered for was passed on
(`PassedOn`). `WorkflowsNeverAhead`, `ReadyIsOfItsBuild`,
`RedeliveriesAreHarmless` and `CancellationsArePassedOn`, together
`WorkflowsFollow`, and `WorkflowsNeverRegress` follow (`WorkflowsDoKeepUp`), for any number of deployments, lost
finalizations, lost answers and failing activities; the run has one deployment
and two faults. (`OrchInv` was checked with TLC with two deployments, too.)

**`LegacyDeployProofs`**, about `LegacyDeploy` and `StorageLifecycle`.

* `ServedStaysAnswered` needs no assumption: whatever fails, dies, is canceled
  or rolled back, what is routed answered the monitor. `ServedInv` follows a
  deployment from the one place that queues `finalize` (the monitor, after its
  probe was answered) through aliases, configurations that were read and not yet
  written, and rollbacks.
* `ConclusionsStand`, `FailedStaysStopped` and `OnlyActiveRuns` assume
  `Reliable`: nobody cancels, no job fails, no process dies; `NoneDoRunInVain`
  takes the last two together. That is not
  modesty but the scope in which the code keeps them (section 5), and the
  scope of the parts `deployments` and `staging`. Within it everything may still
  overlap: worker and monitor write one row without a lock, deployments time
  out while they answer, sweeps look at aliases that are being moved.
  `PipelineInv` says for each status of a deployment what may be queued,
  running and known of it (`StageFits`), and that a sweep works on concluded
  deployments only; `OnlyActiveRuns` adds that what runs and is not active will
  be swept (`SupersededIsSwept`): a sweep is queued, has not looked yet, or a
  `finalize` that will queue one is under way. For each action one lemma shows
  that the deployment it acts on is left in a stage that fits, and one that the
  stages of all others are left alone.
* `StoragesInv`, of storages, has a part that always holds and three that hold
  in a scope. `StorageInv`: a name is that of one storage, and a job that runs has
  seen the name its storage still has (`NamesKnown`, `JobKnown`), although a job
  may be run again by arq, and its storage be removed and another one made under
  its name. `OwnInv` assumes `Patient` (people reset or delete a storage when none
  of its jobs is left): a storage then has one unfinished job (`OneJob`), so a
  directory that holds data is of the storage that wrote it, and a mount that is
  current of the one that may. `ActiveInv` assumes `JobsSucceed` and `Apart`
  (people wait, or there is one storage): a storage that is active, or about to
  be, has its directory. `MountInv` is about `OnlyVolumes`: a volume is never
  made anew, so its mounts are current until it is removed; a database is, and
  its containers keep what they mounted. `StoragesStayConsistent` takes the four
  together. `DataIsKept` assumes `Patient`, too: what a container wrote goes only
  in a step of a job of the storage that owns it, and that job was asked for.
  `StoragesAreKept` is both.

**`SettingsProofs`**, about `ProjectSettings`, `RunnerRegistry` and `Membership`.

* `SettingsInv` says that every list of environments that is stored, or that a
  request has loaded and will write back, begins with production and has no id
  and no active slug twice (`Writable`); so an update that is lost is a whole
  list that replaces another whole one, and `SlugsUnique` and `ProductionStays`
  need no order of requests. `VarsBound` and `HalvesAreKept` do: `LatestInv` says
  that the only request has loaded what is stored (`OneRequest`). `SettingsAreKept`
  is the three of them.
* `DomainsInv` says what a request knows of the domain it edits or verifies
  (`Knows`): the row is still that of its project and host, or removed, or its new
  hostname raced with a verification, and what the DNS said is recorded; and that
  an active domain was verified, or raced (`ActiveWasVerified`).
  `DomainsStayProven` follows, for edits, removals and verifications that overlap
  in any way. `raced` grows in an edit alone, which gives a domain another hostname
  while a request verifies it, or after a request has made active what the edit
  had loaded as pending; section 5 says what comes of that.
* `RunnersInv`: what a form holds is of its type, and when no other form is under
  way (`OneAtATime`) still what is stored (`HoldsFresh`). `PresetsHaveRunners`
  needs the shape only. `TogglesAreExact` assumes `OneAtATime` and
  `CatalogsEnableNothing`, which holds of the catalog in the repository: no entry
  of a catalog says `enabled`. Both are needed (section 5). The lemmas it rests on
  say what pruning leaves of an override and what setting one entry leaves of the
  others. `RunnersStayOffered` is both.
* `MembersInv`, of users, teams and invitations, assumes nothing about overlap:
  `MembershipTypeOK` (rows refer to rows there are), what a form still knows of
  the rows it checked (`RequestShaped`), and that an unfinished job that deletes
  a user is the only one for that user, who is marked (`JobShaped`).
  `RevokedStayOut` needs no invariant: the row of the invitation is looked at in
  the step that joins.
* `TeamsAreSound`, `OnlyAskedGo` and `OwnersRemain` (with `RevokedStayOut`,
  `PeopleDoGoAsAsked`) rest on `~Overlap` where they speak of second memberships,
  of owners and of what is deleted, the scope in which the code keeps it
  (section 5). No theorem says that a team has an owner: the form that removes a
  member does not ask (`TeamHasOwner`, section 5). What `OwnersRemain` says is that nothing
  else takes the last one away. `AloneInv` says that one request or job is at work (`OneAtWork`), that what a
  form checked is still so (`ChecksHold`), that an open invitation is the only
  one of somebody who is no member (`InvitesFit`), and that the job that deletes
  a user has on its list every team of which they are the only owner, and no
  other one (`JobFits`).

**What the theorems assume.** Nothing but the assumptions on the constants,
where it is not said otherwise: `Reliable`, `Patient`, `Apart` and `JobsSucceed`,
`OnlyVolumes`, `OneRequest`, `~Overlap`, `OneAtATime`, `CatalogsEnableNothing` and
`InOrder` are the scopes in which the code keeps what is claimed, most of them
constants of the module. Where a property is conditional, its definition says so,
and run and theorem are about the same formula. All but `Apart` and
`CatalogsEnableNothing`, which hold in every part, are true in one part and false
in another one; a part outside of a scope checks what does not depend on it, and
section 5 says what becomes of the rest.

**Only model-checked.** Liveness: TLAPS has no rules for fairness that these
proofs could use, so `CommandsSettle`, `CancellationCompletes`, `BuildsConclude`
and `JobsComplete` stay with TLC. Every invariant, every action property and every
refinement of the passing runs is a theorem of its component, stated of the same
definition. `VariantsConsistent` is no property of one component; what it says of
each of them is what the theorems say for all constants. What the three findings
of section 5 state is false, and has no proof.

## 5. Findings

Three statements of `src/docs/product/work-packets/wp-010-local-development-provider.md`
do not hold. Each has a run that ends in a counterexample.

1. `provider_callback` - "A replay returns the same callback identity". The
   command is executed again after the reply to its callback was lost; the event
   id is the same but `occurred_at` is not, so the digest differs, Rails answers
   Conflict, the loop only logs it, and the command is claimed and refused again
   at every lease.
2. `provider_cancel` - "cancellation removes the non-serving runtime". A
   deployment command that waits for its retry while the cancellation is handled
   is claimed afterwards and creates the container once more; all commands are
   settled and the container stays.
3. `provider_routing` - "Rails remains authoritative for ... Alias pointers". A
   routing command whose claim was lost is handled after a newer one of the same
   alias; `RouteWriter.apply` does not look at the version it carries, so the
   older target wins.

Beyond these, some definitions state what one would expect and the code does not
do. They are kept in the modules because they delimit what does hold; each
is false in the instance named.

| Definition | Instance | What happens |
|---|---|---|
| `LocalProvider!ReadyIsRunning` | that of `provider_cancel` | a deployment command that is repeated after its callback was consumed removes the container when its probe fails, and Rails takes no notice of a ready deployment that failed |
| `Orchestrator!CancellationIsCarriedOut` | `progress`, `workflow` | a cancellation comes while the workflow acknowledges or prepares: the activity answers that the version is stale, and the workflow closes without it |
| `RowLocks!NoDeadlock` | `progress`, `locks` | a rollback locks the alias row before the advisory lock, a promotion the other way round |
| `AccountAccess!OwnerStaysActive` | `rails`, `access` | a second link the owner asked for is decided on what was read before his election, and blocks him |
| `ArtifactGateway!RequestIsFixed` | `build_path`, `sites` | a reconciliation that breaks off before its record is written can be continued with another request under the same id (in `variants`, `retention`, where nothing breaks off, the definition holds) |
| `LegacyDeploy!ServedIsKept` | `fastapi_deploys`: `deployments`; `variants`: `staging`, `unreliable` | the sweep reads active ids and inactive rows in two statements and removes later; what is active by then, by a rollback say, loses its container |
| `LegacyDeploy!CanceledIsStopped` | `variants`: `unreliable` | the stop that a cancellation tries fails, which is only logged, and nothing comes back to it |
| `LegacyDeploy!FailedIsStopped` without `Reliable` | `variants`: `unreliable` | `start` fails after it started the container and before it recorded it: `fail` has no id to stop |
| `LegacyDeploy!ConcludedOnce` without `Reliable` | `variants`: `unreliable` | a cancellation and a failure that loaded the row before the other concluded it both conclude it |
| `LegacyDeploy!RollbackMovesDomains` | `fastapi_deploys`: `deployments` | a rollback moves the environment's hostname and not the alias its domains are served through |
| `StorageLifecycle!OwnDataOnly` without `Patient` | two storages of one name | a page loaded before the deletion sets the storage resetting; a container that starts between the removal of the directory and of the row mounts a new one, and what it writes is found by the next storage of the name |
| `StorageLifecycle!ActiveHasDirectory` without `Apart` | the same | a storage is deleted from two pages: the second job, which has loaded the row, removes the directory of the next storage of the name |
| `StorageLifecycle!DeletedStaysDeleted` | `variants`: `killed` | a form whose page was loaded before the deletion sets the storage resetting |
| `ProjectSettings!DeletedStaysDeleted` | `variants`: `overlapping` | an environment that another request deleted is written back |
| `ProjectSettings!ServedWasVerified` without `raced` | `variants`: `two hosts` | a domain gets another hostname while its records are checked, or is verified while the form that edits it is being checked: a hostname nobody verified becomes active and is routed (`project.py:1956-2001` commits the status without a look at the hostname) |
| `ProjectSettings!DisabledIsNotServed` | `variants`: `two projects` | a project whose hostname is verified by another one keeps its route: only the file of the other project is rewritten |
| `RunnerRegistry!ToggleIsExact` with overlapping forms | `variants`: `two admins` | each form writes the whole file from what it read: one of two toggles is lost |
| `RunnerRegistry!ToggleIsExact` without `CatalogsEnableNothing` | a catalog that enables a runner itself | pruning drops `"enabled": false` from every override, and what is left of it is empty and dropped when the file is read: such a runner cannot be disabled |
| `Membership!OneMembership` | `variants`: `accepting` | one invitation that is accepted twice at once makes two memberships |
| `Membership!TeamHasOwner` | `fastapi_settings`: `invitations` | "There must be at least one owner." (`forms/team.py:218`, of the form for roles; leaving a team is refused for the same reason, `user.py:291`). The handler that removes a member deletes whom it finds (`routers/team.py:1032-1062`), and only the page disables the button beside the only owner: one request, of an admin or of the owner, leaves a team that nobody may delete, and that nobody manages unless it has an admin |
| `BuildPlans!ContractReportIsAccepted` | `build_path`: `plans` | in the contract (`contracts/provider/v1/build-controller.schema.json:108-112`) and for `redact` 4096 is a number of characters, for the parser (`contracts.py:367`) of bytes: a line the contract allows is refused, and the build, which has its artifact, is reported as failed |
| `Membership!OwnersStay` with `Overlap` | two users, changes of roles, one deletion | the role of an owner is changed, or an owner deleted, because there is another one, who goes meanwhile: two owners whose roles are changed at once are each the other's remaining owner |
| `Membership!OnlyAskedGoes` with `Overlap` | the same | a team got another owner after the job that deletes a user had put it on its list, and is deleted |

Two more are what `ReportsAccepted` says, read the other way round. `redact`
leaves 4096 characters of a line *before* 25 are put in front of it, so a line
that is cut is never accepted, and neither is one of 4072 characters: a build with
its artifact is reported as failed because a tool printed a long line
(`~LineFits`; likewise `~LogFits` when `BUILD_MAX_LOG_LINES` is below the 1000 lines
the worker keeps). And when the last fifty lines of a report that was accepted
have more than 32 kB, the control plane refuses the event, the controller sends
the same one again at every pass, and the build ends only by being canceled
(`~EndFits`).

`GitWebhooks::Consume` does not look at the status of the installation.

## 6. Not modelled

* **Control plane.** `Builds::Fail` with `retryable: true` has no caller.
  Notification events that nothing in the repository consumes are left out.
* **Local provider.** Capture and redaction of logs, request signatures, a
  container with a foreign identity; one provider process (compose runs one).
* **Orchestrator.** Messages that break the contract, and the 30 days after
  which Temporal times a workflow out.
* **Build controller, gateway, registry.** The limits on the size and number of
  the files of an archive, HMAC authentication, redaction
  patterns, the provenance statement, Job manifests, media types and cache
  headers, cryptography, the registry itself.
* **Reports of a build.** The lines of a log are as long as each other, but for
  those of the worker; JSON escapes are not counted in the size of an event, nor
  the other fields of its evidence; the 65536 bytes to which the log of a pod is
  cut change no verdict; both pods of a Job end alike.
* **Git webhooks.** Signatures, the renaming of a repository, the listing.
* **Authentication.** Sign-in with GitHub and Google, the sessions of Rodauth
  once they are open, and their revocation.
* **FastAPI application.** The deletion of a project with its containers, the
  detection of presets, changes of email, OAuth exchanges and their revocation, the allowlist, event streams,
  HTML and forms that only rename something.
* **Steps that are merged.** `LegacyDeploy!RollbackSwap` takes the read of the
  alias and the commit of the swap (`services/deployment.py:583-594`) together,
  `FailLoad` the load of the row and the write that follows it
  (`tasks/deployment.py:464-485`). `RunnerRegistry!Usable` asks for a category a
  preset and its runner share; the code also keeps a preset without one, and every
  entry of the repository's catalog has one.
* **Configurations, resource creation, logs, pages, operations.** Data merging,
  single inserts, read paths and deployment files: no behaviour over time that a
  model would add to.

## 7. Plan

Done: the modules of section 2 with their runs, and the proofs of section 4.

What would come next is more of the code rather than more about these modules:
the deletion of a project with its containers (`app/workers/tasks/project.py`),
the sessions of Rodauth and their revocation, and the allowlist.
