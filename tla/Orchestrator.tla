----------------------------- MODULE Orchestrator -----------------------------
(***************************************************************************)
(* The durable workflow of each Git deployment: the bridge that claims     *)
(* events from the outbox and starts or signals Temporal workflows, the    *)
(* DeploymentWorkflow, and the activities by which it calls back into the  *)
(* control plane, of which the module ControlPlane is the other side.      *)
(*                                                                         *)
(* Temporal runs the signal handlers that are due before it resumes the    *)
(* workflow, replays it after a worker's death and runs an activity until  *)
(* it answers or its attempts are used up, so a workflow is what it has    *)
(* done so far.  Leases and retry delays of the outbox are in Outbox; here *)
(* an event that is not finalized is delivered again, after the others.    *)
(***************************************************************************)
EXTENDS ControlPlane

CONSTANTS
    MaxFaults,      \* bound on lost finalizations, delays and spent activities
    Releases        \* what the runtime side reports: "ready", "failed", "canceled"

OrchestratorAssumption ==
    /\ OciDeployments = {}
    /\ Releases \subseteq {"ready", "failed", "canceled"}
    /\ MaxFaults \in Nat

VARIABLES
    events,     \* outbox events the bridge has yet to finalize, in order
    released,   \* the deployments of which a release was reported
    wf,         \* workflow executions
    faults      \* how much of MaxFaults is spent

orchVars == <<cpVars, events, released, wf, faults>>

Slots == {"build", "release", "cancellation"}

\* An outbox event and the signal made of it; match: it names the build of the
\* workflow's operation, or the revision and digest the build has.
Event == [type : {"start"} \cup Slots, id : Deployments, version : Nat,
          status : {"none", "completed"} \cup {"ready", "failed", "canceled"},
          match : BOOLEAN]

NoEvent == [type |-> "none", id |-> "none", version |-> 0, status |-> "none", match |-> TRUE]

Workflow ==
    [pc : {"none", "acknowledge", "prepare", "awaiting_build", "awaiting_release", "canceling",
           "closed"},
     reply : {"none", "ok", "stale", "error"},      \* of the running activity
     replied : Nat,                                 \* the version it returned
     version : Nat, buildVersion : Nat, known : BOOLEAN, artifact : BOOLEAN,
     signals : [Slots -> Event \cup {NoEvent}], seen : SUBSET Event, conflict : BOOLEAN,
     result : {"none", "stale_observed", "failed_observed", "ready_observed",
               "canceled_observed"}]

NoWorkflow ==
    [pc |-> "none", reply |-> "none", replied |-> 0, version |-> 0, buildVersion |-> 0,
     known |-> FALSE, artifact |-> FALSE, signals |-> [s \in Slots |-> NoEvent], seen |-> {},
     conflict |-> FALSE, result |-> "none"]

OrchTypeOK ==
    /\ CPTypeOK
    /\ events \in Seq(Event)
    /\ released \subseteq Deployments
    /\ wf \in [Deployments -> Workflow]
    /\ faults \in 0..MaxFaults

OrchInit ==
    /\ CPInit
    /\ events = <<>>
    /\ released = {}
    /\ wf = [d \in Deployments |-> NoWorkflow]
    /\ faults = 0

Fault == faults < MaxFaults /\ faults' = faults + 1
-----------------------------------------------------------------------------
\* What Rails publishes for the bridge.
StartEvent(c) == [NoEvent EXCEPT !.type = "start", !.id = c.id, !.version = c.version]
CancellationEvent(c) == [StartEvent(c) EXCEPT !.type = "cancellation"]

\* Mutant: the signal quotes the version the build was started at.
BuildEventOfStart(d, status) ==
    [NoEvent EXCEPT !.type = "build", !.id = d, !.version = dep[d].version + 2, !.status = status]

\* BuildEvents::Consume#publish_signal, after the transition.
BuildEvent(d, status) ==
    [NoEvent EXCEPT !.type = "build", !.id = d, !.version = dep[d].version + 1, !.status = status]

\* A user creates and cancels deployments.
UserStep ==
    /\ \/ \E d \in Deployments : Create(d)
       \/ \E c \in Clients : Cancel(c) \/ \E d \in Deployments : ReadForCancel(c, d)
    /\ events' = IF commands' = commands THEN events
                 ELSE LET c == CHOOSE x \in commands' : x \notin commands IN
                      Append(events, IF c.type = "deploy" THEN StartEvent(c)
                                     ELSE CancellationEvent(c))
    /\ UNCHANGED <<released, wf, faults>>

\* The build controller reports a result, or that it has stopped the build.
BuildStep ==
    \E c \in commands :
        /\ \/ BuildCompleted(c) /\ events' = Append(events, BuildEvent(c.id, "completed"))
           \/ BuildFailed(c) /\ events' = Append(events, BuildEvent(c.id, "failed"))
           \/ CompleteBuildCancellation(c) /\ UNCHANGED events
        /\ UNCHANGED <<released, wf, faults>>

\* The runtime side reports once on the revision of a deployment; its report may
\* be of another revision or of an earlier version.
ReleaseStep(d) ==
    /\ dep[d].revision # "none"
    /\ d \notin released
    /\ released' = released \cup {d}
    /\ \E status \in Releases, match \in BOOLEAN, v \in {0, dep[d].version} :
         events' = Append(events, [type |-> "release", id |-> d, version |-> v,
                                   status |-> status, match |-> match])
    /\ UNCHANGED <<cpVars, wf, faults>>
-----------------------------------------------------------------------------
\* minimum_version_for
MinimumVersion(w, slot) ==
    IF slot = "release" /\ w.signals["build"] # NoEvent THEN w.signals["build"].version
    ELSE IF slot = "build" /\ w.known THEN w.buildVersion
    ELSE 0

\* signal_identity_matches?: what is not known yet cannot be compared.
IdentityMatches(w, e) ==
    CASE e.type = "build"   -> ~w.known \/ e.match
      [] e.type = "release" -> e.status # "ready" \/ ~(w.known /\ w.artifact) \/ e.match
      [] OTHER              -> TRUE

Latest(a, b) == IF a > b THEN a ELSE b

\* Mutant: a signal that was seen is taken for another one.
AcceptedAgain(w, e) ==
    IF e.version < MinimumVersion(w, e.type) \/ ~IdentityMatches(w, e) THEN w
    ELSE IF w.signals[e.type] # NoEvent THEN [w EXCEPT !.conflict = TRUE]
    ELSE [w EXCEPT !.version = Latest(@, e.version), !.seen = @ \cup {e},
                   !.signals[e.type] = e]

\* Mutant: the expected version is the one of the last signal.
AcceptedVersion(w, e) ==
    IF e \in w.seen \/ e.version < MinimumVersion(w, e.type) \/ ~IdentityMatches(w, e) THEN w
    ELSE IF w.signals[e.type] # NoEvent THEN [w EXCEPT !.conflict = TRUE]
    ELSE [w EXCEPT !.version = e.version, !.seen = @ \cup {e}, !.signals[e.type] = e]

\* accept_signal
Accepted(w, e) ==
    IF e \in w.seen \/ e.version < MinimumVersion(w, e.type) \/ ~IdentityMatches(w, e) THEN w
    ELSE IF w.signals[e.type] # NoEvent THEN [w EXCEPT !.conflict = TRUE]
    ELSE [w EXCEPT !.version = Latest(@, e.version), !.seen = @ \cup {e},
                   !.signals[e.type] = e]

\* start_workflow rejects a duplicate and keeps the execution there is.
Started(w, e) ==
    IF w.pc = "none" THEN [NoWorkflow EXCEPT !.pc = "acknowledge", !.version = e.version] ELSE w

\* dispatch; a signal to a workflow that is closed is done with.
Dispatched(w, e) ==
    IF e.type = "start" THEN Started(w, e)
    ELSE IF w.pc = "closed" THEN w
    ELSE Accepted(w, e)

\* Bridge.run_once for the first event: it is finalized, or goes behind the
\* others when the workflow to signal does not exist (yet), when the outcome is
\* unknown or the bridge dies, after the workflow was reached or before.
Deliver ==
    LET e == Head(events)
        reached == wf' = [wf EXCEPT ![e.id] = Dispatched(@, e)]
        again == events' = Append(Tail(events), e) IN
    /\ events # <<>>
    /\ IF e.type # "start" /\ wf[e.id].pc = "none"
       THEN again /\ UNCHANGED <<wf, faults>>
       ELSE \/ reached /\ events' = Tail(events) /\ UNCHANGED faults
            \/ reached /\ again /\ Fault
            \/ again /\ Fault /\ UNCHANGED wf
    /\ UNCHANGED <<cpVars, released>>
-----------------------------------------------------------------------------
Becomes(d, w) == wf' = [wf EXCEPT ![d] = w]
Asks(d, pc) == wf[d].pc = pc /\ wf[d].reply = "none"
Replies(d, reply, v) == Becomes(d, [wf[d] EXCEPT !.reply = reply, !.replied = v])

\* Mutant: the workflow quotes the version it expects the build to start from.
DeployOfPrepared(d) == DeployCommand(d, 3)

\* The operations the activities ask for.
DeployOf(d) == DeployCommand(d, 0)
CancelOf(d) == CancelCommand(d, wf[d].signals["cancellation"].version)

\* AcknowledgeWorkflow: OrchestratorOperationsController#create compares.
Acknowledge(d) ==
    /\ Asks(d, "acknowledge")
    /\ Replies(d, IF Current(DeployOf(d)) THEN "ok" ELSE "stale", dep[d].version)
    /\ UNCHANGED <<cpVars, events, released, faults>>

\* The build was prepared by an earlier attempt of which the answer was lost.
PreparedBefore(d) == dep[d].build # "none"

\* PrepareBuild: the answer may be lost, then it is asked again; a stale
\* deployment is refused until the attempts are used up.
PrepareBuild(d) ==
    /\ Asks(d, "prepare")
    /\ IF PreparedBefore(d)
       THEN Replies(d, "ok", 3) /\ UNCHANGED <<cpVars, faults>>
       ELSE IF Current(DeployOf(d))
       THEN /\ Prepare(DeployOf(d))
            /\ \/ Replies(d, "ok", 3) /\ UNCHANGED faults
               \/ Fault /\ UNCHANGED wf
       ELSE Replies(d, "error", 0) /\ UNCHANGED <<cpVars, faults>>
    /\ UNCHANGED <<events, released>>

\* RequestBuildCancellation: a deployment that is canceled already is answered.
RequestCancellation(d) ==
    /\ Asks(d, "canceling")
    /\ IF dep[d].status = "canceled"
       THEN Replies(d, "ok", dep[d].version) /\ UNCHANGED <<cpVars, faults>>
       ELSE IF Current(CancelOf(d))
       THEN /\ RequestBuildCancellation(CancelOf(d))
            /\ \/ Replies(d, "ok", dep'[d].version) /\ UNCHANGED faults
               \/ Fault /\ UNCHANGED wf
       ELSE Replies(d, "error", 0) /\ UNCHANGED <<cpVars, faults>>
    /\ UNCHANGED <<events, released>>

\* Rails is down until the attempts of the running activity are used up.
ActivityFails(d) ==
    /\ \E pc \in {"acknowledge", "prepare", "canceling"} : Asks(d, pc)
    /\ Fault
    /\ Replies(d, "error", 0)
    /\ UNCHANGED <<cpVars, events, released>>
-----------------------------------------------------------------------------
Closed(w, result) == [w EXCEPT !.pc = "closed", !.reply = "none", !.result = result]

\* Mutant: a cancellation waits for the build and the release.
TerminalConflict(w) == w.conflict

\* terminal_signal?, but for DTOs that are invalid.
Terminal(w) == w.conflict \/ w.signals["cancellation"] # NoEvent

\* Mutant: the workflow closes without telling Rails.
EndingAtOnce(w) ==
    Closed(w, IF w.conflict THEN "failed_observed" ELSE "canceled_observed")

\* terminal_result
Ending(w) ==
    IF w.signals["cancellation"] # NoEvent
    THEN [w EXCEPT !.pc = "canceling", !.reply = "none"]
    ELSE Closed(w, "failed_observed")

\* Goes to pc unless a terminal signal was accepted.
Unless(w, pc) == IF Terminal(w) THEN Ending(w) ELSE [w EXCEPT !.pc = pc, !.reply = "none"]

\* Mutant: a signal that came early is not looked at again.
ValidatedNever(w, slot) == w

\* validate_queued_signal
Validated(w, slot) ==
    LET e == w.signals[slot] IN
    IF e = NoEvent \/ (e.version >= MinimumVersion(w, slot) /\ IdentityMatches(w, e)) THEN w
    ELSE [w EXCEPT !.signals[slot] = NoEvent]

\* An activity was answered: the workflow goes on, or closes because it was
\* stale or the activity failed.
Resume(d) ==
    LET w == wf[d]
        latest == [w EXCEPT !.version = Latest(@, w.replied)] IN
    /\ w.reply # "none"
    /\ Becomes(d,
         IF w.reply = "error" THEN Closed(w, "failed_observed")
         ELSE IF w.reply = "stale" THEN Closed(latest, "stale_observed")
         ELSE IF w.pc = "acknowledge" THEN Unless(w, "prepare")
         ELSE IF w.pc = "canceling" THEN Closed(latest, "canceled_observed")
         ELSE Unless(Validated([latest EXCEPT !.buildVersion = w.replied, !.known = TRUE],
                               "build"), "awaiting_build"))
    /\ UNCHANGED <<cpVars, events, released, faults>>

\* The first wait is over.
BuildObserved(d) ==
    LET w == wf[d] IN
    /\ w.pc = "awaiting_build"
    /\ Terminal(w) \/ w.signals["build"] # NoEvent
    /\ Becomes(d,
         IF Terminal(w) THEN Ending(w)
         ELSE IF w.signals["build"].status = "failed" THEN Closed(w, "failed_observed")
         ELSE [Validated([w EXCEPT !.artifact = TRUE], "release")
                 EXCEPT !.pc = "awaiting_release"])
    /\ UNCHANGED <<cpVars, events, released, faults>>

\* And the second.
ReleaseObserved(d) ==
    LET w == wf[d] IN
    /\ w.pc = "awaiting_release"
    /\ Terminal(w) \/ w.signals["release"] # NoEvent
    /\ Becomes(d,
         IF Terminal(w) THEN Ending(w)
         ELSE Closed(w, CASE w.signals["release"].status = "ready"  -> "ready_observed"
                          [] w.signals["release"].status = "failed" -> "failed_observed"
                          [] OTHER                                  -> "canceled_observed"))
    /\ UNCHANGED <<cpVars, events, released, faults>>

Activity(d) == Acknowledge(d) \/ PrepareBuild(d) \/ RequestCancellation(d)
WorkflowStep(d) == Resume(d) \/ BuildObserved(d) \/ ReleaseObserved(d)

OrchNext ==
    \/ UserStep \/ BuildStep \/ Deliver
    \/ \E d \in Deployments :
          ReleaseStep(d) \/ Activity(d) \/ ActivityFails(d) \/ WorkflowStep(d)

OrchSpec == OrchInit /\ [][OrchNext]_orchVars

\* The build controller has stopped what it was told to stop.
BuildIsStopped(d) == BuildStep /\ dep[d].status = "canceling" /\ dep'[d].status = "canceled"
-----------------------------------------------------------------------------
(***************************************************************************)
(* Properties.                                                             *)
(***************************************************************************)
\* "Stale callbacks are acknowledged without regressing state": whatever order
\* signals and answers come in, the version a workflow expects never goes back,
\* and a closed workflow stays as it is.
NeverRegresses ==
    \A d \in Deployments :
        /\ wf'[d].version >= wf[d].version
        /\ wf[d].pc = "closed" => wf'[d] = wf[d]

\* The workflow knows nothing that Rails has not committed: its version is one
\* the deployment has had.
NeverAhead == \A d \in Deployments : wf[d].version <= dep[d].version

\* A workflow reports a deployment ready only when its own build completed and
\* the release is of the revision and version of that build, also when the
\* release was signalled before the workflow knew either.
ReadyIsOfThisBuild ==
    \A d \in Deployments :
        wf[d].result = "ready_observed" =>
            /\ dep[d].build = "succeeded"
            /\ wf[d].signals["release"].match
            /\ wf[d].signals["release"].version >= wf[d].signals["build"].version

\* An event that is delivered again is never taken for a conflicting one, and
\* ends no workflow.
RedeliveryIsHarmless == \A d \in Deployments : ~wf[d].conflict

\* A workflow that says it observed a user's cancellation has passed it on: the
\* deployment is canceled or its build controller is told to stop.
CanceledIsPassedOn ==
    \A d \in Deployments :
        wf[d].result = "canceled_observed" /\ wf[d].signals["cancellation"] # NoEvent =>
            \/ dep[d].status = "canceled"
            \/ BuildCancelCommand(d, dep[d].version) \in commands

\* In whatever order and how often signals come, a workflow knows nothing that
\* Rails has not committed, reports ready for its own build only, takes no signal
\* for a conflicting one, and does not drop a cancellation it observed
\* (workflows/deployment_workflow.rb, lrail_orchestrator/bridge.rb).
WorkflowFollows ==
    /\ NeverAhead /\ ReadyIsOfThisBuild
    /\ RedeliveryIsHarmless /\ CanceledIsPassedOn

\* ... at every moment, and no step takes a workflow back.
WorkflowsKeepUp == [](OrchTypeOK /\ WorkflowFollows) /\ [][NeverRegresses]_orchVars

\* A cancellation that finds the workflow waiting for the build or the release
\* reaches the end.
WaitingIsCanceled ==
    \A d \in Deployments :
        (/\ dep[d].status = "canceling"
         /\ wf[d].pc \in {"awaiting_build", "awaiting_release"}
         /\ wf[d].signals["release"] = NoEvent /\ wf[d].signals["build"].status # "failed"
         /\ d \notin released)
            ~> (dep[d].status = "canceled" \/ d \in released)

\* What the documentation promises and the code does not keep: a cancellation
\* is carried out, whenever it comes.
CancellationIsCarriedOut ==
    \A d \in Deployments : (dep[d].status = "canceling") ~> (dep[d].status = "canceled")
-----------------------------------------------------------------------------
(***************************************************************************)
(* The inductive invariant.                                                *)
(***************************************************************************)
Waiting == {events[i] : i \in DOMAIN events}

\* What was sent about a deployment and the workflow was or will be told.
Known(d) == {e \in Waiting \cup wf[d].seen : e.id = d}

\* The records a Git deployment has until its release, one after the other.
Life(r) ==
    /\ \/ r.status \in {"none", "created"} /\ r.version = 0 /\ r.build = "none"
       \/ r.status = "building" /\ r.version = 3 /\ r.build = "running"
       \/ r.status = "scanning" /\ r.version = 4 /\ r.build = "succeeded"
       \/ r.status = "failed" /\ r.version = 4 /\ r.build = "failed"
       \/ r.status = "canceling" /\ r.version = 1 /\ r.build = "none"
       \/ r.status = "canceling" /\ r.version = 4 /\ r.build = "running"
       \/ r.status = "canceling" /\ r.version = 5 /\ r.build = "succeeded"
       \/ r.status = "canceled" /\ r.version = 2 /\ r.build = "none"
       \/ r.status = "canceled" /\ r.version = 5 /\ r.build = "canceled"
       \/ r.status = "canceled" /\ r.version = 6 /\ r.build = "succeeded"
    /\ r.revision = IF r.build = "succeeded" THEN "candidate" ELSE "none"

LivesKnown == \A d \in Deployments : Life(dep[d])

\* What the outbox holds was published at some point of that life.
CommandsKnown ==
    /\ \A d \in Deployments : dep[d].status # "none" => DeployCommand(d, 0) \in commands
    /\ \A c \in commands :
          /\ c.type # "route"
          /\ c.type = "build" => c.version = 3
          /\ c.type = "build_cancel" => dep[c.id].status \in {"canceling", "canceled"}

\* An event tells what is so and does not change any more.
EventKnown(e) ==
    /\ e.id \in Deployments /\ dep[e.id].status # "none"
    /\ e.version <= dep[e.id].version
    /\ e.type = "start" => e.version = 0
    /\ e.type = "build" => /\ e.status \in {"completed", "failed"}
                           /\ dep[e.id].build = IF e.status = "completed" THEN "succeeded"
                                                ELSE "failed"
    /\ e.type = "release" => e.id \in released
    /\ e.type = "cancellation" => /\ CancelCommand(e.id, e.version) \in commands
                                  /\ dep[e.id].status \in {"canceling", "canceled"}

\* There is one event of each type, however often it is delivered.
EventsKnown ==
    /\ \A e \in Waiting : EventKnown(e)
    /\ \A d \in Deployments :
          /\ \A e \in wf[d].seen : e.id = d /\ e.type \in Slots /\ EventKnown(e)
          /\ \A e, f \in Known(d) : e.type = f.type => e = f

\* The cancellation that d's workflow waits for or has reported.
PassedOn(d) == \/ dep[d].status = "canceled"
               \/ BuildCancelCommand(d, dep[d].version) \in commands

\* The release was reported of the build that was completed.
ReleaseFits(w) ==
    /\ w.signals["release"].version >= w.signals["build"].version
    /\ w.signals["release"].status = "ready" => w.signals["release"].match

\* How far a workflow has come says what it knows.
WorkflowKnown(d, w) ==
    /\ w.pc = "none" => w.version = 0
    /\ w.pc # "none" => dep[d].status # "none"
    /\ w.version <= dep[d].version /\ w.replied <= dep[d].version
    /\ ~w.conflict
    /\ \A s \in Slots : w.signals[s] # NoEvent => w.signals[s] \in w.seen /\ w.signals[s].type = s
    /\ w.reply # "none" => w.pc \in {"acknowledge", "prepare", "canceling"}
    /\ w.pc = "canceling" => /\ w.signals["cancellation"] # NoEvent
                             /\ w.reply = "ok" => PassedOn(d)
    /\ w.pc = "awaiting_release" =>
          /\ w.known /\ w.artifact
          /\ w.signals["build"] # NoEvent /\ w.signals["build"].status = "completed"
          /\ w.signals["release"] # NoEvent => ReleaseFits(w)
    /\ w.pc = "awaiting_build" => w.known
    /\ w.result # "none" => w.pc = "closed"
    /\ w.result = "ready_observed" =>
          /\ w.signals["build"] # NoEvent /\ w.signals["build"].status = "completed"
          /\ w.signals["release"] # NoEvent /\ w.signals["release"].status = "ready"
          /\ ReleaseFits(w)
    /\ w.result = "canceled_observed" /\ w.signals["cancellation"] # NoEvent => PassedOn(d)

WorkflowsKnown == \A d \in Deployments : WorkflowKnown(d, wf[d])

OrchInv == OrchTypeOK /\ LivesKnown /\ CommandsKnown /\ EventsKnown /\ WorkflowsKnown
=============================================================================
