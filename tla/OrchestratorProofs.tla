-------------------------- MODULE OrchestratorProofs --------------------------
(***************************************************************************)
(* Proofs about Orchestrator, for any sets of deployments and clients and  *)
(* any number of lost finalizations, delays and spent activities: what a   *)
(* workflow knows is so, whatever order events, signals and answers come   *)
(* in and how often.                                                       *)
(*                                                                         *)
(* A Git deployment has a short life before its release (Life), and an     *)
(* event tells of it what does not change any more (EventKnown).  So an    *)
(* event is as true when it is delivered as when it was published, and the *)
(* same event again is the one the workflow has seen.                      *)
(***************************************************************************)
EXTENDS Orchestrator, ControlPlaneProofs

-----------------------------------------------------------------------------
(***************************************************************************)
(* The control plane: every step is one of its own, and moves a deployment *)
(* forward.                                                                *)
(***************************************************************************)
\* What a deployment may become.
Later(r, s) ==
    /\ r.version <= s.version
    /\ r.status # "none" => s.status # "none"
    /\ r.build \in {"succeeded", "failed"} => s.build = r.build
    /\ r.status \in {"canceling", "canceled"} /\ s # r => s.status = "canceled"
    /\ r.status = "canceled" => s = r

Grows ==
    /\ LivesKnown' /\ CommandsKnown'
    /\ commands \subseteq commands'
    /\ \A d \in Deployments : Later(dep[d], dep'[d])

\* One deployment moves, and a command may be published for it.
LEMMA OneMoves ==
    ASSUME CPTypeOK, LivesKnown, CommandsKnown, NEW d \in Deployments, NEW r \in Deployment,
           dep' = [dep EXCEPT ![d] = r], Life(r), Later(dep[d], r),
           commands \subseteq commands',
           \A c \in commands' \ commands :
              /\ c.type \notin {"route", "build_cancel"}
              /\ c.type = "build" => c.version = 3,
           dep[d].status = "none" => DeployCommand(d, 0) \in commands'
    PROVE  Grows
<1>1. /\ dep'[d] = r
      /\ \A e \in Deployments : e # d => dep'[e] = dep[e]
  BY DEF CPTypeOK
<1>2. \A e \in Deployments : dep[e] \in Deployment
  BY DEF CPTypeOK
<1>3. \A e \in Deployments : Later(dep[e], dep'[e])
  <2>1. ASSUME NEW e \in Deployments, e # d PROVE Later(dep[e], dep'[e])
    BY <1>1, <1>2, <2>1 DEF Later, Deployment
  <2> QED BY <1>1, <2>1
<1>4. LivesKnown'
  BY <1>1 DEF LivesKnown, Life
<1>5. CommandsKnown'
  <2>1. \A e \in Deployments : dep'[e].status # "none" => DeployCommand(e, 0) \in commands'
    BY <1>1 DEF CommandsKnown
  <2>2. \A c \in commands : c.id \in Deployments
    BY CommandNames DEF CPTypeOK, CommandsKnown
  <2>3. \A c \in commands : c.type = "build_cancel" => dep'[c.id].status \in {"canceling", "canceled"}
    BY <1>3, <2>2 DEF CommandsKnown, Later
  <2> QED BY <2>1, <2>3 DEF CommandsKnown, DeployCommand
<1> QED BY <1>3, <1>4, <1>5 DEF Grows

\* Nothing moves; the build controller may be told to stop.
LEMMA NoneMoves ==
    ASSUME CPTypeOK, LivesKnown, CommandsKnown, UNCHANGED dep,
           commands \subseteq commands',
           \A c \in commands' \ commands :
              c.type = "build_cancel" /\ dep[c.id].status = "canceling"
    PROVE  Grows
<1>1. \A d \in Deployments : Later(dep[d], dep'[d])
  BY DEF Later, CPTypeOK, Deployment
<1>2. LivesKnown' /\ CommandsKnown'
  BY DEF LivesKnown, Life, CommandsKnown, DeployCommand
<1> QED BY <1>1, <1>2 DEF Grows

LEMMA CreateGrows ==
    ASSUME CPTypeOK, LivesKnown, CommandsKnown, NEW d \in Deployments, Create(d)
    PROVE  Grows
<1> DEFINE r == [NoDeployment EXCEPT !.status = "created"]
<1>1. /\ r \in Deployment /\ r.status = "created" /\ r.version = 0 /\ r.build = "none"
      /\ r.revision = "none"
  BY DEF NoDeployment, Deployment, Statuses
<1>2. /\ dep' = [dep EXCEPT ![d] = r] /\ commands' = commands \cup {DeployCommand(d, 0)}
      /\ dep[d].status = "none"
  BY DEF Create, Publish
<1> HIDE DEF r
<1>3. Life(r)
  BY <1>1 DEF Life
<1>4. Later(dep[d], r)
  BY <1>1, <1>2 DEF Later, LivesKnown, Life
<1>5. /\ \A c \in commands' \ commands :
            c.type \notin {"route", "build_cancel"} /\ (c.type = "build" => c.version = 3)
      /\ DeployCommand(d, 0) \in commands' /\ commands \subseteq commands'
  BY <1>2 DEF DeployCommand
<1> QED BY <1>1, <1>2, <1>3, <1>4, <1>5, OneMoves

LEMMA CancelGrows ==
    ASSUME CPInv, LivesKnown, CommandsKnown, NEW c \in Clients, Cancel(c)
    PROVE  Grows
<1> DEFINE d == client[c].id
           r == Moved(dep[d], "canceling")
<1>1. d \in Deployments /\ CPTypeOK /\ dep[d] \in Deployment /\ Life(dep[d])
  BY DEF CPInv, RequestsNamed, Cancel, CPTypeOK, LivesKnown
<1>2. CASE UNCHANGED <<dep, commands>>
  BY <1>1, <1>2, NoneMoves
<1>3. CASE /\ May(d, "canceling") /\ dep' = [dep EXCEPT ![d] = r]
           /\ commands' = commands \cup {Cancellation(d)}
  <2>1. /\ r \in Deployment /\ r.status = "canceling" /\ r.version = dep[d].version + 1
        /\ r.build = dep[d].build /\ r.revision = dep[d].revision
    BY <1>1, MovedFacts DEF Statuses
  <2>2. dep[d].status \in {"created", "building", "scanning"}
    BY <1>1, <1>3, MayFacts DEF Life
  <2> HIDE DEF r, d
  <2>3. Life(r) /\ Later(dep[d], r)
    BY <1>1, <2>1, <2>2 DEF Life, Later
  <2>4. /\ \A k \in commands' \ commands :
              k.type \notin {"route", "build_cancel"} /\ (k.type = "build" => k.version = 3)
        /\ commands \subseteq commands'
    BY <1>3 DEF Cancellation, CancelCommand
  <2> QED BY <1>1, <1>3, <2>1, <2>2, <2>3, <2>4, OneMoves
<1> QED BY <1>2, <1>3 DEF Cancel, Publish

LEMMA PrepareGrows ==
    ASSUME CPTypeOK, LivesKnown, CommandsKnown, NEW d \in Deployments, Prepare(DeployOf(d))
    PROVE  /\ Grows /\ dep'[d].version = 3
           /\ Prepare(DeployOf(d)) /\ dep[d].status = "created"
<1> DEFINE r == Prepared(dep[d])
<1>1. DeployOf(d).id = d
  BY DEF DeployOf, DeployCommand
<1>2. /\ dep' = [dep EXCEPT ![d] = r] /\ dep[d].status = "created"
      /\ commands' = commands \cup {BuildCommand(d, dep[d].version + 3)}
  BY <1>1 DEF Prepare, Publish
<1>3. dep[d] \in Deployment /\ dep[d].version = 0 /\ dep[d].revision = "none"
  BY <1>2 DEF CPTypeOK, LivesKnown, Life
<1>4. /\ r \in Deployment /\ r.status = "building" /\ r.version = 3 /\ r.build = "running"
      /\ r.revision = "none"
  <2> DEFINE f == [dep[d] EXCEPT !.status = "building"]
             g == [f EXCEPT !.version = f.version + 3]
  <2>1. f \in Deployment /\ f.status = "building" /\ f.version = 0 /\ f.revision = "none"
    BY <1>3 DEF Deployment, Statuses
  <2>2. r = [g EXCEPT !.build = "running"]
    BY DEF Prepared
  <2> HIDE DEF f, r
  <2>3. g \in Deployment /\ g.status = "building" /\ g.version = 3 /\ g.revision = "none"
    BY <2>1 DEF Deployment
  <2> HIDE DEF g
  <2> QED BY <2>2, <2>3 DEF Deployment
<1> HIDE DEF r
<1>5. Life(r) /\ Later(dep[d], r)
  BY <1>2, <1>3, <1>4 DEF Life, Later, LivesKnown
<1>6. dep'[d].version = 3
  BY <1>2, <1>4 DEF CPTypeOK
<1>7. /\ \A c \in commands' \ commands :
            c.type \notin {"route", "build_cancel"} /\ (c.type = "build" => c.version = 3)
      /\ commands \subseteq commands'
  BY <1>2, <1>3 DEF BuildCommand
<1> QED BY <1>2, <1>3, <1>4, <1>5, <1>6, <1>7, OneMoves

LEMMA BuildGrows ==
    ASSUME CPTypeOK, LivesKnown, CommandsKnown, NEW c \in commands,
           BuildCompleted(c) \/ BuildFailed(c)
    PROVE  /\ Grows /\ c.id \in Deployments /\ dep[c.id].build = "running"
           /\ dep[c.id].version = 3 /\ dep'[c.id].version = 4
           /\ dep'[c.id].build = IF dep'[c.id].status = "scanning" THEN "succeeded" ELSE "failed"
           /\ BuildCompleted(c) => dep'[c.id].build = "succeeded"
           /\ BuildFailed(c) => dep'[c.id].build = "failed"
           /\ UNCHANGED commands
<1> DEFINE d == c.id
           r == dep[d]
<1>1. /\ d \in Deployments /\ r \in Deployment /\ Life(r)
      /\ r.build = "running" /\ r.version = 3 /\ r.status = "building"
  <2>1. d \in Deployments
    BY CommandNames DEF CPTypeOK, CommandsKnown
  <2>2. r \in Deployment /\ Life(r) /\ r.build = "running" /\ r.version = 3
    BY <2>1 DEF CPTypeOK, LivesKnown, BuildCompleted, BuildFailed, Current, CommandsKnown
  <2> QED BY <2>1, <2>2 DEF Life
<1>2. CASE BuildCompleted(c)
  <2> DEFINE m == Moved(r, "scanning")
             s == [m EXCEPT !.build = "succeeded", !.revision = "candidate"]
  <2>1. /\ m \in Deployment /\ m.status = "scanning" /\ m.version = 4
    BY <1>1, MovedFacts DEF Statuses
  <2>2. dep' = [dep EXCEPT ![d] = s] /\ UNCHANGED commands
    BY <1>2 DEF BuildCompleted
  <2> HIDE DEF m
  <2>3. /\ s \in Deployment /\ s.status = "scanning" /\ s.version = 4 /\ s.build = "succeeded"
        /\ s.revision = "candidate"
    BY <2>1 DEF Deployment
  <2> HIDE DEF s, r
  <2>4. Life(s) /\ Later(r, s)
    BY <1>1, <2>3 DEF Life, Later
  <2>5. dep'[d] = s
    BY <1>1, <2>2 DEF CPTypeOK
  <2>6. Grows
    BY <1>1, <2>2, <2>3, <2>4, OneMoves DEF r
  <2>7. ~BuildFailed(c)
    <3>1. ASSUME BuildFailed(c) PROVE FALSE
      <4>1. dep' = [dep EXCEPT ![d] = [Moved(dep[d], "failed") EXCEPT !.build = "failed"]]
        BY <3>1 DEF BuildFailed
      <4>2. dep'[d].build = "failed"
        <5>1. Moved(dep[d], "failed") \in Deployment
          BY <1>1, MovedFacts DEF Statuses, r
        <5> QED BY <1>1, <4>1, <5>1 DEF CPTypeOK, Deployment
      <4> QED BY <2>3, <2>5, <4>2
    <3> QED BY <3>1
  <2> QED BY <1>1, <2>2, <2>3, <2>5, <2>6, <2>7 DEF r
<1>3. CASE BuildFailed(c)
  <2> DEFINE m == Moved(r, "failed")
             s == [m EXCEPT !.build = "failed"]
  <2>1. /\ m \in Deployment /\ m.status = "failed" /\ m.version = 4 /\ m.revision = "none"
    BY <1>1, MovedFacts DEF Statuses, Life
  <2>2. dep' = [dep EXCEPT ![d] = s] /\ UNCHANGED commands
    BY <1>3 DEF BuildFailed
  <2> HIDE DEF m
  <2>3. /\ s \in Deployment /\ s.status = "failed" /\ s.version = 4 /\ s.build = "failed"
        /\ s.revision = "none"
    BY <2>1 DEF Deployment
  <2> HIDE DEF s, r
  <2>4. Life(s) /\ Later(r, s)
    BY <1>1, <2>3 DEF Life, Later
  <2>5. dep'[d] = s
    BY <1>1, <2>2 DEF CPTypeOK
  <2>6. Grows
    BY <1>1, <2>2, <2>3, <2>4, OneMoves DEF r
  <2>7. ~BuildCompleted(c)
    <3>1. ASSUME BuildCompleted(c) PROVE FALSE
      <4>1. dep' = [dep EXCEPT ![d] = [Moved(dep[d], "scanning") EXCEPT !.build = "succeeded",
                                                                     !.revision = "candidate"]]
        BY <3>1 DEF BuildCompleted
      <4>2. dep'[d].build = "succeeded"
        <5>1. Moved(dep[d], "scanning") \in Deployment
          BY <1>1, MovedFacts DEF Statuses, r
        <5> QED BY <1>1, <4>1, <5>1 DEF CPTypeOK, Deployment
      <4> QED BY <2>3, <2>5, <4>2
    <3> QED BY <3>1
  <2> QED BY <1>1, <2>2, <2>3, <2>5, <2>6, <2>7 DEF r
<1> QED BY <1>2, <1>3

LEMMA CompleteGrows ==
    ASSUME CPTypeOK, LivesKnown, CommandsKnown, NEW c \in commands, CompleteBuildCancellation(c)
    PROVE  Grows
<1> DEFINE d == c.id
           r == CanceledBuild(dep[d])
<1>1. /\ d \in Deployments /\ dep[d] \in Deployment /\ Life(dep[d])
      /\ dep[d].build = "running" /\ dep[d].status = "canceling"
      /\ dep' = [dep EXCEPT ![d] = r] /\ UNCHANGED commands
  BY CommandNames DEF CPTypeOK, CommandsKnown, LivesKnown, CompleteBuildCancellation
<1>2. /\ r \in Deployment /\ r.status = "canceled" /\ r.version = 5 /\ r.build = "canceled"
      /\ r.revision = "none"
  BY <1>1, CanceledBuildFacts DEF Life
<1> HIDE DEF d, r
<1>3. Life(r) /\ Later(dep[d], r)
  BY <1>1, <1>2 DEF Life, Later
<1> QED BY <1>1, <1>2, <1>3, OneMoves

LEMMA RequestGrows ==
    ASSUME CPTypeOK, LivesKnown, CommandsKnown, NEW d \in Deployments,
           RequestBuildCancellation(CancelOf(d))
    PROVE  Grows /\ PassedOn(d)'
<1> DEFINE r == Moved(dep[d], "canceled")
<1>1. CancelOf(d).id = d
  BY DEF CancelOf, CancelCommand
<1>2. dep[d].status = "canceling" /\ dep[d] \in Deployment /\ Life(dep[d])
  BY <1>1 DEF RequestBuildCancellation, CPTypeOK, LivesKnown
<1>3. CASE dep[d].build = "running"
  <2>1. UNCHANGED dep /\ commands' = commands \cup {BuildCancelCommand(d, dep[d].version)}
    BY <1>1, <1>3 DEF RequestBuildCancellation, Publish
  <2>2. Grows
    BY <1>2, <2>1, NoneMoves DEF BuildCancelCommand
  <2> QED BY <2>1, <2>2 DEF PassedOn, BuildCancelCommand
<1>4. CASE dep[d].build # "running"
  <2>1. dep' = [dep EXCEPT ![d] = r] /\ UNCHANGED commands
    BY <1>1, <1>4 DEF RequestBuildCancellation
  <2>2. /\ r \in Deployment /\ r.status = "canceled" /\ r.version = dep[d].version + 1
        /\ r.build = dep[d].build /\ r.revision = dep[d].revision
    BY <1>2, MovedFacts DEF Statuses
  <2> HIDE DEF r
  <2>3. Life(r) /\ Later(dep[d], r)
    BY <1>2, <1>4, <2>2 DEF Life, Later
  <2>4. dep'[d].status = "canceled"
    BY <2>1, <2>2 DEF CPTypeOK
  <2> QED BY <1>2, <2>1, <2>2, <2>3, <2>4, OneMoves DEF PassedOn
<1> QED BY <1>3, <1>4

\* The cancellation a workflow passes on is one the outbox holds.
LEMMA CancellationHeld ==
    ASSUME OrchInv, NEW d \in Deployments, wf[d].pc = "canceling"
    PROVE  CancelOf(d) \in commands
<1> DEFINE e == wf[d].signals["cancellation"]
<1>1. e # NoEvent /\ e \in wf[d].seen /\ e.type = "cancellation"
  BY DEF OrchInv, WorkflowsKnown, WorkflowKnown, Slots
<1>2. e.id = d /\ CancelCommand(e.id, e.version) \in commands
  BY <1>1 DEF OrchInv, EventsKnown, EventKnown
<1> QED BY <1>2 DEF CancelOf

LEMMA StepImplements == OrchInv /\ [OrchNext]_orchVars => [CPNext]_cpVars
<1> SUFFICES ASSUME OrchInv, [OrchNext]_orchVars PROVE [CPNext]_cpVars
  OBVIOUS
<1>1. CASE UserStep
  BY <1>1 DEF UserStep, CPNext, UserNext
<1>2. CASE BuildStep
  BY <1>2 DEF BuildStep, CPNext, OrchestratorNext
<1>3. ASSUME NEW d \in Deployments, PrepareBuild(d) PROVE [CPNext]_cpVars
  <2>1. CASE UNCHANGED cpVars
    BY <2>1
  <2>2. CASE Prepare(DeployOf(d))
    <3>1. dep[d].status # "none"
      BY <2>2 DEF Prepare, DeployOf, DeployCommand, Current
    <3>2. DeployOf(d) \in commands
      BY <3>1 DEF OrchInv, CommandsKnown, DeployOf
    <3> QED BY <2>2, <3>2 DEF CPNext, OrchestratorNext
  <2> QED BY <1>3, <2>1, <2>2 DEF PrepareBuild
<1>4. ASSUME NEW d \in Deployments, RequestCancellation(d) PROVE [CPNext]_cpVars
  <2>1. CASE UNCHANGED cpVars
    BY <2>1
  <2>2. CASE RequestBuildCancellation(CancelOf(d))
    <3>1. CancelOf(d) \in commands
      BY <1>4, CancellationHeld DEF RequestCancellation, Asks
    <3> QED BY <2>2, <3>1 DEF CPNext, OrchestratorNext
  <2> QED BY <1>4, <2>1, <2>2 DEF RequestCancellation
<1>5. CASE Deliver \/ \E d \in Deployments :
             ReleaseStep(d) \/ Acknowledge(d) \/ ActivityFails(d) \/ WorkflowStep(d)
  BY <1>5 DEF Deliver, ReleaseStep, Acknowledge, ActivityFails, WorkflowStep, Resume,
              BuildObserved, ReleaseObserved
<1>6. CASE UNCHANGED orchVars
  BY <1>6 DEF orchVars
<1> QED BY <1>1, <1>2, <1>3, <1>4, <1>5, <1>6 DEF OrchNext, Activity

-----------------------------------------------------------------------------
(***************************************************************************)
(* What does not change any more.                                          *)
(***************************************************************************)
LEMMA NothingMoves ==
    ASSUME CPTypeOK, LivesKnown, CommandsKnown, UNCHANGED cpVars
    PROVE  Grows
  BY NoneMoves DEF cpVars

LEMMA EventStays ==
    ASSUME CPTypeOK, CPTypeOK', Grows, released \subseteq released', NEW e \in Event, EventKnown(e)
    PROVE  EventKnown(e)'
<1>1. e.id \in Deployments /\ e.version \in Nat /\ e.type \in {"start"} \cup Slots
  BY DEF Event
<1>2. Later(dep[e.id], dep'[e.id]) /\ dep[e.id].version \in Nat /\ dep'[e.id].version \in Nat
  BY <1>1 DEF Grows, CPTypeOK, Deployment
<1>3. dep'[e.id].status # "none" /\ e.version <= dep'[e.id].version
  BY <1>1, <1>2 DEF EventKnown, Later
<1>4. e.type = "build" => dep'[e.id].build = dep[e.id].build
  BY <1>2 DEF EventKnown, Later
<1>5. e.type = "cancellation" => dep'[e.id].status \in {"canceling", "canceled"}
  BY <1>2 DEF EventKnown, Later
<1>6. CancelCommand(e.id, e.version) \in commands => CancelCommand(e.id, e.version) \in commands'
  BY DEF Grows
<1> QED BY <1>1, <1>3, <1>4, <1>5, <1>6 DEF EventKnown, CancelCommand

LEMMA PassedStays ==
    ASSUME CPTypeOK, CommandsKnown, Grows, NEW d \in Deployments, PassedOn(d)
    PROVE  PassedOn(d)'
<1> DEFINE b == BuildCancelCommand(d, dep[d].version)
<1>1. Later(dep[d], dep'[d])
  BY DEF Grows
<1>2. CASE dep[d].status = "canceled"
  BY <1>1, <1>2 DEF Later, PassedOn
<1>3. CASE b \in commands
  <2>1. dep[d].status \in {"canceling", "canceled"}
    BY <1>3 DEF CommandsKnown, BuildCancelCommand
  <2>2. dep'[d] = dep[d] \/ dep'[d].status = "canceled"
    BY <1>1, <2>1 DEF Later
  <2> QED BY <1>3, <2>2 DEF PassedOn, Grows, BuildCancelCommand
<1> QED BY <1>2, <1>3 DEF PassedOn

LEMMA WorkflowStays ==
    ASSUME CPTypeOK, CPTypeOK', CommandsKnown, Grows, NEW d \in Deployments, NEW w \in Workflow,
           WorkflowKnown(d, w)
    PROVE  WorkflowKnown(d, w)'
<1>1. Later(dep[d], dep'[d]) /\ dep[d].version \in Nat /\ dep'[d].version \in Nat
  BY DEF Grows, CPTypeOK, Deployment
<1>2. w.version \in Nat /\ w.replied \in Nat
  BY DEF Workflow
<1>3. /\ w.version <= dep'[d].version /\ w.replied <= dep'[d].version
      /\ w.pc # "none" => dep'[d].status # "none"
  BY <1>1, <1>2 DEF WorkflowKnown, Later
<1>4. PassedOn(d) => PassedOn(d)'
  BY PassedStays
<1> QED BY <1>3, <1>4 DEF WorkflowKnown, ReleaseFits

-----------------------------------------------------------------------------
(***************************************************************************)
(* Kinds of steps: an event is published, a workflow moves by itself, or   *)
(* it is told of an event.                                                 *)
(***************************************************************************)
LEMMA WaitingTyped ==
    ASSUME OrchTypeOK
    PROVE  Waiting \subseteq Event /\ \A d \in Deployments : wf[d] \in Workflow /\ wf[d].seen \subseteq Event
  BY DEF OrchTypeOK, Waiting, Workflow

LEMMA Appended ==
    ASSUME NEW e \in Event, events \in Seq(Event), events' = Append(events, e)
    PROVE  Waiting' = Waiting \cup {e} /\ events' \in Seq(Event)
<1>1. /\ Len(events') = Len(events) + 1 /\ Len(events) \in Nat
      /\ DOMAIN events = 1..Len(events) /\ DOMAIN events' = 1..Len(events')
      /\ \A i \in 1..Len(events) : events'[i] = events[i]
      /\ events'[Len(events) + 1] = e
  OBVIOUS
<1>2. \A i \in DOMAIN events' : i \in DOMAIN events \/ i = Len(events) + 1
  BY <1>1
<1>3. DOMAIN events \subseteq DOMAIN events' /\ Len(events) + 1 \in DOMAIN events'
  BY <1>1
<1> QED BY <1>1, <1>2, <1>3 DEF Waiting

LEMMA PublishedInv ==
    ASSUME OrchInv, CPTypeOK', Grows, UNCHANGED wf, faults' \in 0..MaxFaults,
           released \subseteq released', released' \subseteq Deployments,
           \/ UNCHANGED events
           \/ \E e \in Event : /\ events' = Append(events, e) /\ EventKnown(e)'
                               /\ \A f \in Known(e.id) : f.type # e.type
    PROVE  OrchInv'
<1>1. OrchTypeOK /\ CPTypeOK /\ LivesKnown /\ CommandsKnown /\ EventsKnown /\ WorkflowsKnown
  BY DEF OrchInv, OrchTypeOK
<1>2. /\ Waiting \subseteq Event
      /\ \A d \in Deployments : wf[d] \in Workflow /\ wf[d].seen \subseteq Event
  BY <1>1, WaitingTyped
<1>3. WorkflowsKnown'
  <2>1. \A d \in Deployments : WorkflowKnown(d, wf[d])
    BY <1>1 DEF WorkflowsKnown
  <2>2. \A d \in Deployments : \A w \in Workflow : WorkflowKnown(d, w) => WorkflowKnown(d, w)'
    BY <1>1, WorkflowStays
  <2> QED BY <1>2, <2>1, <2>2 DEF WorkflowsKnown
<1>4. \A e \in Event : EventKnown(e) => EventKnown(e)'
  BY <1>1, EventStays
<1>5. \A d \in Deployments : \A e \in wf[d].seen : e.id = d /\ e.type \in Slots /\ EventKnown(e)'
  BY <1>1, <1>2, <1>4 DEF EventsKnown
<1>6. CASE UNCHANGED events
  <2>1. Waiting' = Waiting /\ events' \in Seq(Event)
    BY <1>1, <1>6 DEF Waiting, OrchTypeOK
  <2>2. \A d \in Deployments : Known(d)' = Known(d)
    BY <2>1 DEF Known
  <2>3. EventsKnown'
    BY <1>1, <1>2, <1>4, <1>5, <2>1, <2>2 DEF EventsKnown
  <2> QED BY <1>1, <1>3, <2>1, <2>3 DEF OrchInv, OrchTypeOK, Grows
<1>7. ASSUME NEW e \in Event, events' = Append(events, e), EventKnown(e)',
             \A f \in Known(e.id) : f.type # e.type
      PROVE  OrchInv'
  <2>1. Waiting' = Waiting \cup {e} /\ events' \in Seq(Event)
    BY <1>1, <1>7, Appended DEF OrchTypeOK
  <2>2. \A d \in Deployments : Known(d)' = IF d = e.id THEN Known(d) \cup {e} ELSE Known(d)
    BY <2>1 DEF Known
  <2>3. \A f \in Waiting' : EventKnown(f)'
    BY <1>1, <1>2, <1>4, <1>7, <2>1 DEF EventsKnown
  <2>4. ASSUME NEW d \in Deployments, NEW f \in Known(d)', NEW g \in Known(d)', f.type = g.type
        PROVE  f = g
    BY <1>1, <1>7, <2>2, <2>4 DEF EventsKnown
  <2>5. EventsKnown'
    BY <1>5, <2>3, <2>4 DEF EventsKnown
  <2> QED BY <1>1, <1>3, <2>1, <2>5 DEF OrchInv, OrchTypeOK, Grows
<1> QED BY <1>6, <1>7

\* A workflow changes, and the events that wait become no more.
LEMMA ChangedInv ==
    ASSUME OrchInv, CPTypeOK', Grows, UNCHANGED released, faults' \in 0..MaxFaults,
           Waiting' \subseteq Waiting, events' \in Seq(Event),
           NEW d \in Deployments, NEW w \in Workflow, Becomes(d, w),
           w.seen \subseteq wf[d].seen \cup {e \in Waiting : e.id = d /\ e.type \in Slots},
           WorkflowKnown(d, w)'
    PROVE  OrchInv'
<1>1. OrchTypeOK /\ CPTypeOK /\ LivesKnown /\ CommandsKnown /\ EventsKnown /\ WorkflowsKnown
  BY DEF OrchInv, OrchTypeOK
<1>2. /\ Waiting \subseteq Event
      /\ \A x \in Deployments : wf[x] \in Workflow /\ wf[x].seen \subseteq Event
  BY <1>1, WaitingTyped
<1>3. /\ wf'[d] = w /\ wf' \in [Deployments -> Workflow]
      /\ \A x \in Deployments : x # d => wf'[x] = wf[x]
  BY <1>1 DEF Becomes, OrchTypeOK
<1>4. WorkflowsKnown'
  <2>1. \A x \in Deployments : WorkflowKnown(x, wf[x])
    BY <1>1 DEF WorkflowsKnown
  <2>2. \A x \in Deployments : \A v \in Workflow : WorkflowKnown(x, v) => WorkflowKnown(x, v)'
    BY <1>1, WorkflowStays
  <2> QED BY <1>2, <1>3, <2>1, <2>2 DEF WorkflowsKnown
<1>5. \A e \in Event : EventKnown(e) => EventKnown(e)'
  BY <1>1, EventStays
<1>6. \A x \in Deployments : Known(x)' \subseteq Known(x)
  BY <1>3 DEF Known
<1>7. \A x \in Deployments : \A e \in wf'[x].seen : e.id = x /\ e.type \in Slots /\ EventKnown(e)'
  <2> SUFFICES ASSUME NEW x \in Deployments, NEW e \in wf'[x].seen
               PROVE  e.id = x /\ e.type \in Slots /\ EventKnown(e)'
    OBVIOUS
  <2>1. CASE e \in wf[x].seen
    BY <1>1, <1>2, <1>5, <2>1 DEF EventsKnown
  <2>2. CASE e \notin wf[x].seen
    <3>1. x = d /\ e \in Waiting /\ e.id = d /\ e.type \in Slots
      BY <1>3, <2>2
    <3> QED BY <1>1, <1>2, <1>5, <3>1 DEF EventsKnown
  <2> QED BY <2>1, <2>2
<1>8. EventsKnown'
  BY <1>1, <1>2, <1>5, <1>6, <1>7 DEF EventsKnown
<1> QED BY <1>1, <1>3, <1>4, <1>8 DEF OrchInv, OrchTypeOK, Grows

\* A command that is published is the one that is found.
LEMMA FoundCommand ==
    ASSUME NEW c, commands' = commands \cup {c}, commands' # commands
    PROVE  (CHOOSE x \in commands' : x \notin commands) = c
  OBVIOUS

LEMMA EventIs ==
    ASSUME NEW e, NEW t \in {"start"} \cup Slots, NEW d \in Deployments, NEW v \in Nat,
           NEW s \in {"none", "completed", "ready", "failed", "canceled"}, NEW m \in BOOLEAN,
           e = [type |-> t, id |-> d, version |-> v, status |-> s, match |-> m]
    PROVE  e \in Event /\ e.type = t /\ e.id = d /\ e.version = v /\ e.status = s
  BY DEF Event

\* An event that is made from NoEvent names no status or a result of the build.
LEMMA EventMade ==
    ASSUME NEW e, NEW t \in {"start"} \cup Slots, NEW d \in Deployments, NEW v \in Nat,
           NEW s \in {"none", "completed", "failed"},
           e = [type |-> t, id |-> d, version |-> v, status |-> s, match |-> TRUE]
    PROVE  e \in Event /\ e.type = t /\ e.id = d /\ e.version = v /\ e.status = s
<1>1. TRUE \in BOOLEAN
  OBVIOUS
<1>2. s \in {"none", "completed", "ready", "failed", "canceled"}
  OBVIOUS
<1> QED BY <1>1, <1>2, EventIs, Zenon

LEMMA EventTypes ==
    ASSUME NEW d \in Deployments, NEW v \in Nat, NEW e
    PROVE  /\ e = StartEvent(DeployCommand(d, v)) =>
                 e \in Event /\ e.type = "start" /\ e.id = d /\ e.version = v
           /\ e = CancellationEvent(CancelCommand(d, v)) =>
                 e \in Event /\ e.type = "cancellation" /\ e.id = d /\ e.version = v
<1>1. ASSUME e = StartEvent(DeployCommand(d, v))
      PROVE  e = [type |-> "start", id |-> d, version |-> v, status |-> "none", match |-> TRUE]
  <2>1. DeployCommand(d, v).id = d /\ DeployCommand(d, v).version = v
    BY DEF DeployCommand
  <2>2. e = [NoEvent EXCEPT !.type = "start", !.id = d, !.version = v]
    BY <1>1, <2>1 DEF StartEvent
  <2> QED BY <2>2 DEF NoEvent
<1>2. ASSUME e = CancellationEvent(CancelCommand(d, v))
      PROVE  e = [type |-> "cancellation", id |-> d, version |-> v, status |-> "none",
                  match |-> TRUE]
  <2>1. CancelCommand(d, v).id = d /\ CancelCommand(d, v).version = v
    BY DEF CancelCommand
  <2>2. e = [[NoEvent EXCEPT !.type = "start", !.id = d, !.version = v]
               EXCEPT !.type = "cancellation"]
    BY <1>2, <2>1 DEF CancellationEvent, StartEvent
  <2> QED BY <2>2 DEF NoEvent
<1>3. "start" \in {"start"} \cup Slots /\ "cancellation" \in {"start"} \cup Slots
  BY DEF Slots
<1> QED BY <1>1, <1>2, <1>3, EventMade

LEMMA UserInv ==
    ASSUME OrchInv, CPInv, CPInv', UserStep
    PROVE  OrchInv'
<1>1. /\ OrchTypeOK /\ CPTypeOK /\ CPTypeOK' /\ LivesKnown /\ CommandsKnown /\ EventsKnown
      /\ UNCHANGED <<released, wf, faults>>
  BY DEF OrchInv, OrchTypeOK, CPInv, UserStep
<1>2. faults' \in 0..MaxFaults /\ released' \subseteq Deployments /\ released \subseteq released'
  BY <1>1 DEF OrchTypeOK
<1>3. ASSUME NEW d \in Deployments, Create(d) PROVE OrchInv'
  <2>1. Grows
    BY <1>1, <1>3, CreateGrows
  <2>2. commands' = commands \cup {DeployCommand(d, 0)} /\ dep[d].status = "none"
    BY <1>3 DEF Create, Publish
  <2>3. CASE commands' = commands
    BY <1>1, <1>2, <2>1, <2>3, PublishedInv DEF UserStep
  <2>4. CASE commands' # commands
    <3> DEFINE e == StartEvent(DeployCommand(d, 0))
    <3>1. events' = Append(events, e)
      BY <2>2, <2>4, FoundCommand DEF UserStep, DeployCommand
    <3>2. e \in Event /\ e.type = "start" /\ e.id = d /\ e.version = 0
      BY EventTypes
    <3>3. PICK f : f = e
      OBVIOUS
    <3> HIDE DEF e
    <3>4. dep'[d].status # "none" /\ dep'[d].version \in Nat
      BY <1>1, <1>3 DEF Create, CPTypeOK, NoDeployment, Deployment
    <3>5. EventKnown(f)'
      BY <3>2, <3>3, <3>4 DEF EventKnown
    <3>6. \A g \in Known(f.id) : g.type # f.type
      <4>1. \A g \in Known(d) : EventKnown(g)
        BY <1>1 DEF Known, EventsKnown
      <4>2. Known(d) = {}
        BY <2>2, <4>1 DEF EventKnown, Known
      <4> QED BY <3>2, <3>3, <4>2
    <3> QED BY <1>1, <1>2, <2>1, <3>1, <3>2, <3>3, <3>5, <3>6, PublishedInv
  <2> QED BY <2>3, <2>4
<1>4. ASSUME NEW c \in Clients, Cancel(c) PROVE OrchInv'
  <2> DEFINE d == client[c].id
  <2>1. Grows
    BY <1>1, <1>4, CancelGrows
  <2>2. CASE commands' = commands
    BY <1>1, <1>2, <2>1, <2>2, PublishedInv DEF UserStep
  <2>3. CASE commands' # commands
    <3>1. /\ May(d, "canceling") /\ dep' = [dep EXCEPT ![d] = Moved(@, "canceling")]
          /\ commands' = commands \cup {CancelCommand(d, dep[d].version + 1)}
      BY <1>4, <2>3 DEF Cancel, Publish, Cancellation
    <3>2. d \in Deployments /\ dep[d] \in Deployment
      BY <1>4 DEF CPInv, RequestsNamed, Cancel, CPTypeOK
    <3>3. dep'[d] = Moved(dep[d], "canceling")
      BY <1>1, <3>1, <3>2 DEF CPTypeOK
    <3>4. /\ dep'[d].status = "canceling" /\ dep'[d].version = dep[d].version + 1
          /\ dep[d].version \in Nat
      <4>1. "canceling" \in Statuses
        BY DEF Statuses
      <4>2. \A r \in Deployment : /\ Moved(r, "canceling").status = "canceling"
                                  /\ Moved(r, "canceling").version = r.version + 1
        BY <4>1, MovedFacts
      <4>3. \A r \in Deployment : r.version \in Nat
        BY DEF Deployment
      <4> HIDE DEF d
      <4> QED BY <3>2, <3>3, <4>2, <4>3
    <3>5. dep[d].status \in {"created", "building", "scanning"}
      BY <1>1, <3>1, <3>2, MayFacts DEF LivesKnown, Life
    <3> DEFINE v == dep[d].version + 1
               e == CancellationEvent(CancelCommand(d, v))
    <3>6. events' = Append(events, e)
      BY <2>3, <3>1, FoundCommand DEF UserStep, CancelCommand
    <3>7. e \in Event /\ e.type = "cancellation" /\ e.id = d /\ e.version = v
      BY <3>2, <3>4, EventTypes
    <3>8. PICK f, x : f = e /\ x = d
      OBVIOUS
    <3> HIDE DEF e
    <3>9. EventKnown(f)'
      <4>1. f.id = x /\ f.type = "cancellation" /\ f.version = dep'[x].version
        BY <3>4, <3>7, <3>8
      <4>2. dep'[x].version \in Nat
        BY <3>4, <3>8
      <4>3. CancelCommand(x, f.version) \in commands'
        BY <3>1, <3>7, <3>8
      <4> QED BY <3>2, <3>4, <3>8, <4>1, <4>2, <4>3 DEF EventKnown, CancelCommand
    <3>10. \A g \in Known(f.id) : g.type # f.type
      <4>1. \A g \in Known(d) : EventKnown(g) /\ g.id = d
        BY <1>1, <3>2 DEF Known, EventsKnown
      <4> QED BY <3>5, <3>7, <3>8, <4>1 DEF EventKnown
    <3> QED BY <1>1, <1>2, <2>1, <3>6, <3>7, <3>8, <3>9, <3>10, PublishedInv
  <2> QED BY <2>2, <2>3
<1>5. ASSUME NEW c \in Clients, NEW d \in Deployments, ReadForCancel(c, d) PROVE OrchInv'
  <2>1. UNCHANGED <<dep, commands>>
    BY <1>5 DEF ReadForCancel
  <2>2. Grows
    BY <1>1, <2>1, NoneMoves
  <2> QED BY <1>1, <1>2, <2>1, <2>2, PublishedInv DEF UserStep
<1> QED BY <1>3, <1>4, <1>5 DEF UserStep

LEMMA BuildEventInv ==
    ASSUME OrchInv, CPInv', BuildStep
    PROVE  OrchInv'
<1>1. /\ OrchTypeOK /\ CPTypeOK /\ CPTypeOK' /\ LivesKnown /\ CommandsKnown /\ EventsKnown
      /\ UNCHANGED <<released, wf, faults>>
  BY DEF OrchInv, OrchTypeOK, CPInv, BuildStep
<1>2. faults' \in 0..MaxFaults /\ released' \subseteq Deployments /\ released \subseteq released'
  BY <1>1 DEF OrchTypeOK
<1>3. ASSUME NEW c \in commands, CompleteBuildCancellation(c), UNCHANGED events PROVE OrchInv'
  BY <1>1, <1>2, <1>3, CompleteGrows, PublishedInv
<1>4. ASSUME NEW c \in commands, NEW s \in {"completed", "failed"},
             events' = Append(events, BuildEvent(c.id, s)),
             \/ s = "completed" /\ BuildCompleted(c)
             \/ s = "failed" /\ BuildFailed(c)
      PROVE  OrchInv'
  <2>1. /\ Grows /\ c.id \in Deployments /\ dep[c.id].build = "running"
        /\ dep[c.id].version = 3 /\ dep'[c.id].version = 4
        /\ dep'[c.id].build = IF s = "completed" THEN "succeeded" ELSE "failed"
    BY <1>1, <1>4, BuildGrows
  <2>2. PICK e : e = BuildEvent(c.id, s)
    OBVIOUS
  <2>3. e = [type |-> "build", id |-> c.id, version |-> 4, status |-> s, match |-> TRUE]
    <3>1. dep[c.id].version + 1 = 4
      BY <2>1
    <3>2. e = [NoEvent EXCEPT !.type = "build", !.id = c.id, !.version = 4, !.status = s]
      BY <2>2, <3>1 DEF BuildEvent
    <3> QED BY <3>2 DEF NoEvent
  <2>4. e \in Event
    <3>1. "build" \in {"start"} \cup Slots /\ s \in {"none", "completed", "failed"} /\ 4 \in Nat
      BY DEF Slots
    <3> QED BY <2>1, <2>3, <3>1, EventMade, Zenon
  <2>5. dep'[c.id].status # "none"
    BY <2>1 DEF Grows, LivesKnown, Life
  <2>6. EventKnown(e)'
    <3>1. e.type = "build" /\ e.id = c.id /\ e.version = 4 /\ e.status = s
      BY <2>3
    <3> QED BY <2>1, <2>5, <3>1 DEF EventKnown
  <2>7. \A g \in Known(e.id) : g.type # e.type
    <3>1. \A g \in Known(c.id) : EventKnown(g) /\ g.id = c.id
      BY <1>1, <2>1 DEF Known, EventsKnown
    <3> QED BY <2>1, <2>3, <3>1 DEF EventKnown
  <2> QED BY <1>1, <1>2, <1>4, <2>1, <2>2, <2>4, <2>6, <2>7, PublishedInv
<1> QED BY <1>3, <1>4 DEF BuildStep

LEMMA ReleaseInv ==
    ASSUME OrchestratorAssumption, OrchInv, NEW d \in Deployments, ReleaseStep(d)
    PROVE  OrchInv'
<1>1. /\ OrchTypeOK /\ CPTypeOK /\ LivesKnown /\ CommandsKnown /\ EventsKnown
      /\ UNCHANGED <<cpVars, wf, faults>> /\ released' = released \cup {d} /\ d \notin released
  BY DEF OrchInv, OrchTypeOK, ReleaseStep
<1>2. faults' \in 0..MaxFaults /\ released' \subseteq Deployments /\ released \subseteq released'
  BY <1>1 DEF OrchTypeOK
<1>3. Grows /\ CPTypeOK'
  BY <1>1, NothingMoves DEF CPTypeOK, cpVars
<1>4. dep[d].status # "none" /\ dep[d].version \in Nat
  BY <1>1 DEF ReleaseStep, LivesKnown, Life, CPTypeOK, Deployment
<1>5. PICK s \in Releases, m \in BOOLEAN, v \in {0, dep[d].version} :
        events' = Append(events, [type |-> "release", id |-> d, version |-> v,
                                  status |-> s, match |-> m])
  BY DEF ReleaseStep
<1>6. PICK e : e = [type |-> "release", id |-> d, version |-> v, status |-> s, match |-> m]
  OBVIOUS
<1>7. e \in Event
  <2>1. /\ "release" \in {"start"} \cup Slots /\ v \in Nat
        /\ s \in {"none", "completed", "ready", "failed", "canceled"}
    BY <1>4 DEF Slots, OrchestratorAssumption
  <2> QED BY <1>6, <2>1, EventIs
<1>8. EventKnown(e)'
  BY <1>1, <1>4, <1>6 DEF EventKnown, cpVars
<1>9. \A g \in Known(e.id) : g.type # e.type
  <2>1. \A g \in Known(d) : EventKnown(g) /\ g.id = d
    BY <1>1 DEF Known, EventsKnown
  <2> QED BY <1>1, <1>6, <2>1 DEF EventKnown
<1> QED BY <1>1, <1>2, <1>3, <1>5, <1>6, <1>7, <1>8, <1>9, PublishedInv

-----------------------------------------------------------------------------
(***************************************************************************)
(* A workflow goes on: what it becomes.                                    *)
(***************************************************************************)
\* x is what the workflow w of d becomes: it knows what is so, its version does
\* not go back, and it is not reopened.
Follows(d, w, x) ==
    /\ x \in Workflow /\ WorkflowKnown(d, x)
    /\ x.version >= w.version
    /\ w.pc # "closed"

\* The fields a step of the workflow leaves alone.
SameNews(w, x) == x.seen = w.seen /\ x.signals = w.signals /\ x.conflict = w.conflict

Results == {"stale_observed", "failed_observed", "ready_observed", "canceled_observed"}

LEMMA ClosedKnown ==
    ASSUME NEW d \in Deployments, NEW w \in Workflow, WorkflowKnown(d, w),
           w.pc \notin {"none", "closed"}, NEW r \in Results,
           r = "ready_observed" =>
             /\ w.pc = "awaiting_release"
             /\ w.signals["release"] # NoEvent /\ w.signals["release"].status = "ready",
           r = "canceled_observed" /\ w.signals["cancellation"] # NoEvent => PassedOn(d)
    PROVE  Follows(d, w, Closed(w, r)) /\ SameNews(w, Closed(w, r))
<1> DEFINE x == Closed(w, r)
<1>1. /\ x \in Workflow /\ x.pc = "closed" /\ x.reply = "none" /\ x.result = r
      /\ x.version = w.version /\ x.replied = w.replied /\ SameNews(w, x)
  BY DEF Closed, Workflow, SameNews, Results
<1>2. w.version \in Nat
  BY DEF Workflow
<1> HIDE DEF x
<1>3. WorkflowKnown(d, x)
  BY <1>1 DEF WorkflowKnown, SameNews, ReleaseFits
<1> QED BY <1>1, <1>2, <1>3 DEF Follows, x

LEMMA LatestKnown ==
    ASSUME NEW d \in Deployments, NEW w \in Workflow, WorkflowKnown(d, w), w.pc # "none",
           NEW x, x = [w EXCEPT !.version = Latest(@, w.replied)]
    PROVE  /\ x \in Workflow /\ WorkflowKnown(d, x) /\ SameNews(w, x)
           /\ x.version >= w.version
           /\ x.pc = w.pc /\ x.reply = w.reply /\ x.replied = w.replied /\ x.result = w.result
<1>1. w.version \in Nat /\ w.replied \in Nat
  BY DEF Workflow
<1>2. PICK v : v = Latest(w.version, w.replied)
  OBVIOUS
<1>3. v \in Nat /\ v >= w.version /\ v \in {w.version, w.replied}
  BY <1>1, <1>2 DEF Latest
<1>4. x = [w EXCEPT !.version = v]
  BY <1>2
<1>5. /\ x \in Workflow /\ SameNews(w, x) /\ x.version = v
      /\ x.pc = w.pc /\ x.reply = w.reply /\ x.replied = w.replied /\ x.result = w.result
      /\ x.known = w.known /\ x.artifact = w.artifact
  BY <1>3, <1>4 DEF Workflow, SameNews
<1>6. WorkflowKnown(d, x)
  BY <1>3, <1>5 DEF WorkflowKnown, SameNews, ReleaseFits
<1> QED BY <1>3, <1>5, <1>6

LEMMA EndingKnown ==
    ASSUME NEW d \in Deployments, NEW w \in Workflow, WorkflowKnown(d, w),
           w.pc \notin {"none", "closed"}, Terminal(w)
    PROVE  Follows(d, w, Ending(w)) /\ SameNews(w, Ending(w))
<1>1. w.signals["cancellation"] # NoEvent
  BY DEF Terminal, WorkflowKnown
<1>2. PICK x : x = Ending(w)
  OBVIOUS
<1>3. x = [w EXCEPT !.pc = "canceling", !.reply = "none"]
  BY <1>1, <1>2 DEF Ending
<1>4. /\ x \in Workflow /\ x.pc = "canceling" /\ x.reply = "none" /\ x.result = w.result
      /\ x.version = w.version /\ x.replied = w.replied /\ SameNews(w, x)
  BY <1>3 DEF Workflow, SameNews
<1>5. w.version \in Nat
  BY DEF Workflow
<1>6. WorkflowKnown(d, x)
  BY <1>1, <1>4 DEF WorkflowKnown, SameNews, ReleaseFits
<1> QED BY <1>2, <1>4, <1>5, <1>6 DEF Follows

LEMMA UnlessKnown ==
    ASSUME NEW d \in Deployments, NEW w \in Workflow, WorkflowKnown(d, w),
           w.pc \notin {"none", "closed"}, NEW pc \in {"prepare", "awaiting_build"},
           pc = "awaiting_build" => w.known
    PROVE  Follows(d, w, Unless(w, pc)) /\ SameNews(w, Unless(w, pc))
<1>1. CASE Terminal(w)
  BY <1>1, EndingKnown DEF Unless
<1>2. CASE ~Terminal(w)
  <2>1. PICK x : x = Unless(w, pc)
    OBVIOUS
  <2>2. x = [w EXCEPT !.pc = pc, !.reply = "none"]
    BY <1>2, <2>1 DEF Unless
  <2>3. /\ x \in Workflow /\ x.pc = pc /\ x.reply = "none" /\ x.result = w.result
        /\ x.version = w.version /\ x.replied = w.replied /\ SameNews(w, x)
        /\ x.known = w.known
    BY <2>2 DEF Workflow, SameNews
  <2>4. w.version \in Nat
    BY DEF Workflow
  <2>5. WorkflowKnown(d, x)
    BY <2>3 DEF WorkflowKnown, SameNews, ReleaseFits
  <2> QED BY <2>1, <2>3, <2>4, <2>5 DEF Follows
<1> QED BY <1>1, <1>2

\* What came early and does not fit is forgotten.
LEMMA ValidatedKnown ==
    ASSUME NEW d \in Deployments, NEW w \in Workflow, WorkflowKnown(d, w),
           w.pc \in {"prepare", "awaiting_build"}, NEW slot \in {"build", "release"},
           NEW x, x = Validated(w, slot)
    PROVE  /\ x \in Workflow /\ WorkflowKnown(d, x)
           /\ x.version = w.version /\ x.pc = w.pc /\ x.known = w.known
           /\ x.artifact = w.artifact /\ x.seen = w.seen
           /\ x.signals[slot] # NoEvent => /\ x.signals[slot] = w.signals[slot]
                                           /\ x.signals[slot].version >= MinimumVersion(w, slot)
                                           /\ IdentityMatches(w, x.signals[slot])
           /\ \A s \in Slots : s # slot => x.signals[s] = w.signals[s]
<1> DEFINE e == w.signals[slot]
           keeps == e = NoEvent \/ (e.version >= MinimumVersion(w, slot) /\ IdentityMatches(w, e))
<1>1. CASE keeps
  <2>1. x = w
    BY <1>1 DEF Validated
  <2> QED BY <1>1, <2>1
<1>2. CASE ~keeps
  <2>1. slot \in Slots /\ w.signals \in [Slots -> Event \cup {NoEvent}]
    BY DEF Slots, Workflow
  <2>2. PICK f : f = [w.signals EXCEPT ![slot] = NoEvent]
    OBVIOUS
  <2>3. /\ f \in [Slots -> Event \cup {NoEvent}] /\ f[slot] = NoEvent
        /\ \A s \in Slots : s # slot => f[s] = w.signals[s]
    BY <2>1, <2>2
  <2>4. x = [w EXCEPT !.signals = f]
    BY <1>2, <2>2 DEF Validated
  <2>5. /\ x \in Workflow /\ x.signals = f /\ x.pc = w.pc /\ x.reply = w.reply
        /\ x.result = w.result /\ x.version = w.version /\ x.replied = w.replied
        /\ x.known = w.known /\ x.artifact = w.artifact /\ x.seen = w.seen
        /\ x.conflict = w.conflict
    BY <2>3, <2>4 DEF Workflow
  <2>6. WorkflowKnown(d, x)
    BY <2>3, <2>5 DEF WorkflowKnown
  <2> QED BY <2>1, <2>3, <2>5, <2>6
<1> QED BY <1>1, <1>2

\* A signal that was accepted tells what is so.
LEMMA SignalKnown ==
    ASSUME OrchInv, NEW d \in Deployments, NEW s \in Slots, wf[d].signals[s] # NoEvent
    PROVE  /\ wf[d].signals[s] \in wf[d].seen /\ wf[d].signals[s].type = s
           /\ wf[d].signals[s].id = d /\ EventKnown(wf[d].signals[s])
  BY DEF OrchInv, WorkflowsKnown, WorkflowKnown, EventsKnown

LEMMA ResumeKnown ==
    ASSUME OrchInv, NEW d \in Deployments, Resume(d)
    PROVE  \E x : Becomes(d, x) /\ Follows(d, wf[d], x) /\ x.seen = wf[d].seen
<1>1. PICK w : w = wf[d]
  OBVIOUS
<1>2. w \in Workflow /\ WorkflowKnown(d, w)
  BY <1>1 DEF OrchInv, OrchTypeOK, WorkflowsKnown
<1>3. w.reply # "none" /\ w.pc \in {"acknowledge", "prepare", "canceling"}
  BY <1>1, <1>2 DEF Resume, WorkflowKnown
<1>4. PICK l : l = [w EXCEPT !.version = Latest(@, w.replied)]
  OBVIOUS
<1>5. /\ l \in Workflow /\ WorkflowKnown(d, l) /\ SameNews(w, l) /\ l.version >= w.version
      /\ l.pc = w.pc /\ l.reply = w.reply /\ l.replied = w.replied /\ l.result = w.result
  BY <1>2, <1>3, <1>4, LatestKnown
<1>6. PICK u : u = [l EXCEPT !.buildVersion = w.replied, !.known = TRUE]
  OBVIOUS
<1>7. PICK v : v = Validated(u, "build")
  OBVIOUS
<1>8. Becomes(d, IF w.reply = "error" THEN Closed(w, "failed_observed")
                 ELSE IF w.reply = "stale" THEN Closed(l, "stale_observed")
                 ELSE IF w.pc = "acknowledge" THEN Unless(w, "prepare")
                 ELSE IF w.pc = "canceling" THEN Closed(l, "canceled_observed")
                 ELSE Unless(v, "awaiting_build"))
  BY <1>1, <1>4, <1>6, <1>7 DEF Resume
<1>9. /\ w.version \in Nat /\ l.version \in Nat /\ w.reply \in {"none", "ok", "stale", "error"}
  BY <1>2, <1>5 DEF Workflow
<1>10. ASSUME NEW x, Becomes(d, x), Follows(d, w, x), SameNews(w, x)
       PROVE  \E y : Becomes(d, y) /\ Follows(d, wf[d], y) /\ y.seen = wf[d].seen
  BY <1>1, <1>10 DEF SameNews
<1>11. ASSUME NEW x, Becomes(d, x), Follows(d, l, x), SameNews(l, x)
       PROVE  \E y : Becomes(d, y) /\ Follows(d, wf[d], y) /\ y.seen = wf[d].seen
  <2>1. x.version \in Nat
    BY <1>11 DEF Follows, Workflow
  <2>2. Follows(d, w, x) /\ SameNews(w, x)
    BY <1>5, <1>9, <1>11, <2>1 DEF Follows, SameNews
  <2> QED BY <1>10, <1>11, <2>2
<1>12. CASE w.reply = "error"
  <2>1. Follows(d, w, Closed(w, "failed_observed")) /\ SameNews(w, Closed(w, "failed_observed"))
    BY <1>2, <1>3, ClosedKnown DEF Results
  <2> QED BY <1>8, <1>10, <1>12, <2>1
<1>13. CASE w.reply = "stale"
  <2>1. Follows(d, l, Closed(l, "stale_observed")) /\ SameNews(l, Closed(l, "stale_observed"))
    BY <1>3, <1>5, ClosedKnown DEF Results
  <2> QED BY <1>8, <1>11, <1>13, <2>1
<1>14. CASE w.reply = "ok" /\ w.pc = "acknowledge"
  <2>1. Follows(d, w, Unless(w, "prepare")) /\ SameNews(w, Unless(w, "prepare"))
    BY <1>2, <1>3, UnlessKnown
  <2> QED BY <1>8, <1>10, <1>14, <2>1
<1>15. CASE w.reply = "ok" /\ w.pc = "canceling"
  <2>1. PassedOn(d)
    BY <1>2, <1>15 DEF WorkflowKnown
  <2>2. /\ Follows(d, l, Closed(l, "canceled_observed"))
        /\ SameNews(l, Closed(l, "canceled_observed"))
    BY <1>3, <1>5, <2>1, ClosedKnown DEF Results
  <2> QED BY <1>8, <1>11, <1>15, <2>2
<1>16. CASE w.reply = "ok" /\ w.pc = "prepare"
  <2>1. PICK t \in BOOLEAN : t = TRUE
    OBVIOUS
  <2>2. u = [l EXCEPT !.buildVersion = w.replied, !.known = t]
    BY <1>6, <2>1
  <2>3. w.replied \in Nat
    BY <1>2 DEF Workflow
  <2>4. /\ u \in Workflow /\ SameNews(l, u) /\ u.version = l.version /\ u.pc = l.pc
        /\ u.reply = l.reply /\ u.replied = l.replied /\ u.result = l.result /\ u.known = t
    BY <1>5, <2>2, <2>3 DEF Workflow, SameNews
  <2>5. WorkflowKnown(d, u)
    BY <1>5, <1>16, <2>4 DEF WorkflowKnown, SameNews
  <2>6. /\ v \in Workflow /\ WorkflowKnown(d, v) /\ v.version = u.version /\ v.pc = u.pc
        /\ v.known = u.known /\ v.seen = u.seen
    BY <1>5, <1>7, <1>16, <2>4, <2>5, ValidatedKnown
  <2>7. PICK x : x = Unless(v, "awaiting_build")
    OBVIOUS
  <2>8. Follows(d, v, x) /\ SameNews(v, x)
    BY <1>5, <1>16, <2>1, <2>4, <2>6, <2>7, UnlessKnown
  <2>9. x.version \in Nat
    BY <2>8 DEF Follows, Workflow
  <2>10. Follows(d, w, x) /\ x.seen = w.seen
    BY <1>3, <1>5, <1>9, <2>4, <2>6, <2>8, <2>9 DEF Follows, SameNews
  <2> QED BY <1>1, <1>8, <1>16, <2>7, <2>10
<1> QED BY <1>3, <1>9, <1>12, <1>13, <1>14, <1>15, <1>16

LEMMA BuildObservedKnown ==
    ASSUME OrchInv, NEW d \in Deployments, BuildObserved(d)
    PROVE  \E x : Becomes(d, x) /\ Follows(d, wf[d], x) /\ x.seen = wf[d].seen
<1>1. PICK w : w = wf[d]
  OBVIOUS
<1>2. w \in Workflow /\ WorkflowKnown(d, w) /\ w.pc = "awaiting_build"
  BY <1>1 DEF OrchInv, OrchTypeOK, WorkflowsKnown, BuildObserved
<1>3. CASE Terminal(w)
  <2>1. Follows(d, w, Ending(w)) /\ SameNews(w, Ending(w))
    BY <1>2, <1>3, EndingKnown
  <2>2. Becomes(d, Ending(w))
    BY <1>1, <1>3 DEF BuildObserved
  <2> QED BY <1>1, <2>1, <2>2 DEF SameNews
<1>4. CASE ~Terminal(w) /\ w.signals["build"].status = "failed"
  <2>1. Follows(d, w, Closed(w, "failed_observed")) /\ SameNews(w, Closed(w, "failed_observed"))
    BY <1>2, ClosedKnown DEF Results
  <2>2. Becomes(d, Closed(w, "failed_observed"))
    BY <1>1, <1>4 DEF BuildObserved
  <2> QED BY <1>1, <2>1, <2>2 DEF SameNews
<1>5. CASE ~Terminal(w) /\ w.signals["build"].status # "failed"
  <2>1. w.signals["build"] # NoEvent
    BY <1>1, <1>5 DEF BuildObserved
  <2>2. w.signals["build"].status = "completed"
    BY <1>1, <1>5, <2>1, SignalKnown DEF EventKnown, Slots
  <2>3. PICK u, v, x : /\ u = [w EXCEPT !.artifact = TRUE] /\ v = Validated(u, "release")
                       /\ x = [v EXCEPT !.pc = "awaiting_release"]
    OBVIOUS
  <2>4. Becomes(d, x)
    BY <1>1, <1>5, <2>3 DEF BuildObserved
  <2>5. PICK t \in BOOLEAN : t = TRUE
    OBVIOUS
  <2>6. u = [w EXCEPT !.artifact = t]
    BY <2>3, <2>5
  <2>7. /\ u \in Workflow /\ SameNews(w, u) /\ u.version = w.version /\ u.pc = w.pc
        /\ u.reply = w.reply /\ u.replied = w.replied /\ u.result = w.result
        /\ u.known = w.known /\ u.artifact = t
    BY <1>2, <2>6 DEF Workflow, SameNews
  <2>8. WorkflowKnown(d, u)
    BY <1>2, <2>7 DEF WorkflowKnown, SameNews
  <2>9. /\ v \in Workflow /\ WorkflowKnown(d, v)
        /\ v.version = u.version /\ v.pc = u.pc /\ v.known = u.known
        /\ v.artifact = u.artifact /\ v.seen = u.seen
        /\ v.signals["release"] # NoEvent =>
              /\ v.signals["release"] = u.signals["release"]
              /\ v.signals["release"].version >= MinimumVersion(u, "release")
              /\ IdentityMatches(u, v.signals["release"])
        /\ v.signals["build"] = u.signals["build"]
    <3>1. u.pc \in {"prepare", "awaiting_build"} /\ v = Validated(u, "release")
      BY <1>2, <2>3, <2>7
    <3>2. /\ v \in Workflow /\ WorkflowKnown(d, v)
          /\ v.version = u.version /\ v.pc = u.pc /\ v.known = u.known
          /\ v.artifact = u.artifact /\ v.seen = u.seen
          /\ v.signals["release"] # NoEvent =>
                /\ v.signals["release"] = u.signals["release"]
                /\ v.signals["release"].version >= MinimumVersion(u, "release")
                /\ IdentityMatches(u, v.signals["release"])
          /\ \A s \in Slots : s # "release" => v.signals[s] = u.signals[s]
      <4>1. "release" \in {"build", "release"}
        OBVIOUS
      <4> QED BY <2>7, <2>8, <3>1, <4>1, ValidatedKnown, ZenonT(60)
    <3> QED BY <3>2 DEF Slots
  <2>10. /\ x \in Workflow /\ SameNews(v, x) /\ x.version = v.version
         /\ x.pc = "awaiting_release" /\ x.reply = v.reply /\ x.replied = v.replied
         /\ x.result = v.result /\ x.known = v.known /\ x.artifact = v.artifact
    BY <2>3, <2>9, ZenonT(60) DEF Workflow, SameNews
  <2>11. w.known
    BY <1>2 DEF WorkflowKnown
  <2>12. x.signals["release"] # NoEvent => ReleaseFits(x)
    <3> SUFFICES ASSUME x.signals["release"] # NoEvent PROVE ReleaseFits(x)
      OBVIOUS
    <3>1. PICK e : e = v.signals["release"]
      OBVIOUS
    <3>2. e.type = "release"
      BY <2>9, <2>10, <3>1 DEF WorkflowKnown, SameNews, Slots
    <3>3. e.version >= u.signals["build"].version
      BY <2>1, <2>7, <2>9, <2>10, <3>1 DEF MinimumVersion, SameNews
    <3>4. e.status = "ready" => e.match
      BY <2>5, <2>7, <2>9, <2>10, <2>11, <3>1, <3>2 DEF IdentityMatches, SameNews
    <3> QED BY <2>9, <2>10, <3>1, <3>3, <3>4 DEF ReleaseFits, SameNews
  <2>13. WorkflowKnown(d, x)
    BY <1>2, <2>1, <2>2, <2>5, <2>7, <2>9, <2>10, <2>11, <2>12 DEF WorkflowKnown, SameNews
  <2>14. w.version \in Nat
    BY <1>2 DEF Workflow
  <2>15. Follows(d, w, x) /\ x.seen = w.seen
    BY <1>2, <2>7, <2>9, <2>10, <2>13, <2>14 DEF Follows, SameNews
  <2> QED BY <1>1, <2>4, <2>15
<1> QED BY <1>3, <1>4, <1>5

LEMMA ReleaseObservedKnown ==
    ASSUME OrchInv, NEW d \in Deployments, ReleaseObserved(d)
    PROVE  \E x : Becomes(d, x) /\ Follows(d, wf[d], x) /\ x.seen = wf[d].seen
<1>1. PICK w : w = wf[d]
  OBVIOUS
<1>2. w \in Workflow /\ WorkflowKnown(d, w) /\ w.pc = "awaiting_release"
  BY <1>1 DEF OrchInv, OrchTypeOK, WorkflowsKnown, ReleaseObserved
<1>3. CASE Terminal(w)
  <2>1. Follows(d, w, Ending(w)) /\ SameNews(w, Ending(w))
    BY <1>2, <1>3, EndingKnown
  <2>2. Becomes(d, Ending(w))
    BY <1>1, <1>3 DEF ReleaseObserved
  <2> QED BY <1>1, <2>1, <2>2 DEF SameNews
<1>4. CASE ~Terminal(w)
  <2>1. PICK r : r = CASE w.signals["release"].status = "ready"  -> "ready_observed"
                       [] w.signals["release"].status = "failed" -> "failed_observed"
                       [] OTHER                                  -> "canceled_observed"
    OBVIOUS
  <2>2. /\ r \in Results
        /\ r = "ready_observed" => w.signals["release"].status = "ready"
    BY <2>1 DEF Results
  <2>3. Becomes(d, Closed(w, r)) /\ w.signals["release"] # NoEvent
    BY <1>1, <1>4, <2>1 DEF ReleaseObserved
  <2>4. w.signals["cancellation"] = NoEvent
    BY <1>4 DEF Terminal
  <2>5. Follows(d, w, Closed(w, r)) /\ SameNews(w, Closed(w, r))
    BY <1>2, <2>2, <2>3, <2>4, ClosedKnown
  <2> QED BY <1>1, <2>3, <2>5 DEF SameNews
<1> QED BY <1>3, <1>4

\* What the steps of a workflow do to all workflows.
Forward ==
    \A d \in Deployments : /\ wf'[d].version >= wf[d].version
                           /\ wf[d].pc = "closed" => wf'[d] = wf[d]

LEMMA UnchangedForward ==
    ASSUME OrchTypeOK, UNCHANGED wf
    PROVE  Forward
  BY DEF Forward, OrchTypeOK, Workflow

LEMMA FollowsForward ==
    ASSUME OrchTypeOK, NEW d \in Deployments, NEW x, Becomes(d, x),
           x.version >= wf[d].version, wf[d].pc = "closed" => x = wf[d]
    PROVE  Forward
<1>1. wf'[d] = x /\ \A e \in Deployments : e # d => wf'[e] = wf[e]
  BY DEF Becomes, OrchTypeOK
<1>2. \A e \in Deployments : wf[e].version >= wf[e].version
  BY DEF OrchTypeOK, Workflow
<1> QED BY <1>1, <1>2 DEF Forward

LEMMA WorkflowInv ==
    ASSUME OrchInv, NEW d \in Deployments, WorkflowStep(d)
    PROVE  OrchInv' /\ Forward
<1>1. PICK x : Becomes(d, x) /\ Follows(d, wf[d], x) /\ x.seen = wf[d].seen
  BY ResumeKnown, BuildObservedKnown, ReleaseObservedKnown DEF WorkflowStep
<1>2. UNCHANGED <<cpVars, events, released, faults>>
  BY DEF WorkflowStep, Resume, BuildObserved, ReleaseObserved
<1>3. OrchTypeOK /\ CPTypeOK /\ LivesKnown /\ CommandsKnown
  BY DEF OrchInv, OrchTypeOK
<1>4. Grows /\ CPTypeOK'
  BY <1>2, <1>3, NothingMoves DEF CPTypeOK, cpVars
<1>5. x \in Workflow /\ WorkflowKnown(d, x)'
  BY <1>1, <1>3, <1>4, WorkflowStays DEF Follows
<1>6. Waiting' \subseteq Waiting /\ events' \in Seq(Event) /\ faults' \in 0..MaxFaults
  BY <1>2, <1>3 DEF Waiting, OrchTypeOK
<1>7. OrchInv'
  BY <1>1, <1>2, <1>4, <1>5, <1>6, ChangedInv
<1>8. Forward
  BY <1>1, <1>3, FollowsForward DEF Follows
<1> QED BY <1>7, <1>8

-----------------------------------------------------------------------------
(***************************************************************************)
(* The activities.                                                         *)
(***************************************************************************)
LEMMA RepliesInv ==
    ASSUME OrchInv, CPTypeOK', Grows, UNCHANGED <<events, released>>,
           faults' \in 0..MaxFaults, NEW d \in Deployments,
           NEW reply \in {"ok", "stale", "error"}, NEW v \in Nat,
           wf[d].pc \in {"acknowledge", "prepare", "canceling"},
           Replies(d, reply, v), v <= dep'[d].version,
           wf[d].pc = "canceling" /\ reply = "ok" => PassedOn(d)'
    PROVE  OrchInv' /\ Forward
<1>1. PICK w, x : w = wf[d] /\ x = [w EXCEPT !.reply = reply, !.replied = v]
  OBVIOUS
<1>2. OrchTypeOK /\ CPTypeOK /\ LivesKnown /\ CommandsKnown
  BY DEF OrchInv, OrchTypeOK
<1>3. w \in Workflow /\ WorkflowKnown(d, w)
  BY <1>1, <1>2 DEF OrchInv, OrchTypeOK, WorkflowsKnown
<1>4. WorkflowKnown(d, w)'
  BY <1>2, <1>3, WorkflowStays
<1>5. /\ x \in Workflow /\ SameNews(w, x) /\ x.reply = reply /\ x.replied = v
      /\ x.version = w.version /\ x.pc = w.pc /\ x.result = w.result
      /\ x.known = w.known /\ x.artifact = w.artifact
  BY <1>1, <1>3 DEF Workflow, SameNews
<1>6. w.pc \in {"acknowledge", "prepare", "canceling"} /\ (w.pc = "canceling" /\ reply = "ok" => PassedOn(d)')
  BY <1>1
<1>7. WorkflowKnown(d, x)'
  BY <1>4, <1>5, <1>6 DEF WorkflowKnown, SameNews, ReleaseFits
<1>8. Becomes(d, x)
  BY <1>1 DEF Replies
<1>9. Waiting' \subseteq Waiting /\ events' \in Seq(Event)
  BY <1>2 DEF Waiting, OrchTypeOK
<1>10. x.seen = wf[d].seen
  BY <1>1, <1>5 DEF SameNews
<1>11. OrchInv'
  BY <1>5, <1>7, <1>8, <1>9, <1>10, ChangedInv
<1>12. w.version \in Nat
  BY <1>3 DEF Workflow
<1>13. w = wf[d]
  BY <1>1
<1>14. x.version >= wf[d].version /\ wf[d].pc # "closed"
  BY <1>5, <1>6, <1>12, <1>13
<1>15. Forward
  BY <1>2, <1>8, <1>14, FollowsForward
<1> QED BY <1>11, <1>15

LEMMA AcknowledgeInv ==
    ASSUME OrchInv, NEW d \in Deployments, Acknowledge(d)
    PROVE  OrchInv' /\ Forward
<1>1. /\ OrchTypeOK /\ CPTypeOK /\ LivesKnown /\ CommandsKnown
      /\ UNCHANGED <<cpVars, events, released, faults>> /\ wf[d].pc = "acknowledge"
  BY DEF OrchInv, OrchTypeOK, Acknowledge, Asks
<1>2. Grows /\ CPTypeOK'
  BY <1>1, NothingMoves DEF CPTypeOK, cpVars
<1>3. PICK v, reply : /\ v = dep[d].version
                      /\ reply = IF Current(DeployOf(d)) THEN "ok" ELSE "stale"
  OBVIOUS
<1>4. v \in Nat /\ v <= dep'[d].version /\ reply \in {"ok", "stale", "error"}
  BY <1>1, <1>3 DEF CPTypeOK, Deployment, cpVars
<1>5. Replies(d, reply, v)
  BY <1>3 DEF Acknowledge
<1>6. faults' \in 0..MaxFaults
  BY <1>1 DEF OrchTypeOK
<1> QED BY <1>1, <1>2, <1>4, <1>5, <1>6, RepliesInv

LEMMA FailsInv ==
    ASSUME OrchestratorAssumption, OrchInv, NEW d \in Deployments, ActivityFails(d)
    PROVE  OrchInv' /\ Forward
<1>1. /\ OrchTypeOK /\ CPTypeOK /\ LivesKnown /\ CommandsKnown
      /\ UNCHANGED <<cpVars, events, released>>
      /\ wf[d].pc \in {"acknowledge", "prepare", "canceling"} /\ Replies(d, "error", 0)
  BY DEF OrchInv, OrchTypeOK, ActivityFails, Asks
<1>2. Grows /\ CPTypeOK'
  BY <1>1, NothingMoves DEF CPTypeOK, cpVars
<1>3. faults' \in 0..MaxFaults
  BY <1>1 DEF OrchTypeOK, OrchestratorAssumption, ActivityFails, Fault
<1>4. PICK v \in Nat, reply \in {"ok", "stale", "error"} : v = 0 /\ reply = "error"
  OBVIOUS
<1>5. v <= dep'[d].version
  BY <1>2, <1>4 DEF CPTypeOK, Deployment
<1>6. Replies(d, reply, v) /\ ~(wf[d].pc = "canceling" /\ reply = "ok")
  BY <1>1, <1>4
<1>7. wf[d].pc \in {"acknowledge", "prepare", "canceling"} /\ UNCHANGED <<events, released>>
  BY <1>1
<1> QED BY <1>2, <1>3, <1>5, <1>6, <1>7, RepliesInv

\* The answer of an activity was lost: nothing but the control plane moved.
LEMMA LostInv ==
    ASSUME OrchestratorAssumption, OrchInv, CPTypeOK', Grows, Fault,
           UNCHANGED <<events, released, wf>>
    PROVE  OrchInv' /\ Forward
<1>1. OrchTypeOK
  BY DEF OrchInv
<1>2. faults' \in 0..MaxFaults /\ released' \subseteq Deployments /\ released \subseteq released'
  BY <1>1 DEF OrchTypeOK, OrchestratorAssumption, Fault
<1> QED BY <1>1, <1>2, PublishedInv, UnchangedForward

LEMMA PrepareInv ==
    ASSUME OrchestratorAssumption, OrchInv, CPInv', NEW d \in Deployments, PrepareBuild(d)
    PROVE  OrchInv' /\ Forward
<1>1. /\ OrchTypeOK /\ CPTypeOK /\ CPTypeOK' /\ LivesKnown /\ CommandsKnown
      /\ UNCHANGED <<events, released>> /\ wf[d].pc = "prepare"
  BY DEF OrchInv, OrchTypeOK, CPInv, PrepareBuild, Asks
<1>2. PICK three \in Nat, zero \in Nat, ok \in {"ok"}, error \in {"error"} :
        three = 3 /\ zero = 0
  OBVIOUS
<1>3. CASE PreparedBefore(d)
  <2>1. Replies(d, ok, three) /\ UNCHANGED <<cpVars, faults>>
    BY <1>2, <1>3 DEF PrepareBuild
  <2>2. Grows /\ faults' \in 0..MaxFaults
    BY <1>1, <2>1, NothingMoves DEF OrchTypeOK
  <2>3. dep[d].version >= 3 /\ dep[d].version \in Nat
    BY <1>1, <1>3 DEF PreparedBefore, LivesKnown, Life, CPTypeOK, Deployment
  <2>4. three <= dep'[d].version
    BY <1>2, <2>1, <2>3 DEF cpVars
  <2>5. ok \in {"ok", "stale", "error"} /\ wf[d].pc \in {"acknowledge", "prepare", "canceling"}
        /\ wf[d].pc # "canceling"
    BY <1>1, <1>2
  <2> QED BY <1>1, <2>1, <2>2, <2>4, <2>5, RepliesInv
<1>4. CASE ~PreparedBefore(d) /\ Current(DeployOf(d))
  <2>1. Prepare(DeployOf(d))
    BY <1>4 DEF PrepareBuild
  <2>2. Grows /\ dep'[d].version = 3
    BY <1>1, <2>1, PrepareGrows
  <2>3. CASE Replies(d, "ok", 3) /\ UNCHANGED faults
    <3>1. Replies(d, ok, three) /\ faults' \in 0..MaxFaults
      BY <1>1, <1>2, <2>3 DEF OrchTypeOK
    <3>2. three <= dep'[d].version
      BY <1>2, <2>2
    <3>3. ok \in {"ok", "stale", "error"} /\ wf[d].pc \in {"acknowledge", "prepare", "canceling"}
          /\ wf[d].pc # "canceling"
      BY <1>1, <1>2
    <3> QED BY <1>1, <2>2, <3>1, <3>2, <3>3, RepliesInv
  <2>4. CASE Fault /\ UNCHANGED wf
    BY <1>1, <2>2, <2>4, LostInv
  <2> QED BY <1>4, <2>3, <2>4 DEF PrepareBuild
<1>5. CASE ~PreparedBefore(d) /\ ~Current(DeployOf(d))
  <2>1. Replies(d, error, zero) /\ UNCHANGED <<cpVars, faults>>
    BY <1>2, <1>5 DEF PrepareBuild
  <2>2. Grows /\ faults' \in 0..MaxFaults
    BY <1>1, <2>1, NothingMoves DEF OrchTypeOK
  <2>3. zero <= dep'[d].version
    BY <1>1, <1>2 DEF CPTypeOK, Deployment
  <2>4. error \in {"ok", "stale", "error"} /\ wf[d].pc \in {"acknowledge", "prepare", "canceling"}
        /\ wf[d].pc # "canceling"
    BY <1>1, <1>2
  <2> QED BY <1>1, <2>1, <2>2, <2>3, <2>4, RepliesInv
<1> QED BY <1>3, <1>4, <1>5

LEMMA RequestInv ==
    ASSUME OrchestratorAssumption, OrchInv, CPInv', NEW d \in Deployments, RequestCancellation(d)
    PROVE  OrchInv' /\ Forward
<1>1. /\ OrchTypeOK /\ CPTypeOK /\ CPTypeOK' /\ LivesKnown /\ CommandsKnown
      /\ UNCHANGED <<events, released>> /\ wf[d].pc = "canceling"
  BY DEF OrchInv, OrchTypeOK, CPInv, RequestCancellation, Asks
<1>2. /\ wf[d].pc \in {"acknowledge", "prepare", "canceling"}
      /\ dep[d].version \in Nat /\ dep'[d].version \in Nat
  BY <1>1 DEF CPTypeOK, Deployment
<1>3. PICK v \in Nat, zero \in Nat, ok \in {"ok"}, error \in {"error"} :
        v = dep'[d].version /\ zero = 0
  BY <1>2
<1>4. CASE dep[d].status = "canceled"
  <2>1. Replies(d, "ok", dep[d].version) /\ UNCHANGED <<cpVars, faults>>
    BY <1>4 DEF RequestCancellation
  <2>2. Grows /\ faults' \in 0..MaxFaults
    BY <1>1, <2>1, NothingMoves DEF OrchTypeOK
  <2>3. dep' = dep
    BY <2>1 DEF cpVars
  <2>4. Replies(d, ok, v) /\ v <= dep'[d].version
    BY <1>3, <2>1, <2>3
  <2>5. PassedOn(d)'
    BY <1>4, <2>3 DEF PassedOn
  <2>6. ok \in {"ok", "stale", "error"}
    BY <1>3
  <2> QED BY <1>1, <1>2, <2>2, <2>4, <2>5, <2>6, RepliesInv
<1>5. CASE dep[d].status # "canceled" /\ Current(CancelOf(d))
  <2>1. RequestBuildCancellation(CancelOf(d))
    BY <1>5 DEF RequestCancellation
  <2>2. Grows /\ PassedOn(d)'
    BY <1>1, <2>1, RequestGrows
  <2>3. CASE Replies(d, "ok", dep'[d].version) /\ UNCHANGED faults
    <3>1. Replies(d, ok, v) /\ faults' \in 0..MaxFaults /\ v <= dep'[d].version
      BY <1>1, <1>3, <2>3 DEF OrchTypeOK
    <3>2. ok \in {"ok", "stale", "error"}
      BY <1>3
    <3> QED BY <1>1, <1>2, <2>2, <3>1, <3>2, RepliesInv
  <2>4. CASE Fault /\ UNCHANGED wf
    BY <1>1, <2>2, <2>4, LostInv
  <2> QED BY <1>5, <2>3, <2>4 DEF RequestCancellation
<1>6. CASE dep[d].status # "canceled" /\ ~Current(CancelOf(d))
  <2>1. Replies(d, error, zero) /\ UNCHANGED <<cpVars, faults>>
    BY <1>3, <1>6 DEF RequestCancellation
  <2>2. Grows /\ faults' \in 0..MaxFaults
    BY <1>1, <2>1, NothingMoves DEF OrchTypeOK
  <2>3. zero <= dep'[d].version
    BY <1>2, <1>3
  <2>4. error \in {"ok", "stale", "error"} /\ error # "ok"
    BY <1>3
  <2> QED BY <1>1, <1>2, <2>1, <2>2, <2>3, <2>4, RepliesInv
<1> QED BY <1>4, <1>5, <1>6

-----------------------------------------------------------------------------
(***************************************************************************)
(* The delivery of an event.                                               *)
(***************************************************************************)
LEMMA AppendElements ==
    ASSUME NEW S, NEW t \in Seq(S), NEW e \in S, NEW q, q = Append(t, e)
    PROVE  q \in Seq(S) /\ \A i \in DOMAIN q : q[i] = e \/ \E j \in DOMAIN t : q[i] = t[j]
<1>1. q \in Seq(S) /\ Len(q) = Len(t) + 1 /\ Len(t) \in Nat
  OBVIOUS
<1>2. DOMAIN q = 1..(Len(t) + 1) /\ DOMAIN t = 1..Len(t)
  BY <1>1
<1>3. (\A i \in 1..Len(t) : q[i] = t[i]) /\ q[Len(t) + 1] = e
  BY <1>1
<1>4. \A i \in 1..(Len(t) + 1) : i \in 1..Len(t) \/ i = Len(t) + 1
  BY <1>1
<1> QED BY <1>1, <1>2, <1>3, <1>4

LEMMA Delivered ==
    ASSUME events \in Seq(Event), events # <<>>,
           \/ events' = Tail(events)
           \/ events' = Append(Tail(events), Head(events))
    PROVE  /\ Head(events) \in Event /\ Head(events) \in Waiting
           /\ events' \in Seq(Event) /\ Waiting' \subseteq Waiting
<1> DEFINE e == Head(events)
           t == Tail(events)
<1>1. /\ e \in Event /\ t \in Seq(Event) /\ Len(events) \in Nat /\ Len(events) > 0
      /\ DOMAIN events = 1..Len(events) /\ e = events[1]
      /\ Len(t) = Len(events) - 1 /\ DOMAIN t = 1..Len(t)
      /\ \A i \in 1..Len(t) : t[i] = events[i + 1]
  OBVIOUS
<1>2. e \in Waiting
  BY <1>1 DEF Waiting
<1>3. \A i \in DOMAIN t : t[i] \in Waiting
  <2>1. \A i \in DOMAIN t : i + 1 \in DOMAIN events
    BY <1>1
  <2> QED BY <1>1, <2>1 DEF Waiting
<1> HIDE DEF e, t
<1>4. CASE events' = t
  BY <1>1, <1>2, <1>3, <1>4 DEF Waiting, e
<1>5. CASE events' = Append(t, e)
  <2>0. PICK q : q = events'
    OBVIOUS
  <2>1. PICK u \in Seq(Event), f \in Event : u = t /\ f = e
    BY <1>1
  <2>2. q = Append(u, f)
    BY <1>5, <2>0, <2>1
  <2>3. q \in Seq(Event) /\ \A i \in DOMAIN q : q[i] = f \/ \E j \in DOMAIN u : q[i] = u[j]
    BY <2>2, AppendElements
  <2>4. \A i \in DOMAIN events' : events'[i] \in Waiting
    BY <1>2, <1>3, <2>0, <2>1, <2>3
  <2> QED BY <1>1, <1>2, <2>0, <2>1, <2>3, <2>4 DEF Waiting, e
<1> QED BY <1>4, <1>5 DEF e, t

\* What the workflow w of d becomes when it is told of e.
Told(d, w, e, x) ==
    /\ x \in Workflow /\ WorkflowKnown(d, x)
    /\ x.version >= w.version
    /\ w.pc = "closed" => x = w
    /\ x.seen \subseteq w.seen \cup IF e.type \in Slots THEN {e} ELSE {}

LEMMA StartedKnown ==
    ASSUME NEW d \in Deployments, NEW w \in Workflow, WorkflowKnown(d, w), dep[d] \in Deployment,
           NEW e \in Event, e.id = d, e.type = "start", EventKnown(e)
    PROVE  Told(d, w, e, Started(w, e))
<1>1. CASE w.pc # "none"
  BY <1>1 DEF Started, Told, Workflow
<1>2. CASE w.pc = "none"
  <2>0. PICK f \in BOOLEAN : f = FALSE
    OBVIOUS
  <2>1. PICK g : g = [s \in Slots |-> NoEvent]
    OBVIOUS
  <2>2. PICK x : x = Started(w, e)
    OBVIOUS
  <2>3. e.version = 0 /\ dep[d].status # "none" /\ dep[d].version \in Nat
    BY DEF EventKnown, Deployment
  <2>4. x = [pc |-> "acknowledge", reply |-> "none", replied |-> 0, version |-> 0,
             buildVersion |-> 0, known |-> f, artifact |-> f, signals |-> g, seen |-> {},
             conflict |-> f, result |-> "none"]
    <3>1. x = [NoWorkflow EXCEPT !.pc = "acknowledge", !.version = 0]
      BY <1>2, <2>2, <2>3 DEF Started
    <3>2. NoWorkflow = [pc |-> "none", reply |-> "none", replied |-> 0, version |-> 0,
             buildVersion |-> 0, known |-> f, artifact |-> f, signals |-> g, seen |-> {},
             conflict |-> f, result |-> "none"]
      BY <2>0, <2>1 DEF NoWorkflow
    <3> QED BY <3>1, <3>2
  <2>5. /\ g \in [Slots -> Event \cup {NoEvent}] /\ \A s \in Slots : g[s] = NoEvent
    BY <2>1
  <2>6. x \in Workflow
    BY <2>4, <2>5 DEF Workflow
  <2>7. ~x.conflict
    BY <2>0, <2>4
  <2>8. WorkflowKnown(d, x)
    BY <2>3, <2>4, <2>5, <2>7 DEF WorkflowKnown, Slots
  <2>9. w.version = 0 /\ x.version = 0 /\ x.seen = {}
    BY <1>2, <2>4 DEF WorkflowKnown
  <2> QED BY <1>2, <2>2, <2>6, <2>8, <2>9 DEF Told
<1> QED BY <1>1, <1>2

LEMMA AcceptedKnown ==
    ASSUME OrchInv, NEW d \in Deployments, NEW w, w = wf[d], w.pc \notin {"none", "closed"},
           NEW e \in Event, e \in Waiting, e.id = d, e.type \in Slots
    PROVE  Told(d, w, e, Accepted(w, e))
<1>1. /\ w \in Workflow /\ WorkflowKnown(d, w) /\ EventKnown(e) /\ dep[d] \in Deployment
  BY DEF OrchInv, OrchTypeOK, CPTypeOK, WorkflowsKnown, EventsKnown
<1>2. CASE Accepted(w, e) = w
  BY <1>1, <1>2 DEF Told, Workflow
<1>3. CASE Accepted(w, e) # w
  <2> DEFINE refused == e \in w.seen \/ e.version < MinimumVersion(w, e.type) \/ ~IdentityMatches(w, e)
  <2>0. ~refused
    BY <1>3 DEF Accepted
  <2>1. /\ e \notin w.seen /\ e.version >= MinimumVersion(w, e.type) /\ IdentityMatches(w, e)
    <3>1. MinimumVersion(w, e.type) \in Nat /\ e.version \in Nat
      BY <1>1 DEF MinimumVersion, Workflow, Event, Slots
    <3> QED BY <2>0, <3>1
  <2>2. w.signals[e.type] = NoEvent
    <3>1. SUFFICES ASSUME w.signals[e.type] # NoEvent PROVE FALSE
      OBVIOUS
    <3>2. PICK f : f = w.signals[e.type]
      OBVIOUS
    <3>3. f \in w.seen /\ f.type = e.type /\ f.id = d
      BY <3>1, <3>2, SignalKnown
    <3>4. e \in Known(d) /\ f \in Known(d)
      BY <3>3 DEF Known
    <3>5. e = f
      BY <3>3, <3>4 DEF OrchInv, EventsKnown
    <3> QED BY <2>1, <3>3, <3>5
  <2>3. PICK x, v, g : /\ x = Accepted(w, e) /\ v = Latest(w.version, e.version)
                       /\ g = [w.signals EXCEPT ![e.type] = e]
    OBVIOUS
  <2>4. x = [w EXCEPT !.version = v, !.seen = @ \cup {e}, !.signals = g]
    <3>1. x = [w EXCEPT !.version = Latest(@, e.version), !.seen = @ \cup {e},
                        !.signals[e.type] = e]
      BY <2>0, <2>2, <2>3 DEF Accepted
    <3> QED BY <2>3, <3>1
  <2>5. w.version \in Nat /\ e.version \in Nat /\ w.signals \in [Slots -> Event \cup {NoEvent}]
        /\ w.seen \subseteq Event
    BY <1>1 DEF Workflow, Event
  <2>6. v \in Nat /\ v >= w.version /\ v \in {w.version, e.version}
    BY <2>3, <2>5 DEF Latest
  <2>7. /\ g \in [Slots -> Event \cup {NoEvent}] /\ g[e.type] = e
        /\ \A s \in Slots : s # e.type => g[s] = w.signals[s]
    BY <2>3, <2>5
  <2>8. w.seen \cup {e} \in SUBSET Event
    BY <2>5
  <2>9. /\ x \in Workflow /\ x.version = v /\ x.seen = w.seen \cup {e} /\ x.signals = g
        /\ x.pc = w.pc /\ x.reply = w.reply /\ x.replied = w.replied /\ x.result = w.result
        /\ x.known = w.known /\ x.artifact = w.artifact /\ x.conflict = w.conflict
    BY <1>1, <2>4, <2>6, <2>7, <2>8 DEF Workflow
  <2>10. x.version <= dep[d].version
    BY <1>1, <2>6, <2>9 DEF WorkflowKnown, EventKnown
  <2>11. \A s \in Slots : g[s] # NoEvent => g[s] \in x.seen /\ g[s].type = s
    BY <1>1, <2>7, <2>9 DEF WorkflowKnown
  <2>12. w.signals["cancellation"] # NoEvent => g["cancellation"] # NoEvent
    BY <2>2, <2>7 DEF Slots
  <2>13. w.signals["build"] # NoEvent => g["build"] = w.signals["build"]
    BY <2>2, <2>7 DEF Slots
  <2>14. w.pc = "awaiting_release" /\ g["release"] # NoEvent => ReleaseFits(x)
    <3>1. SUFFICES ASSUME w.pc = "awaiting_release", g["release"] # NoEvent PROVE ReleaseFits(x)
      OBVIOUS
    <3>2. w.known /\ w.artifact /\ w.signals["build"] # NoEvent
      BY <1>1, <3>1 DEF WorkflowKnown
    <3>3. CASE e.type = "release"
      <4>1. e.version >= w.signals["build"].version
        BY <2>1, <3>2, <3>3 DEF MinimumVersion
      <4>2. e.status = "ready" => e.match
        BY <2>1, <3>2, <3>3 DEF IdentityMatches
      <4>3. g["release"] = e
        BY <2>7, <3>3
      <4> QED BY <2>9, <2>13, <3>2, <4>1, <4>2, <4>3 DEF ReleaseFits
    <3>4. CASE e.type # "release"
      <4>1. g["release"] = w.signals["release"]
        BY <2>7, <3>4 DEF Slots
      <4>2. ReleaseFits(w)
        BY <1>1, <3>1, <4>1 DEF WorkflowKnown
      <4> QED BY <2>9, <2>13, <3>2, <4>1, <4>2 DEF ReleaseFits
    <3> QED BY <3>3, <3>4
  <2>15. WorkflowKnown(d, x)
    BY <1>1, <2>9, <2>10, <2>11, <2>12, <2>13, <2>14 DEF WorkflowKnown
  <2> QED BY <2>3, <2>6, <2>9, <2>15 DEF Told
<1> QED BY <1>2, <1>3

LEMMA DispatchedKnown ==
    ASSUME OrchInv, NEW d \in Deployments, NEW w, w = wf[d],
           NEW e \in Event, e \in Waiting, e.id = d, e.type # "start" => w.pc # "none"
    PROVE  Told(d, w, e, Dispatched(w, e))
<1>1. /\ w \in Workflow /\ WorkflowKnown(d, w) /\ EventKnown(e) /\ dep[d] \in Deployment
  BY DEF OrchInv, OrchTypeOK, CPTypeOK, WorkflowsKnown, EventsKnown
<1>2. CASE e.type = "start"
  BY <1>1, <1>2, StartedKnown DEF Dispatched
<1>3. CASE e.type # "start" /\ w.pc = "closed"
  <2>1. Dispatched(w, e) = w
    BY <1>3 DEF Dispatched
  <2> QED BY <1>1, <2>1 DEF Told, Workflow
<1>4. CASE e.type # "start" /\ w.pc # "closed"
  <2>1. e.type \in Slots
    BY <1>4 DEF Event
  <2> QED BY <1>4, <2>1, AcceptedKnown DEF Dispatched
<1> QED BY <1>2, <1>3, <1>4

LEMMA DeliverInv ==
    ASSUME OrchestratorAssumption, OrchInv, Deliver
    PROVE  OrchInv' /\ Forward
<1>1. /\ OrchTypeOK /\ CPTypeOK /\ LivesKnown /\ CommandsKnown /\ EventsKnown
      /\ UNCHANGED <<cpVars, released>> /\ events # <<>> /\ events \in Seq(Event)
  BY DEF OrchInv, OrchTypeOK, Deliver
<1>2. PICK e : e = Head(events)
  OBVIOUS
<1>3. \/ events' = Tail(events)
      \/ events' = Append(Tail(events), Head(events))
  BY DEF Deliver
<1>4. e \in Event /\ e \in Waiting /\ events' \in Seq(Event) /\ Waiting' \subseteq Waiting
  BY <1>1, <1>2, <1>3, Delivered
<1>5. PICK d \in Deployments : d = e.id
  BY <1>4 DEF Event
<1>6. PICK w : w = wf[d]
  OBVIOUS
<1>7. Grows /\ CPTypeOK'
  BY <1>1, NothingMoves DEF CPTypeOK, cpVars
<1>8. faults' \in 0..MaxFaults
  BY <1>1 DEF OrchTypeOK, OrchestratorAssumption, Deliver, Fault
<1>9. /\ w \in Workflow /\ WorkflowKnown(d, w)
  BY <1>6 DEF OrchInv, OrchTypeOK, WorkflowsKnown
<1>10. CASE UNCHANGED wf
  <2>1. Becomes(d, w)
    BY <1>1, <1>6, <1>10 DEF Becomes, OrchTypeOK
  <2>2. WorkflowKnown(d, w)'
    BY <1>1, <1>7, <1>9, WorkflowStays
  <2>3. w.seen = wf[d].seen
    BY <1>6
  <2>4. OrchInv'
    BY <1>1, <1>4, <1>7, <1>8, <1>9, <2>1, <2>2, <2>3, ChangedInv
  <2> QED BY <1>1, <1>10, <2>4, UnchangedForward
<1>11. CASE wf' # wf
  <2>1. PICK x : x = Dispatched(w, e)
    OBVIOUS
  <2>2. Becomes(d, x) /\ (e.type # "start" => w.pc # "none")
    BY <1>2, <1>5, <1>6, <1>11, <2>1 DEF Deliver, Becomes
  <2>3. Told(d, w, e, x)
    BY <1>4, <1>5, <1>6, <2>1, <2>2, DispatchedKnown
  <2>4. x \in Workflow /\ WorkflowKnown(d, x)'
    BY <1>1, <1>7, <2>3, WorkflowStays DEF Told
  <2>5. x.seen \subseteq wf[d].seen \cup {f \in Waiting : f.id = d /\ f.type \in Slots}
    BY <1>4, <1>5, <1>6, <2>3 DEF Told
  <2>6. OrchInv'
    BY <1>1, <1>4, <1>7, <1>8, <2>2, <2>4, <2>5, ChangedInv
  <2>7. x.version >= wf[d].version /\ (wf[d].pc = "closed" => x = wf[d])
    BY <1>6, <2>3 DEF Told
  <2> QED BY <1>1, <2>2, <2>6, <2>7, FollowsForward
<1> QED BY <1>10, <1>11

-----------------------------------------------------------------------------
(***************************************************************************)
(* The theorems.                                                           *)
(***************************************************************************)
LEMMA NoWorkflowKnown == NoWorkflow \in Workflow /\ NoWorkflow.seen = {} /\ ~NoWorkflow.conflict
<1>0. PICK f \in BOOLEAN : f = FALSE
  OBVIOUS
<1>1. PICK g : g = [s \in Slots |-> NoEvent]
  OBVIOUS
<1>2. g \in [Slots -> Event \cup {NoEvent}]
  BY <1>1
<1>3. NoWorkflow = [pc |-> "none", reply |-> "none", replied |-> 0, version |-> 0,
             buildVersion |-> 0, known |-> f, artifact |-> f, signals |-> g, seen |-> {},
             conflict |-> f, result |-> "none"]
  BY <1>0, <1>1 DEF NoWorkflow
<1>4. NoWorkflow.conflict = f
  BY <1>3
<1>5. NoWorkflow \in Workflow /\ NoWorkflow.seen = {}
  BY <1>2, <1>3 DEF Workflow
<1> QED BY <1>0, <1>4, <1>5

LEMMA OrchInitInv ==
    ASSUME OrchestratorAssumption, OrchInit
    PROVE  OrchInv
<1>1. CPTypeOK /\ CPInit
  BY InitInvariant DEF OrchInit, CPInv
<1>2. /\ NoWorkflow \in Workflow /\ NoWorkflow.seen = {} /\ ~NoWorkflow.conflict
      /\ \A d \in Deployments : wf[d] = NoWorkflow
      /\ wf \in [Deployments -> Workflow]
  BY NoWorkflowKnown DEF OrchInit
<1>3. Waiting = {} /\ events \in Seq(Event)
  BY DEF OrchInit, Waiting
<1>4. OrchTypeOK
  BY <1>1, <1>2, <1>3 DEF OrchTypeOK, OrchInit, OrchestratorAssumption
<1>5. LivesKnown /\ CommandsKnown
  BY <1>1 DEF LivesKnown, Life, CommandsKnown, CPInit, NoDeployment
<1>6. \A d \in Deployments : wf[d].seen = {} /\ Known(d) = {}
  BY <1>2, <1>3 DEF Known
<1>7. EventsKnown
  BY <1>3, <1>6 DEF EventsKnown
<1>8. /\ \A d \in Deployments : dep[d].version = 0
      /\ NoWorkflow.pc = "none" /\ NoWorkflow.version = 0 /\ NoWorkflow.replied = 0
      /\ NoWorkflow.reply = "none" /\ NoWorkflow.result = "none"
      /\ \A s \in Slots : NoWorkflow.signals[s] = NoEvent
  BY <1>1 DEF CPInit, NoDeployment, NoWorkflow
<1>9. WorkflowsKnown
  BY <1>2, <1>8 DEF WorkflowsKnown, WorkflowKnown
<1> QED BY <1>4, <1>5, <1>7, <1>9 DEF OrchInv

LEMMA OrchStep ==
    ASSUME OrchestratorAssumption, OrchInv, CPInv, CPInv', OrchNext
    PROVE  OrchInv' /\ Forward
<1>0. OrchTypeOK
  BY DEF OrchInv
<1>1. CASE UserStep
  <2>1. UNCHANGED wf
    BY <1>1 DEF UserStep
  <2> QED BY <1>0, <1>1, <2>1, UserInv, UnchangedForward
<1>2. CASE BuildStep
  <2>1. UNCHANGED wf
    BY <1>2 DEF BuildStep
  <2> QED BY <1>0, <1>2, <2>1, BuildEventInv, UnchangedForward
<1>3. CASE Deliver
  BY <1>3, DeliverInv
<1>4. ASSUME NEW d \in Deployments, ReleaseStep(d) PROVE OrchInv' /\ Forward
  <2>1. UNCHANGED wf
    BY <1>4 DEF ReleaseStep
  <2> QED BY <1>0, <1>4, <2>1, ReleaseInv, UnchangedForward
<1>5. ASSUME NEW d \in Deployments, Activity(d) PROVE OrchInv' /\ Forward
  BY <1>5, AcknowledgeInv, PrepareInv, RequestInv DEF Activity
<1>6. ASSUME NEW d \in Deployments, ActivityFails(d) \/ WorkflowStep(d) PROVE OrchInv' /\ Forward
  BY <1>6, FailsInv, WorkflowInv
<1> QED BY <1>1, <1>2, <1>3, <1>4, <1>5, <1>6 DEF OrchNext

LEMMA OrchStutters ==
    ASSUME OrchInv, UNCHANGED orchVars
    PROVE  OrchInv' /\ Forward
<1>1. OrchTypeOK /\ CPTypeOK /\ LivesKnown /\ CommandsKnown /\ UNCHANGED cpVars
  BY DEF OrchInv, OrchTypeOK, orchVars
<1>2. Grows /\ CPTypeOK'
  BY <1>1, NothingMoves DEF CPTypeOK, cpVars
<1>3. /\ faults' \in 0..MaxFaults /\ released' \subseteq Deployments /\ released \subseteq released'
      /\ UNCHANGED <<events, wf>>
  BY <1>1 DEF OrchTypeOK, orchVars
<1> QED BY <1>1, <1>2, <1>3, PublishedInv, UnchangedForward

\* The workflows and the records keep the inductive invariant: a workflow knows
\* only what was published of its own deployment and is so still.
THEOREM OrchestratorInvariant ==
    OrchestratorAssumption => (OrchSpec => [](OrchInv /\ CPInv))
<1> SUFFICES ASSUME OrchestratorAssumption PROVE OrchSpec => [](OrchInv /\ CPInv)
  OBVIOUS
<1>1. OrchInit => OrchInv /\ CPInv
  BY OrchInitInv, InitInvariant DEF OrchInit
<1>2. OrchInv /\ CPInv /\ [OrchNext]_orchVars => (OrchInv /\ CPInv)'
  <2> SUFFICES ASSUME OrchInv, CPInv, [OrchNext]_orchVars PROVE (OrchInv /\ CPInv)'
    OBVIOUS
  <2>1. CPInv'
    BY StepImplements, StepInvariant
  <2> QED BY <2>1, OrchStep, OrchStutters
<1> QED BY <1>1, <1>2, PTL DEF OrchSpec

\* Whatever the orchestrator does to the records, it does by the operations of
\* the control plane.
THEOREM OrchestratorImplements == OrchestratorAssumption => (OrchSpec => CPSpec)
<1> SUFFICES ASSUME OrchestratorAssumption PROVE OrchSpec => CPSpec
  OBVIOUS
<1>1. OrchInit => CPInit
  BY DEF OrchInit
<1>2. OrchInv /\ [OrchNext]_orchVars => [CPNext]_cpVars
  BY StepImplements
<1>3. OrchSpec => []OrchInv
  BY OrchestratorInvariant, PTL
<1> QED BY <1>1, <1>2, <1>3, PTL DEF OrchSpec, CPSpec

\* However late or often events, signals and answers arrive, a workflow quotes a
\* version its deployment has had.
THEOREM WorkflowsNeverAhead == OrchestratorAssumption => (OrchSpec => []NeverAhead)
<1>1. OrchInv => NeverAhead
  BY DEF OrchInv, WorkflowsKnown, WorkflowKnown, NeverAhead
<1> QED BY <1>1, OrchestratorInvariant, PTL

\* A signal that came early is looked at again: a workflow that says ready has
\* seen the release of its own build, which succeeded.
THEOREM ReadyIsOfItsBuild == OrchestratorAssumption => (OrchSpec => []ReadyIsOfThisBuild)
<1>1. OrchInv => ReadyIsOfThisBuild
  <2> SUFFICES ASSUME OrchInv, NEW d \in Deployments, wf[d].result = "ready_observed"
               PROVE  /\ dep[d].build = "succeeded"
                      /\ wf[d].signals["release"].match
                      /\ wf[d].signals["release"].version >= wf[d].signals["build"].version
    BY DEF ReadyIsOfThisBuild
  <2>1. /\ wf[d].signals["build"] # NoEvent /\ wf[d].signals["build"].status = "completed"
        /\ wf[d].signals["release"].status = "ready" /\ ReleaseFits(wf[d])
    BY DEF OrchInv, WorkflowsKnown, WorkflowKnown
  <2>2. dep[d].build = "succeeded"
    BY <2>1, SignalKnown DEF EventKnown, Slots
  <2> QED BY <2>1, <2>2 DEF ReleaseFits
<1> QED BY <1>1, OrchestratorInvariant, PTL

\* The same event again is the one that was seen.
THEOREM RedeliveriesAreHarmless == OrchestratorAssumption => (OrchSpec => []RedeliveryIsHarmless)
<1>1. OrchInv => RedeliveryIsHarmless
  BY DEF OrchInv, WorkflowsKnown, WorkflowKnown, RedeliveryIsHarmless
<1> QED BY <1>1, OrchestratorInvariant, PTL

\* A workflow that says canceled has told the control plane, which has canceled
\* the deployment or told the build controller to stop.
THEOREM CancellationsArePassedOn == OrchestratorAssumption => (OrchSpec => []CanceledIsPassedOn)
<1>1. OrchInv => CanceledIsPassedOn
  BY DEF OrchInv, WorkflowsKnown, WorkflowKnown, CanceledIsPassedOn, PassedOn
<1> QED BY <1>1, OrchestratorInvariant, PTL

\* Together: in whatever order and how often signals come, workflows follow what
\* Rails has committed.
THEOREM WorkflowsFollow ==
    OrchestratorAssumption => (OrchSpec => [](OrchTypeOK /\ WorkflowFollows))
<1>1. OrchInv => OrchTypeOK
  BY DEF OrchInv
<1> QED BY <1>1, OrchestratorInvariant, WorkflowsNeverAhead, ReadyIsOfItsBuild,
           RedeliveriesAreHarmless, CancellationsArePassedOn, PTL DEF WorkflowFollows

\* No order of signals and answers takes a workflow back, and none reopens it.
THEOREM WorkflowsNeverRegress == OrchestratorAssumption => (OrchSpec => [][NeverRegresses]_orchVars)
<1> SUFFICES ASSUME OrchestratorAssumption PROVE OrchSpec => [][NeverRegresses]_orchVars
  OBVIOUS
<1>1. OrchInv /\ CPInv /\ [OrchNext]_orchVars => NeverRegresses
  <2> SUFFICES ASSUME OrchInv, CPInv, [OrchNext]_orchVars PROVE NeverRegresses
    OBVIOUS
  <2>1. CPInv'
    BY StepImplements, StepInvariant
  <2>2. Forward
    BY <2>1, OrchStep, OrchStutters
  <2> QED BY <2>2 DEF Forward, NeverRegresses
<1>2. OrchSpec => [](OrchInv /\ CPInv)
  BY OrchestratorInvariant, PTL
<1> QED BY <1>1, <1>2, PTL DEF OrchSpec

\* WorkflowsKeepUp: workflows follow what Rails has committed, and forward only.
THEOREM WorkflowsDoKeepUp == OrchestratorAssumption => (OrchSpec => WorkflowsKeepUp)
<1> QED BY WorkflowsFollow, WorkflowsNeverRegress, PTL DEF WorkflowsKeepUp
=============================================================================
