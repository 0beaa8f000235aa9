------------------------- MODULE ControlPlaneProofs -------------------------
(***************************************************************************)
(* Proofs about ControlPlane for any sets of deployments, aliases and      *)
(* clients and any bound on alias versions.                                *)
(*                                                                         *)
(* Every step of CPNext is one of three kinds: it moves one deployment     *)
(* that serves no alias to another legitimate record (Moves), it points an *)
(* alias at a promotable deployment (PromoteAlias), or it leaves both      *)
(* alone.  StepKinds says so once, and each invariant follows from it.     *)
(***************************************************************************)
EXTENDS ControlPlane, TLAPS

\* The edges of the contract's life of a deployment.
PhaseEdge(p, q) ==
    \/ p = q
    \/ p = "none" /\ q = "open"
    \/ p = "open" /\ q \in {"live", "closing", "closed"}
    \/ p = "live" /\ q = "closing"
    \/ p = "closing" /\ q = "closed"

\* What a deployment record may become while no alias routes to it.
Successor(r, s) ==
    /\ s \in Deployment
    /\ BuildAgrees(s)
    /\ s.status # "promoted"
    /\ r.revision = "ready" => s.revision = "ready"
    /\ PhaseEdge(Phase(r), Phase(s))

\* The commands published beside a move: none is a route, and a command to
\* deploy expects a new deployment.
Fits(c) == c.type # "route" /\ (c.type = "deploy" => c.version = 0)
NewCommandsFit == \A c \in commands' : c \in commands \/ Fits(c)

Moves(d) ==
    /\ ~ServingAlias(d)
    /\ \E s \in Deployment : /\ Successor(dep[d], s)
                             /\ dep' = [dep EXCEPT ![d] = s]
                             /\ s.status = "canceling"
                                  => CancelCommand(d, s.version) \in commands'
    /\ commands \subseteq commands'
    /\ commands' \subseteq Command
    /\ NewCommandsFit
    /\ UNCHANGED alias

Stays ==
    /\ UNCHANGED <<dep, alias>>
    /\ commands \subseteq commands'
    /\ commands' \subseteq Command
    /\ NewCommandsFit

StepKind ==
    \/ \E d \in Deployments : Moves(d)
    \/ \E a \in Aliases, d \in Deployments : PromoteAlias(a, d)
    \/ Stays
-----------------------------------------------------------------------------
\* What the transition table says of the statuses the actions ask it about.
LEMMA MayFacts ==
    ASSUME NEW d \in Deployments, NEW s
    PROVE  /\ May(d, "queued") => dep[d].status = "created"
           /\ May(d, "scanning") => dep[d].status = "building"
           /\ May(d, "canceled") => dep[d].status = "canceling"
           /\ May(d, "canceling") => dep[d].status \in
                {"created", "queued", "preparing", "building", "scanning", "deploying",
                 "verifying", "ready", "promoted", "superseded"}
           /\ May(d, "failed") => dep[d].status \in
                {"created", "queued", "preparing", "building", "scanning", "deploying",
                 "verifying", "ready", "promoted", "canceling"}
  BY DEF May, TRANSITIONS, Statuses

\* Moved changes the status and counts the save.
LEMMA MovedFacts ==
    ASSUME NEW r \in Deployment, NEW s \in Statuses
    PROVE  /\ Moved(r, s) \in Deployment
           /\ Moved(r, s).status = s
           /\ Moved(r, s).version = r.version + 1
           /\ Moved(r, s).build = r.build
           /\ Moved(r, s).revision = r.revision
<1> DEFINE f == [r EXCEPT !.status = s]
<1>1. /\ f \in Deployment
      /\ f.status = s /\ f.version = r.version /\ f.build = r.build
      /\ f.revision = r.revision
  BY DEF Deployment
<1>2. Moved(r, s) = [f EXCEPT !.version = r.version + 1]
  BY DEF Moved, Deployment
<1> HIDE DEF f
<1> QED
  BY <1>1, <1>2 DEF Deployment

\* CanceledBuild stops the build of the record it cancels.
LEMMA CanceledBuildFacts ==
    ASSUME NEW r \in Deployment
    PROVE  /\ CanceledBuild(r) \in Deployment
           /\ CanceledBuild(r).status = "canceled"
           /\ CanceledBuild(r).version = r.version + 1
           /\ CanceledBuild(r).build = IF r.build = "running" THEN "canceled" ELSE r.build
           /\ CanceledBuild(r).revision = r.revision
<1> DEFINE f == Moved(r, "canceled")
<1>1. /\ f \in Deployment
      /\ f.status = "canceled" /\ f.version = r.version + 1 /\ f.build = r.build
      /\ f.revision = r.revision
  BY MovedFacts DEF Statuses
<1>2. CanceledBuild(r) =
        [f EXCEPT !.build = IF f.build = "running" THEN "canceled" ELSE f.build]
  BY DEF CanceledBuild
<1> HIDE DEF f
<1> QED
  BY <1>1, <1>2 DEF Deployment

\* The commands have the type of commands.
LEMMA CommandTypes ==
    ASSUME NEW d \in Deployments, NEW v \in Nat
    PROVE  /\ DeployCommand(d, v) \in Command
           /\ CancelCommand(d, v) \in Command
           /\ BuildCommand(d, v) \in Command
           /\ BuildCancelCommand(d, v) \in Command
  BY DEF DeployCommand, CancelCommand, BuildCommand, BuildCancelCommand, Command

\* A command to a deployment names one.
LEMMA CommandNames ==
    ASSUME NEW c \in Command
    PROVE  /\ c.type # "route" => c.id \in Deployments
           /\ c.type = "route" => c.id \in Aliases
           /\ c.version \in Nat
  BY DEF Command
\* The phase of a record is that of its status.
LEMMA PhaseFacts ==
    ASSUME NEW r \in Deployment
    PROVE  /\ r.status = "none" => Phase(r) = "none"
           /\ r.status \in {"created", "queued", "preparing", "building", "scanning",
                           "deploying", "verifying"} => Phase(r) = "open"
           /\ r.status \in {"ready", "promoted", "superseded"} => Phase(r) = "live"
           /\ r.status = "canceling" => Phase(r) = "closing"
           /\ r.status \in {"canceled", "failed"} => Phase(r) = "closed"
  BY DEF Phase, PROMOTABLE_DEPLOYMENT_STATUSES, Deployment, Statuses

\* What serves an alias is promoted or superseded.
LEMMA ServingStatus ==
    ASSUME CPTypeOK, ServingIsLive, NEW d \in Deployments, ServingAlias(d)
    PROVE  dep[d].status \in {"promoted", "superseded"}
  BY ControlPlaneAssumption DEF ServingIsLive, ServingAlias

\* A command that is published adds no route.
LEMMA Published ==
    ASSUME CPTypeOK, NEW c \in Command, Fits(c), Publish(c)
    PROVE  /\ commands \subseteq commands'
           /\ commands' \subseteq Command
           /\ NewCommandsFit
           /\ c \in commands'
  BY DEF Publish, NewCommandsFit, CPTypeOK

LEMMA Unpublished ==
    ASSUME CPTypeOK, UNCHANGED commands
    PROVE  /\ commands \subseteq commands'
           /\ commands' \subseteq Command
           /\ NewCommandsFit
  BY DEF NewCommandsFit, CPTypeOK

\* A callback that is current finds a deployment that was created, and the
\* answer to a deploy command one that has not moved.
LEMMA CallbackFacts ==
    ASSUME CPInv, NEW c \in commands, c.type # "route", Current(c)
    PROVE  /\ c.id \in Deployments
           /\ c \in Command
           /\ dep[c.id] \in Deployment
           /\ BuildAgrees(dep[c.id])
           /\ dep[c.id].status # "none"
           /\ c.type = "deploy" => dep[c.id].status = "created"
<1>1. c \in Command /\ c.id \in Deployments
  BY CommandNames DEF CPInv, CPTypeOK
<1>2. dep[c.id] \in Deployment /\ BuildAgrees(dep[c.id])
  BY <1>1 DEF CPInv, CPTypeOK, BuildMatchesDeployment
<1>3. dep[c.id].status # "none" /\ dep[c.id].version = c.version
  BY DEF Current
<1>4. c.type = "deploy" => dep[c.id].status = "created"
  BY <1>2, <1>3 DEF CPInv, DeployVersions, BuildAgrees
<1> QED
  BY <1>1, <1>2, <1>3, <1>4

LEMMA CreateMoves ==
    ASSUME CPInv, NEW d \in Deployments, Create(d)
    PROVE  Moves(d)
<1> DEFINE s == [NoDeployment EXCEPT !.status = "created"]
<1>1. CPTypeOK /\ dep[d] \in Deployment /\ BuildAgrees(dep[d]) /\ dep[d].status = "none"
  BY DEF CPInv, CPTypeOK, BuildMatchesDeployment, Create
<1>2. /\ s \in Deployment /\ s.status = "created" /\ s.version = 0
      /\ s.build = "none" /\ s.revision = "none"
  BY DEF NoDeployment, Deployment, Statuses
<1>3. ~ServingAlias(d)
  BY <1>1, ServingStatus DEF CPInv
<1>4. dep' = [dep EXCEPT ![d] = s] /\ UNCHANGED alias
  BY DEF Create
<1> HIDE DEF s
<1>5. Successor(dep[d], s)
  <2>1. Phase(dep[d]) = "none" /\ Phase(s) = "open"
    BY <1>1, <1>2, PhaseFacts
  <2>2. dep[d].revision = "none"
    BY <1>1 DEF BuildAgrees, Deployment
  <2> QED
    BY <1>1, <1>2, <2>1, <2>2
    DEF Successor, PhaseEdge, BuildAgrees, PROMOTABLE_DEPLOYMENT_STATUSES
<1>6. /\ commands \subseteq commands'
      /\ commands' \subseteq Command
      /\ NewCommandsFit
  <2>1. DeployCommand(d, 0) \in Command /\ Fits(DeployCommand(d, 0))
    BY CommandTypes DEF DeployCommand, Fits
  <2> QED
    BY <1>1, <2>1, Published DEF Create
<1> QED
  BY <1>2, <1>3, <1>4, <1>5, <1>6 DEF Moves

LEMMA CancelStep ==
    ASSUME CPInv, NEW c \in Clients, Cancel(c)
    PROVE  Stays \/ \E d \in Deployments : Moves(d)
<1> DEFINE d == client[c].id
           s == Moved(dep[d], "canceling")
<1>1. d \in Deployments /\ CPTypeOK
  BY DEF CPInv, RequestsNamed, Cancel
<1>2. CASE ~ServingAlias(d) /\ dep[d].version = client[c].version /\ May(d, "canceling")
  <2>1. /\ dep' = [dep EXCEPT ![d] = s]
        /\ Publish(Cancellation(d))
        /\ UNCHANGED alias
    BY <1>2 DEF Cancel
  <2>2. dep[d] \in Deployment /\ BuildAgrees(dep[d])
    BY <1>1 DEF CPInv, CPTypeOK, BuildMatchesDeployment
  <2>3. /\ s \in Deployment /\ s.status = "canceling" /\ s.version = dep[d].version + 1
        /\ s.build = dep[d].build /\ s.revision = dep[d].revision
    BY <2>2, MovedFacts DEF Statuses
  <2>4. /\ commands \subseteq commands'
        /\ commands' \subseteq Command
        /\ NewCommandsFit
        /\ CancelCommand(d, s.version) \in commands'
    <3>1. s.version \in Nat
      BY <2>3 DEF Deployment
    <3>2. Cancellation(d) = CancelCommand(d, s.version)
      BY <2>3 DEF Cancellation
    <3>3. Cancellation(d) \in Command /\ Fits(Cancellation(d))
      <4>1. CancelCommand(d, s.version) \in Command
        BY <1>1, <3>1, CommandTypes
      <4>2. Fits(CancelCommand(d, s.version))
        BY DEF CancelCommand, Fits
      <4> QED BY <4>1, <4>2, <3>2
    <3> QED
      BY <1>1, <2>1, <3>2, <3>3, Published
  <2>5. Phase(dep[d]) \in {"open", "live"}
    BY <1>1, <1>2, <2>2, MayFacts, PhaseFacts
  <2>6. Phase(s) = "closing"
    BY <2>3, PhaseFacts
  <2> HIDE DEF s, d
  <2>7. BuildAgrees(s)
    BY <2>2, <2>3 DEF BuildAgrees, Deployment, PROMOTABLE_DEPLOYMENT_STATUSES
  <2>8. Successor(dep[d], s)
    BY <2>3, <2>5, <2>6, <2>7 DEF Successor, PhaseEdge
  <2>9. Moves(d)
    BY <1>2, <2>1, <2>3, <2>4, <2>8 DEF Moves
  <2> QED
    BY <1>1, <2>9
<1>3. CASE ~(~ServingAlias(d) /\ dep[d].version = client[c].version /\ May(d, "canceling"))
  <2>1. UNCHANGED <<dep, commands, alias>>
    BY <1>3 DEF Cancel
  <2> QED
    BY <1>1, <2>1, Unpublished DEF Stays
<1> QED
  BY <1>2, <1>3
\* A callback moves a deployment that is not live.
LEMMA CallbackMoves ==
    ASSUME CPInv, NEW d \in Deployments, NEW s,
           dep[d].status \notin {"promoted", "superseded"},
           Successor(dep[d], s), s.status # "canceling",
           dep' = [dep EXCEPT ![d] = s],
           commands \subseteq commands', commands' \subseteq Command, NewCommandsFit,
           UNCHANGED alias
    PROVE  Moves(d)
<1>1. ~ServingAlias(d)
  BY ServingStatus DEF CPInv
<1>2. s \in Deployment
  BY DEF Successor
<1> QED
  BY <1>1, <1>2 DEF Moves

CanceledOf(r, s) == Successor(r, s) /\ s.status # "canceling"

LEMMA CanceledSuccessor ==
    ASSUME NEW r \in Deployment, BuildAgrees(r), r.status = "canceling"
    PROVE  CanceledOf(r, CanceledBuild(r))
<1> DEFINE s == CanceledBuild(r)
<1>1. /\ s \in Deployment /\ s.status = "canceled" /\ s.version = r.version + 1
      /\ s.build = IF r.build = "running" THEN "canceled" ELSE r.build
      /\ s.revision = r.revision
  BY CanceledBuildFacts
<1> HIDE DEF s
<1>2. Phase(r) = "closing" /\ Phase(s) = "closed"
  BY <1>1, PhaseFacts
<1>3. BuildAgrees(s)
  BY <1>1 DEF BuildAgrees, Deployment, PROMOTABLE_DEPLOYMENT_STATUSES
<1> QED
  BY <1>1, <1>2, <1>3 DEF CanceledOf, Successor, PhaseEdge, s

LEMMA ProviderMoves ==
    ASSUME CPInv, NEW c \in commands, ProviderNext(c)
    PROVE  Moves(c.id)
<1> DEFINE r == dep[c.id]
<1>1. c.type # "route" /\ Current(c)
  BY DEF ProviderNext, ProviderReady, ProviderFailed, ProviderCanceled
<1>2. /\ c.id \in Deployments /\ c \in Command /\ r \in Deployment /\ BuildAgrees(r)
      /\ c.type = "deploy" => r.status = "created"
  BY <1>1, CallbackFacts
<1>3. UNCHANGED <<alias, commands>>
  BY DEF ProviderNext, ProviderReady, ProviderFailed, ProviderCanceled
<1>4. commands \subseteq commands' /\ commands' \subseteq Command /\ NewCommandsFit
  BY <1>3, Unpublished DEF CPInv
<1>5. CASE ProviderReady(c)
  <2> DEFINE s == [status |-> "ready", version |-> r.version + 7,
                   build |-> "succeeded", revision |-> "ready"]
  <2>1. dep' = [dep EXCEPT ![c.id] = s] /\ r.status = "created"
    BY <1>2, <1>5 DEF ProviderReady
  <2>2. s \in Deployment /\ BuildAgrees(s)
    BY <1>2 DEF Deployment, Statuses, BuildAgrees
  <2>3. Phase(r) = "open" /\ Phase(s) = "live"
    BY <2>1, <2>2, <1>2, PhaseFacts
  <2>4. Successor(r, s) /\ s.status # "canceling"
    BY <2>2, <2>3 DEF Successor, PhaseEdge
  <2> HIDE DEF s
  <2> QED
    BY <1>2, <1>3, <1>4, <2>1, <2>4, CallbackMoves
<1>6. CASE ProviderFailed(c)
  <2> DEFINE s == Moved(r, "failed")
  <2>1. dep' = [dep EXCEPT ![c.id] = s] /\ r.status = "created"
    BY <1>2, <1>6 DEF ProviderFailed
  <2>2. /\ s \in Deployment /\ s.status = "failed" /\ s.version = r.version + 1
        /\ s.build = r.build /\ s.revision = r.revision
    BY <1>2, MovedFacts DEF Statuses
  <2>3. Phase(r) = "open" /\ Phase(s) = "closed"
    BY <2>1, <2>2, <1>2, PhaseFacts
  <2> HIDE DEF s
  <2>4. BuildAgrees(s)
    BY <1>2, <2>1, <2>2 DEF BuildAgrees, Deployment, PROMOTABLE_DEPLOYMENT_STATUSES
  <2>5. Successor(r, s) /\ s.status # "canceling"
    BY <2>2, <2>3, <2>4 DEF Successor, PhaseEdge
  <2> QED
    BY <1>2, <1>3, <1>4, <2>1, <2>5, CallbackMoves
<1>7. CASE ProviderCanceled(c)
  <2> DEFINE s == CanceledBuild(r)
  <2>1. dep' = [dep EXCEPT ![c.id] = s] /\ r.status = "canceling"
    BY <1>2, <1>7, MayFacts DEF ProviderCanceled
  <2>2. CanceledOf(r, s)
    BY <1>2, <2>1, CanceledSuccessor
  <2> HIDE DEF s
  <2> QED
    BY <1>2, <1>3, <1>4, <2>1, <2>2, CallbackMoves DEF CanceledOf
<1> QED
  BY <1>5, <1>6, <1>7 DEF ProviderNext

LEMMA OrchestratorStep ==
    ASSUME CPInv, NEW c \in commands, OrchestratorNext(c)
    PROVE  Stays \/ Moves(c.id)
<1> DEFINE r == dep[c.id]
<1>1. c.type # "route" /\ Current(c)
  BY DEF OrchestratorNext, Prepare, BuildCompleted, BuildFailed,
         RequestBuildCancellation, CompleteBuildCancellation
<1>2. /\ c.id \in Deployments /\ c \in Command /\ r \in Deployment /\ BuildAgrees(r)
      /\ c.type = "deploy" => r.status = "created"
  BY <1>1, CallbackFacts
<1>3. UNCHANGED alias
  BY DEF OrchestratorNext, Prepare, BuildCompleted, BuildFailed,
         RequestBuildCancellation, CompleteBuildCancellation
<1>4. UNCHANGED commands => commands \subseteq commands' /\ commands' \subseteq Command /\ NewCommandsFit
  BY Unpublished DEF CPInv
<1>5. CASE Prepare(c)
  <2> DEFINE s == Prepared(r)
  <2>1. /\ dep' = [dep EXCEPT ![c.id] = s] /\ r.status = "created"
        /\ Publish(BuildCommand(c.id, r.version + 3))
    BY <1>2, <1>5 DEF Prepare
  <2>2. /\ s \in Deployment /\ s.status = "building" /\ s.version = r.version + 3
        /\ s.build = "running" /\ s.revision = r.revision
    <3> DEFINE f == [r EXCEPT !.status = "building", !.build = "running"]
    <3>1. /\ f \in Deployment /\ f.status = "building" /\ f.version = r.version
          /\ f.build = "running" /\ f.revision = r.revision
      BY <1>2 DEF Deployment, Statuses
    <3>2. s = [f EXCEPT !.version = r.version + 3]
      BY <1>2 DEF Prepared, Deployment
    <3> HIDE DEF f, s
    <3> QED
      BY <1>2, <3>1, <3>2 DEF Deployment
  <2>3. Phase(r) = "open" /\ Phase(s) = "open"
    BY <2>1, <2>2, <1>2, PhaseFacts
  <2>4. commands \subseteq commands' /\ commands' \subseteq Command /\ NewCommandsFit
    <3>1. BuildCommand(c.id, r.version + 3) \in Command
      BY <1>2, CommandTypes DEF Deployment
    <3>2. Fits(BuildCommand(c.id, r.version + 3))
      BY DEF BuildCommand, Fits
    <3> QED
      BY <2>1, <3>1, <3>2, Published DEF CPInv
  <2> HIDE DEF s
  <2>5. BuildAgrees(s)
    BY <1>2, <2>1, <2>2 DEF BuildAgrees, Deployment, PROMOTABLE_DEPLOYMENT_STATUSES
  <2>6. Successor(r, s) /\ s.status # "canceling"
    BY <2>2, <2>3, <2>5 DEF Successor, PhaseEdge
  <2> QED
    BY <1>2, <1>3, <2>1, <2>4, <2>6, CallbackMoves
<1>6. CASE BuildCompleted(c)
  <2> DEFINE f == Moved(r, "scanning")
             s == [f EXCEPT !.build = "succeeded", !.revision = "candidate"]
  <2>1. /\ dep' = [dep EXCEPT ![c.id] = s] /\ r.status = "building"
        /\ r.build = "running" /\ UNCHANGED commands
    BY <1>2, <1>6, MayFacts DEF BuildCompleted
  <2>2. f \in Deployment /\ f.status = "scanning" /\ f.version = r.version + 1
    BY <1>2, MovedFacts DEF Statuses
  <2> HIDE DEF f
  <2>3. /\ s \in Deployment /\ s.status = "scanning" /\ s.version = r.version + 1
        /\ s.build = "succeeded" /\ s.revision = "candidate"
    BY <2>2 DEF Deployment
  <2> HIDE DEF s
  <2>4. Phase(r) = "open" /\ Phase(s) = "open"
    BY <2>1, <2>3, <1>2, PhaseFacts
  <2>5. BuildAgrees(s) /\ r.revision = "none"
    BY <1>2, <2>1, <2>3 DEF BuildAgrees, Deployment, PROMOTABLE_DEPLOYMENT_STATUSES
  <2>6. Successor(r, s) /\ s.status # "canceling"
    BY <2>3, <2>4, <2>5 DEF Successor, PhaseEdge
  <2> QED
    BY <1>2, <1>3, <1>4, <2>1, <2>6, CallbackMoves
<1>7. CASE BuildFailed(c)
  <2> DEFINE f == Moved(r, "failed")
             s == [f EXCEPT !.build = "failed"]
  <2>1. /\ dep' = [dep EXCEPT ![c.id] = s] /\ r.build = "running" /\ UNCHANGED commands
    BY <1>2, <1>7 DEF BuildFailed
  <2>2. /\ f \in Deployment /\ f.status = "failed" /\ f.version = r.version + 1
        /\ f.revision = r.revision
    BY <1>2, MovedFacts DEF Statuses
  <2> HIDE DEF f
  <2>3. /\ s \in Deployment /\ s.status = "failed" /\ s.version = r.version + 1
        /\ s.build = "failed" /\ s.revision = r.revision
    BY <2>2 DEF Deployment
  <2> HIDE DEF s
  <2>4. r.status \in {"building", "canceling"} /\ r.revision = "none"
    BY <1>2, <2>1 DEF BuildAgrees
  <2>5. Phase(r) \in {"open", "closing"} /\ Phase(s) = "closed"
    BY <2>3, <2>4, <1>2, PhaseFacts
  <2>6. BuildAgrees(s)
    BY <1>2, <2>3, <2>4 DEF BuildAgrees, Deployment, PROMOTABLE_DEPLOYMENT_STATUSES
  <2>7. Successor(r, s) /\ s.status # "canceling"
    BY <2>3, <2>4, <2>5, <2>6 DEF Successor, PhaseEdge
  <2> QED
    BY <1>2, <1>3, <1>4, <2>1, <2>4, <2>7, CallbackMoves
<1>8. CASE RequestBuildCancellation(c)
  <2>1. CASE r.build = "running"
    <3>1. UNCHANGED dep /\ Publish(BuildCancelCommand(c.id, r.version))
      BY <1>8, <2>1 DEF RequestBuildCancellation
    <3>2. BuildCancelCommand(c.id, r.version) \in Command
      BY <1>2, CommandTypes DEF Deployment
    <3>3. Fits(BuildCancelCommand(c.id, r.version))
      BY DEF BuildCancelCommand, Fits
    <3>4. Stays
      BY <1>3, <3>1, <3>2, <3>3, Published DEF CPInv, Stays
    <3> QED
      BY <3>4
  <2>2. CASE r.build # "running"
    <3> DEFINE s == Moved(r, "canceled")
    <3>1. /\ dep' = [dep EXCEPT ![c.id] = s] /\ UNCHANGED commands
          /\ r.status = "canceling"
      BY <1>8, <2>2 DEF RequestBuildCancellation
    <3>2. /\ s \in Deployment /\ s.status = "canceled" /\ s.version = r.version + 1
          /\ s.build = r.build /\ s.revision = r.revision
      BY <1>2, MovedFacts DEF Statuses
    <3> HIDE DEF s
    <3>3. Phase(r) = "closing" /\ Phase(s) = "closed"
      BY <3>1, <3>2, <1>2, PhaseFacts
    <3>4. BuildAgrees(s)
      BY <1>2, <2>2, <3>2 DEF BuildAgrees, Deployment, PROMOTABLE_DEPLOYMENT_STATUSES
    <3>5. Successor(r, s) /\ s.status # "canceling"
      BY <3>2, <3>3, <3>4 DEF Successor, PhaseEdge
    <3> QED
      BY <1>2, <1>3, <1>4, <3>1, <3>5, CallbackMoves
  <2> QED
    BY <2>1, <2>2
<1>9. CASE CompleteBuildCancellation(c)
  <2> DEFINE s == CanceledBuild(r)
  <2>1. /\ dep' = [dep EXCEPT ![c.id] = s] /\ r.status = "canceling"
        /\ UNCHANGED commands
    BY <1>2, <1>9 DEF CompleteBuildCancellation
  <2>2. CanceledOf(r, s)
    BY <1>2, <2>1, CanceledSuccessor
  <2> HIDE DEF s
  <2> QED
    BY <1>2, <1>3, <1>4, <2>1, <2>2, CallbackMoves DEF CanceledOf
<1> QED
  BY <1>5, <1>6, <1>7, <1>8, <1>9 DEF OrchestratorNext
\* Every step is of one of the three kinds.
LEMMA StepKinds ==
    ASSUME CPInv, CPNext
    PROVE  StepKind
<1>1. CASE \E d \in Deployments : Create(d)
  BY <1>1, CreateMoves DEF StepKind
<1>2. CASE \E c \in Clients, d \in Deployments : ReadForCancel(c, d)
  BY <1>2, Unpublished DEF ReadForCancel, StepKind, Stays, CPInv
<1>3. CASE \E c \in Clients : Cancel(c)
  BY <1>3, CancelStep DEF StepKind
<1>4. CASE \E c \in Clients, a \in Aliases, d \in Deployments : ReadForRollback(c, a, d)
  BY <1>4, Unpublished DEF ReadForRollback, StepKind, Stays, CPInv
<1>5. CASE \E c \in Clients : Rollback(c)
  <2>1. PICK c \in Clients : Rollback(c)
    BY <1>5
  <2>2. client[c].id \in Aliases /\ client[c].target \in Deployments
    BY <2>1 DEF Rollback, CPInv, RequestsNamed
  <2>3. PromoteAlias(client[c].id, client[c].target) \/ UNCHANGED <<dep, alias, commands>>
    BY <2>1 DEF Rollback
  <2> QED
    BY <2>2, <2>3, Unpublished DEF StepKind, Stays, CPInv
<1>6. CASE \E a \in Aliases, d \in Deployments : Promote(a, d)
  BY <1>6 DEF Promote, StepKind
<1>7. ASSUME NEW c \in commands, ProviderNext(c) PROVE StepKind
  <2>1. c.id \in Deployments
    BY <1>7, CallbackFacts DEF ProviderNext, ProviderReady, ProviderFailed, ProviderCanceled
  <2> QED
    BY <1>7, <2>1, ProviderMoves DEF StepKind
<1>8. ASSUME NEW c \in commands, OrchestratorNext(c) PROVE StepKind
  <2>1. c.id \in Deployments
    BY <1>8, CallbackFacts
    DEF OrchestratorNext, Prepare, BuildCompleted, BuildFailed,
        RequestBuildCancellation, CompleteBuildCancellation
  <2> QED
    BY <1>8, <2>1, OrchestratorStep DEF StepKind
<1> QED
  BY <1>1, <1>2, <1>3, <1>4, <1>5, <1>6, <1>7, <1>8, Zenon DEF CPNext, UserNext

\* The client's part of a step.
LEMMA ClientInvariant ==
    ASSUME CPInv, CPNext
    PROVE  client' \in [Clients -> Request] /\ RequestsNamed'
<1> DEFINE Named(q) ==
             /\ q \in Request
             /\ q.op = "cancel" => q.id \in Deployments
             /\ q.op = "rollback" => q.id \in Aliases /\ q.target \in Deployments
<1>1. client \in [Clients -> Request] /\ \A c \in Clients : Named(client[c])
  BY DEF CPInv, CPTypeOK, RequestsNamed
<1>2. UNCHANGED client \/ \E c \in Clients : \E q : Named(q) /\ client' = [client EXCEPT ![c] = q]
  <2>1. Named(NoRequest)
    BY DEF NoRequest, Request
  <2>2. ASSUME NEW c \in Clients, NEW d \in Deployments, ReadForCancel(c, d)
        PROVE  \E q : Named(q) /\ client' = [client EXCEPT ![c] = q]
    <3> DEFINE q == [op |-> "cancel", id |-> d, target |-> "none", version |-> dep[d].version]
    <3>1. dep[d].version \in Nat
      BY DEF CPInv, CPTypeOK, Deployment
    <3>2. Named(q)
      BY <3>1 DEF Request
    <3>3. client' = [client EXCEPT ![c] = q]
      BY <2>2 DEF ReadForCancel
    <3> HIDE DEF q, Named
    <3> QED BY <3>2, <3>3
  <2>3. ASSUME NEW c \in Clients, NEW a \in Aliases, NEW d \in Deployments,
               ReadForRollback(c, a, d)
        PROVE  \E q : Named(q) /\ client' = [client EXCEPT ![c] = q]
    <3> DEFINE q == [op |-> "rollback", id |-> a, target |-> d, version |-> alias[a].version]
    <3>1. alias[a].version \in Nat
      BY DEF CPInv, CPTypeOK, Alias
    <3>2. Named(q)
      BY <3>1 DEF Request
    <3>3. client' = [client EXCEPT ![c] = q]
      BY <2>3 DEF ReadForRollback
    <3> HIDE DEF q, Named
    <3> QED BY <3>2, <3>3
  <2>4. ASSUME NEW c \in Clients, Cancel(c) \/ Rollback(c)
        PROVE  client' = [client EXCEPT ![c] = NoRequest]
    BY <2>4 DEF Cancel, Rollback
  <2>5. ASSUME NEW d \in Deployments, Create(d) PROVE UNCHANGED client
    BY <2>5 DEF Create
  <2>6. ASSUME NEW a \in Aliases, NEW d \in Deployments, Promote(a, d) PROVE UNCHANGED client
    BY <2>6 DEF Promote
  <2>7. ASSUME NEW c \in commands, ProviderNext(c) \/ OrchestratorNext(c)
        PROVE  UNCHANGED client
    BY <2>7 DEF ProviderNext, ProviderReady, ProviderFailed, ProviderCanceled, OrchestratorNext,
                Prepare, BuildCompleted, BuildFailed, RequestBuildCancellation,
                CompleteBuildCancellation
  <2> HIDE DEF Named
  <2> QED
    BY <2>1, <2>2, <2>3, <2>4, <2>5, <2>6, <2>7, Zenon DEF CPNext, UserNext
<1>3. client' \in [Clients -> Request] /\ \A c \in Clients : Named(client'[c])
  BY <1>1, <1>2
<1> QED
  BY <1>3 DEF RequestsNamed

\* The invariant without the clients' part.
Records ==
    /\ dep \in [Deployments -> Deployment]
    /\ alias \in [Aliases -> Alias]
    /\ commands \in SUBSET Command
    /\ DeployVersions
    /\ NewAliasUnrouted
    /\ BuildMatchesDeployment
    /\ ServingIsLive
    /\ PromotedServes
    /\ AliasHistory
    /\ CancellationAnswerable
    /\ RoutingMatchesAlias

\* The routing of a revision that does not change is the same command.
LEMMA RoutingKept ==
    ASSUME CPInv, UNCHANGED alias, commands \subseteq commands', NewCommandsFit
    PROVE  RoutingMatchesAlias' /\ NewAliasUnrouted' /\ DeployVersions'
<1>1. \A c \in commands' : c.type = "route" => c \in commands
  BY DEF NewCommandsFit, Fits
<1>2. DeployVersions'
  BY DEF NewCommandsFit, Fits, CPInv, DeployVersions
<1>3. NewAliasUnrouted'
  BY <1>1 DEF CPInv, NewAliasUnrouted
<1>4. RoutingMatchesAlias'
  BY <1>1 DEF CPInv, RoutingMatchesAlias, Routing
<1> QED
  BY <1>2, <1>3, <1>4

LEMMA MovesPreserve ==
    ASSUME CPInv, NEW d \in Deployments, Moves(d)
    PROVE  Records'
<1>1. PICK s \in Deployment : /\ Successor(dep[d], s)
                              /\ dep' = [dep EXCEPT ![d] = s]
                              /\ s.status = "canceling"
                                   => CancelCommand(d, s.version) \in commands'
  BY DEF Moves
<1>2. /\ ~ServingAlias(d) /\ UNCHANGED alias /\ commands \subseteq commands'
      /\ commands' \subseteq Command /\ NewCommandsFit
  BY DEF Moves
<1>3. dep \in [Deployments -> Deployment] /\ alias \in [Aliases -> Alias]
  BY DEF CPInv, CPTypeOK
<1>4. dep'[d] = s /\ \A e \in Deployments : e # d => dep'[e] = dep[e]
  BY <1>1, <1>3
<1>5. dep' \in [Deployments -> Deployment] /\ alias' \in [Aliases -> Alias]
      /\ commands' \in SUBSET Command
  BY <1>1, <1>2, <1>3
<1>6. RoutingMatchesAlias' /\ NewAliasUnrouted' /\ DeployVersions'
  BY <1>2, RoutingKept
<1>7. BuildMatchesDeployment'
  BY <1>1, <1>4 DEF CPInv, BuildMatchesDeployment, Successor
<1>8. \A a \in Aliases : alias[a].current # d /\ alias'[a] = alias[a]
  BY <1>2 DEF ServingAlias
<1>9. \A a \in Aliases : alias[a].current \in Deployments \cup {"none"}
                          /\ alias[a].previous \in Deployments \cup {"none"}
  BY <1>3 DEF Alias
<1>10. ServingIsLive'
  BY <1>4, <1>8, <1>9 DEF CPInv, ServingIsLive
<1>11. PromotedServes'
  BY <1>1, <1>4, <1>8 DEF CPInv, PromotedServes, ServingAlias, Successor
<1>12. AliasHistory'
  BY <1>1, <1>4, <1>8, <1>9 DEF CPInv, AliasHistory, Successor
<1>13. CancellationAnswerable'
  BY <1>1, <1>2, <1>4 DEF CPInv, CancellationAnswerable, CancelCommand
<1> QED
  BY <1>5, <1>6, <1>7, <1>10, <1>11, <1>12, <1>13 DEF Records

LEMMA StaysPreserve ==
    ASSUME CPInv, Stays
    PROVE  Records'
<1>1. /\ UNCHANGED <<dep, alias>> /\ commands \subseteq commands'
      /\ commands' \subseteq Command /\ NewCommandsFit
  BY DEF Stays
<1>2. RoutingMatchesAlias' /\ NewAliasUnrouted' /\ DeployVersions'
  BY <1>1, RoutingKept
<1>3. dep' \in [Deployments -> Deployment] /\ alias' \in [Aliases -> Alias]
      /\ commands' \in SUBSET Command
  BY <1>1 DEF CPInv, CPTypeOK
<1>4. BuildMatchesDeployment' /\ ServingIsLive' /\ PromotedServes' /\ AliasHistory'
  BY <1>1 DEF CPInv, BuildMatchesDeployment, ServingIsLive, PromotedServes, AliasHistory,
              ServingAlias
<1>5. CancellationAnswerable'
  BY <1>1 DEF CPInv, CancellationAnswerable, CancelCommand
<1> QED
  BY <1>2, <1>3, <1>4, <1>5 DEF Records

\* What PromoteAlias makes of the alias and of the deployments.
LEMMA PromoteFacts ==
    ASSUME CPInv, NEW a \in Aliases, NEW d \in Deployments, PromoteAlias(a, d)
    PROVE  LET e == alias[a].current
               n == Repointed(alias[a], d)
           IN /\ e # d /\ e \in Deployments \cup {"none"}
              /\ Promotable(d)
              /\ n \in Alias /\ n.current = d /\ n.previous = e
              /\ n.version = IF e = "none" THEN 0 ELSE alias[a].version + 1
              /\ alias' = [alias EXCEPT ![a] = n]
              /\ Routing(a, n) \in Command
              /\ commands' = commands \cup {Routing(a, n)}
              /\ dep' \in [Deployments -> Deployment]
              /\ dep'[d].status = "promoted"
              /\ \A x \in Deployments :
                    /\ dep'[x].build = dep[x].build /\ dep'[x].revision = dep[x].revision
                    /\ x # d => dep'[x].status =
                         IF x = e /\ dep[x].status = "promoted" THEN "superseded"
                         ELSE dep[x].status
                    /\ BuildAgrees(dep'[x])
                    /\ dep'[x].status = "canceling" => dep'[x] = dep[x]
<1> DEFINE e == alias[a].current
           n == Repointed(alias[a], d)
<1>1. dep \in [Deployments -> Deployment] /\ alias \in [Aliases -> Alias]
      /\ alias[a] \in Alias
  BY DEF CPInv, CPTypeOK
<1>2. e # d /\ e \in Deployments \cup {"none"} /\ Promotable(d)
  BY <1>1 DEF PromoteAlias, Alias
<1>3. /\ n \in Alias /\ n.current = d /\ n.previous = e
      /\ n.version = IF e = "none" THEN 0 ELSE alias[a].version + 1
  BY <1>1 DEF Repointed, Alias
<1>4. /\ alias' = [alias EXCEPT ![a] = n]
      /\ commands' = commands \cup {Routing(a, n)}
  BY DEF PromoteAlias, Publish
<1>5. Routing(a, n) \in Command
  BY <1>3 DEF Routing, Command, Alias
<1>6. dep' = [x \in Deployments |->
                IF x = d THEN Promoted(dep[x])
                ELSE IF x = e THEN Superseded(dep[x]) ELSE dep[x]]
  BY DEF PromoteAlias
<1> DEFINE Fine(x) ==
             /\ dep'[x] \in Deployment
             /\ x = d => dep'[x].status = "promoted"
             /\ dep'[x].build = dep[x].build /\ dep'[x].revision = dep[x].revision
             /\ x # d => dep'[x].status =
                  IF x = e /\ dep[x].status = "promoted" THEN "superseded"
                  ELSE dep[x].status
             /\ BuildAgrees(dep'[x])
             /\ dep'[x].status = "canceling" => dep'[x] = dep[x]
<1>7. ASSUME NEW x \in Deployments PROVE Fine(x)
  <2>1. dep[x] \in Deployment /\ BuildAgrees(dep[x])
    BY <1>1 DEF CPInv, BuildMatchesDeployment
  <2>2. CASE x = d /\ dep[x].status # "promoted"
    <3>1. dep'[x] = Moved(dep[x], "promoted")
      BY <1>6, <2>2 DEF Promoted
    <3>2. /\ dep'[x] \in Deployment /\ dep'[x].status = "promoted"
          /\ dep'[x].version = dep[x].version + 1
          /\ dep'[x].build = dep[x].build /\ dep'[x].revision = dep[x].revision
      BY <2>1, <3>1, MovedFacts DEF Statuses
    <3>3. dep[x].status \in {"ready", "superseded"} /\ dep[x].revision = "ready"
      BY <1>2, <2>2 DEF Promotable, PROMOTABLE_DEPLOYMENT_STATUSES
    <3>4. BuildAgrees(dep'[x])
      BY <2>1, <3>2, <3>3 DEF BuildAgrees, Deployment, PROMOTABLE_DEPLOYMENT_STATUSES
    <3> QED
      BY <2>2, <3>2, <3>4
  <2>3. CASE x = d /\ dep[x].status = "promoted"
    <3>1. dep'[x] = dep[x]
      BY <1>6, <2>3 DEF Promoted
    <3> QED BY <2>1, <2>3, <3>1
  <2>4. CASE x # d /\ x = e /\ dep[x].status = "promoted"
    <3>1. dep'[x] = Moved(dep[x], "superseded")
      BY <1>6, <2>4 DEF Superseded
    <3>2. /\ dep'[x] \in Deployment /\ dep'[x].status = "superseded"
          /\ dep'[x].version = dep[x].version + 1
          /\ dep'[x].build = dep[x].build /\ dep'[x].revision = dep[x].revision
      BY <2>1, <3>1, MovedFacts DEF Statuses
    <3>3. BuildAgrees(dep'[x])
      BY <2>1, <2>4, <3>2 DEF BuildAgrees, Deployment, PROMOTABLE_DEPLOYMENT_STATUSES
    <3> QED
      BY <2>4, <3>2, <3>3
  <2>5. CASE x # d /\ ~(x = e /\ dep[x].status = "promoted")
    <3>1. dep'[x] = dep[x]
      BY <1>6, <2>5 DEF Superseded
    <3> QED BY <2>1, <2>5, <3>1
  <2> QED
    BY <2>2, <2>3, <2>4, <2>5
<1>8. dep' \in [Deployments -> Deployment]
  <2>1. dep' = [x \in Deployments |-> dep'[x]]
    BY <1>6
  <2> QED BY <1>7, <2>1
<1> HIDE DEF e, n
<1> QED
  BY <1>2, <1>3, <1>4, <1>5, <1>7, <1>8 DEF e, n
LEMMA PromotePreserves ==
    ASSUME CPInv, NEW a \in Aliases, NEW d \in Deployments, PromoteAlias(a, d)
    PROVE  Records'
<1> DEFINE e == alias[a].current
           n == Repointed(alias[a], d)
<1>1. /\ e # d /\ e \in Deployments \cup {"none"} /\ Promotable(d)
      /\ n \in Alias /\ n.current = d /\ n.previous = e
      /\ n.version = IF e = "none" THEN 0 ELSE alias[a].version + 1
      /\ alias' = [alias EXCEPT ![a] = n]
      /\ Routing(a, n) \in Command
      /\ commands' = commands \cup {Routing(a, n)}
      /\ dep' \in [Deployments -> Deployment]
      /\ dep'[d].status = "promoted"
      /\ \A x \in Deployments :
            /\ dep'[x].build = dep[x].build /\ dep'[x].revision = dep[x].revision
            /\ x # d => dep'[x].status =
                 IF x = e /\ dep[x].status = "promoted" THEN "superseded" ELSE dep[x].status
            /\ BuildAgrees(dep'[x])
            /\ dep'[x].status = "canceling" => dep'[x] = dep[x]
  BY PromoteFacts
<1>2. /\ dep \in [Deployments -> Deployment] /\ alias \in [Aliases -> Alias]
      /\ commands \in SUBSET Command
  BY DEF CPInv, CPTypeOK
<1> HIDE DEF n
<1>3. alias'[a] = n /\ \A b \in Aliases : b # a => alias'[b] = alias[b]
  BY <1>1, <1>2
<1>4. alias' \in [Aliases -> Alias] /\ commands' \in SUBSET Command
  BY <1>1, <1>2
<1>5. \A b \in Aliases : /\ alias[b].current \in Deployments \cup {"none"}
                         /\ alias[b].previous \in Deployments \cup {"none"}
                         /\ alias[b].version \in Nat
  BY <1>2 DEF Alias
<1>6. BuildMatchesDeployment'
  BY <1>1 DEF BuildMatchesDeployment
<1>7. ServingIsLive'
  <2>1. \A x \in Deployments :
          dep[x].status \in {"promoted", "superseded"} =>
             dep'[x].status \in {"promoted", "superseded"}
    BY <1>1
  <2>2. dep[d].revision = "ready"
    BY <1>1 DEF Promotable
  <2>3. dep'[d].revision = "ready" /\ dep'[d].status \in {"promoted", "superseded"}
    BY <1>1, <2>2
  <2> QED
    BY <1>1, <1>3, <1>5, <2>1, <2>3 DEF CPInv, ServingIsLive
<1>8. PromotedServes'
  <2> SUFFICES ASSUME NEW x \in Deployments, dep'[x].status = "promoted"
               PROVE  \E b \in Aliases : alias'[b].current = x
    BY DEF PromotedServes, ServingAlias
  <2>1. CASE x = d
    BY <1>1, <1>3, <2>1
  <2>2. CASE x # d
    <3>1. dep[x].status = "promoted" /\ x # e
      BY <1>1, <2>2
    <3>2. PICK b \in Aliases : alias[b].current = x
      BY <3>1 DEF CPInv, PromotedServes, ServingAlias
    <3>3. b # a
      BY <3>1, <3>2
    <3> QED
      BY <1>3, <3>2, <3>3
  <2> QED
    BY <2>1, <2>2
<1>9. AliasHistory'
  <2>1. \A x \in Deployments : dep[x].revision = "ready" => dep'[x].revision = "ready"
    BY <1>1
  <2>2. e # "none" => dep[e].revision = "ready"
    BY DEF CPInv, ServingIsLive
  <2>3. d # "none"
    BY ControlPlaneAssumption
  <2> QED
    BY <1>1, <1>3, <1>5, <2>1, <2>2, <2>3 DEF CPInv, AliasHistory
<1>10. CancellationAnswerable'
  BY <1>1 DEF CPInv, CancellationAnswerable, CancelCommand
<1>11. DeployVersions'
  BY <1>1 DEF CPInv, DeployVersions, Routing
<1>12. NewAliasUnrouted'
  <2>1. d # "none"
    BY ControlPlaneAssumption
  <2> QED
    BY <1>1, <1>3, <2>1 DEF CPInv, NewAliasUnrouted, Routing
<1>13. RoutingMatchesAlias'
  <2> SUFFICES ASSUME NEW b \in Aliases
               PROVE  /\ \A c1, c2 \in commands' :
                            c1.type = "route" /\ c2.type = "route" /\ c1.id = b
                              /\ c2.id = b /\ c1.version = c2.version => c1 = c2
                      /\ \A c \in commands' :
                            c.type = "route" /\ c.id = b => c.version <= alias'[b].version
                      /\ alias'[b].current # "none" => Routing(b, alias'[b]) \in commands'
    BY DEF RoutingMatchesAlias, Routing
  <2>1. /\ \A c1, c2 \in commands :
              c1.type = "route" /\ c2.type = "route" /\ c1.id = b
                /\ c2.id = b /\ c1.version = c2.version => c1 = c2
        /\ \A c \in commands :
              c.type = "route" /\ c.id = b => c.version <= alias[b].version
        /\ alias[b].current # "none" => Routing(b, alias[b]) \in commands
    BY DEF CPInv, RoutingMatchesAlias
  <2>2. Routing(a, n).type = "route" /\ Routing(a, n).id = a /\ Routing(a, n).version = n.version
    BY DEF Routing
  <2>3. CASE b # a
    BY <1>1, <1>3, <2>1, <2>2, <2>3
  <2>4. CASE b = a
    <3>1. ASSUME NEW c \in commands, c.type = "route", c.id = a
          PROVE  c.version \in Nat /\ c.version < n.version
      <4>1. e # "none"
        BY <3>1 DEF CPInv, NewAliasUnrouted
      <4>2. c.version \in Nat
        BY <1>2, CommandNames
      <4>3. c.version <= alias[a].version
        BY <2>1, <2>4, <3>1
      <4> QED
        BY <1>1, <1>5, <4>1, <4>2, <4>3
    <3>2. n.version \in Nat
      BY <1>1 DEF Alias
    <3> QED
      BY <1>1, <1>3, <2>1, <2>2, <2>4, <3>1, <3>2
  <2> QED
    BY <2>3, <2>4
<1> QED
  BY <1>1, <1>4, <1>6, <1>7, <1>8, <1>9, <1>10, <1>11, <1>12, <1>13 DEF Records

LEMMA InitInvariant == CPInit => CPInv
<1> SUFFICES ASSUME CPInit PROVE CPInv
  OBVIOUS
<1>1. /\ dep = [d \in Deployments |-> NoDeployment]
      /\ alias = [a \in Aliases |-> NoAlias]
      /\ commands = {} /\ client = [c \in Clients |-> NoRequest]
  BY DEF CPInit
<1>2. /\ NoDeployment \in Deployment /\ NoDeployment.status = "none"
      /\ BuildAgrees(NoDeployment)
  BY DEF NoDeployment, Deployment, BuildAgrees, PROMOTABLE_DEPLOYMENT_STATUSES
<1>3. NoAlias \in Alias /\ NoAlias.current = "none" /\ NoAlias.previous = "none"
  BY DEF NoAlias, Alias
<1>4. NoRequest \in Request /\ NoRequest.op = "none"
  BY DEF NoRequest, Request
<1>5. CPTypeOK
  BY <1>1, <1>2, <1>3, <1>4 DEF CPTypeOK
<1>6. RequestsNamed /\ DeployVersions /\ NewAliasUnrouted
  BY <1>1, <1>4 DEF RequestsNamed, DeployVersions, NewAliasUnrouted
<1>7. BuildMatchesDeployment /\ ServingIsLive /\ PromotedServes /\ AliasHistory
  BY <1>1, <1>2, <1>3
  DEF BuildMatchesDeployment, ServingIsLive, PromotedServes, AliasHistory
<1>8. CancellationAnswerable /\ RoutingMatchesAlias
  BY <1>1, <1>2, <1>3 DEF CancellationAnswerable, RoutingMatchesAlias
<1> QED
  BY <1>5, <1>6, <1>7, <1>8 DEF CPInv

LEMMA StepInvariant == CPInv /\ [CPNext]_cpVars => CPInv'
<1> SUFFICES ASSUME CPInv, [CPNext]_cpVars PROVE CPInv'
  OBVIOUS
<1>1. CASE CPNext
  <2>1. Records'
    BY <1>1, StepKinds, MovesPreserve, PromotePreserves, StaysPreserve DEF StepKind
  <2>2. client' \in [Clients -> Request] /\ RequestsNamed'
    BY <1>1, ClientInvariant
  <2> QED
    BY <2>1, <2>2 DEF Records, CPInv, CPTypeOK
<1>2. CASE UNCHANGED cpVars
  BY <1>2
  DEF cpVars, CPInv, CPTypeOK, RequestsNamed, DeployVersions, NewAliasUnrouted,
      BuildMatchesDeployment, ServingIsLive, PromotedServes, ServingAlias, AliasHistory,
      CancellationAnswerable, CancelCommand, RoutingMatchesAlias, Routing
<1> QED
  BY <1>1, <1>2

\* CPInv holds in every reachable state of the control plane.
THEOREM ControlPlaneInvariant == CPSpec => []CPInv
<1> QED
  BY InitInvariant, StepInvariant, PTL DEF CPSpec

\* CPTypeOK: every record of the control plane has its type.
THEOREM TypeCorrect == CPSpec => []CPTypeOK
<1>1. CPInv => CPTypeOK
  BY DEF CPInv
<1> QED
  BY <1>1, ControlPlaneInvariant, PTL

\* ServingIsLive: what an alias routes to is never canceling, canceled or
\* failed, however cancellations, promotions and callbacks interleave.
THEOREM ServingStaysLive == CPSpec => []ServingIsLive
<1>1. CPInv => ServingIsLive
  BY DEF CPInv
<1> QED
  BY <1>1, ControlPlaneInvariant, PTL

\* PromotedServes: the status "promoted" is held only by deployments that an
\* alias routes to.
THEOREM PromotedDeploymentsServe == CPSpec => []PromotedServes
<1>1. CPInv => PromotedServes
  BY DEF CPInv
<1> QED
  BY <1>1, ControlPlaneInvariant, PTL

\* AliasHistory: competing promotions and rollbacks keep a two-revision history.
THEOREM HistoryConsistent == CPSpec => []AliasHistory
<1>1. CPInv => AliasHistory
  BY DEF CPInv
<1> QED
  BY <1>1, ControlPlaneInvariant, PTL

\* BuildMatchesDeployment: deployment and build never contradict each other,
\* whichever of a build's completion and a cancellation comes first.
THEOREM BuildsMatch == CPSpec => []BuildMatchesDeployment
<1>1. CPInv => BuildMatchesDeployment
  BY DEF CPInv
<1> QED
  BY <1>1, ControlPlaneInvariant, PTL

\* CancellationAnswerable: no deployment is stuck in canceling for want of a
\* command that quotes its version.
THEOREM CancellationsAnswerable == CPSpec => []CancellationAnswerable
<1>1. CPInv => CancellationAnswerable
  BY DEF CPInv
<1> QED
  BY <1>1, ControlPlaneInvariant, PTL

\* RoutingMatchesAlias: the outbox has one routing command for each version an
\* alias has had, and the newest names its current revision.
THEOREM RoutingNumbered == CPSpec => []RoutingMatchesAlias
<1>1. CPInv => RoutingMatchesAlias
  BY DEF CPInv
<1> QED
  BY <1>1, ControlPlaneInvariant, PTL

\* ServingConsistent: aliases serve what is live, and what is called promoted
\* is served.
THEOREM ServingIsConsistent == CPSpec => []ServingConsistent
BY ServingStaysLive, PromotedDeploymentsServe, PTL DEF ServingConsistent

\* RecordsConsistent: deployments, builds, aliases and the commands in the
\* outbox agree, however callbacks, cancellations and rollbacks interleave.
THEOREM RecordsAreConsistent == CPSpec => []RecordsConsistent
BY TypeCorrect, HistoryConsistent, BuildsMatch, CancellationsAnswerable, RoutingNumbered, PTL
   DEF RecordsConsistent

\* Only a rollback, or a promotion that leaves the requests alone, changes an
\* alias, and a rollback changes it only at the version it was asked for.
LEMMA RollbackStep ==
    ASSUME CPInv, [CPNext]_cpVars, NEW c \in Clients, NEW a \in Aliases,
           client[c].op = "rollback", client[c].id = a, client'[c] = NoRequest,
           alias'[a] # alias[a]
    PROVE  alias'[a].version = client[c].version + 1
<1>1. NoRequest.op = "none"
  BY DEF NoRequest
<1>2. \E q \in Clients : Rollback(q)
  <2>1. ~ UNCHANGED client
    BY <1>1
  <2>2. ~ UNCHANGED alias
    OBVIOUS
  <2>3. CPNext
    BY <2>1 DEF cpVars
  <2>4. \A d \in Deployments : ~Create(d)
    BY <2>1 DEF Create
  <2>5. \A q \in Clients, d \in Deployments : ~ReadForCancel(q, d)
    BY <2>2 DEF ReadForCancel
  <2>6. \A q \in Clients : ~Cancel(q)
    BY <2>2 DEF Cancel
  <2>7. \A q \in Clients, b \in Aliases, d \in Deployments : ~ReadForRollback(q, b, d)
    BY <2>2 DEF ReadForRollback
  <2>8. \A b \in Aliases, d \in Deployments : ~Promote(b, d)
    BY <2>1 DEF Promote
  <2>9. \A k \in commands : ~ProviderNext(k) /\ ~OrchestratorNext(k)
    BY <2>2 DEF ProviderNext, ProviderReady, ProviderFailed, ProviderCanceled,
                OrchestratorNext, Prepare, BuildCompleted, BuildFailed,
                RequestBuildCancellation, CompleteBuildCancellation
  <2> QED
    BY <2>3, <2>4, <2>5, <2>6, <2>7, <2>8, <2>9, Zenon DEF CPNext, UserNext
<1>3. PICK q \in Clients : Rollback(q)
  BY <1>2
<1>4. q = c
  <2>1. client' = [client EXCEPT ![q] = NoRequest] /\ client \in [Clients -> Request]
    BY <1>3 DEF Rollback, CPInv, CPTypeOK
  <2> QED
    BY <1>1, <2>1
<1>5. /\ RollbackAgrees(c) /\ PromoteAlias(a, client[c].target)
      /\ client[c].target \in Deployments
  BY <1>3, <1>4 DEF Rollback, CPInv, RequestsNamed
<1>6. alias[a].current # "none"
  <2>1. alias[a].previous = client[c].target /\ client[c].target # "none"
    BY <1>5, ControlPlaneAssumption DEF RollbackAgrees
  <2>2. NoAlias.previous = "none"
    BY DEF NoAlias
  <2> QED
    BY <2>1, <2>2 DEF CPInv, AliasHistory
<1>7. /\ alias' = [alias EXCEPT ![a] = Repointed(alias[a], client[c].target)]
      /\ Repointed(alias[a], client[c].target).version = alias[a].version + 1
  BY <1>5, <1>6, PromoteFacts
<1> QED
  BY <1>5, <1>7 DEF RollbackAgrees, CPInv, CPTypeOK

\* RollbackIsOfVersionSeen: a rollback takes effect only on the version of the
\* alias that the request was made for.
THEOREM RollbackOfVersionSeen == CPSpec => RollbackIsOfVersionSeen
<1>1. CPInv /\ [CPNext]_cpVars
        => [\A c \in Clients : \A a \in Aliases :
              client[c].op = "rollback" /\ client[c].id = a /\ client'[c] = NoRequest
                /\ alias'[a] # alias[a]
              => alias'[a].version = client[c].version + 1]_cpVars
  BY RollbackStep
<1> QED
  BY <1>1, ControlPlaneInvariant, PTL DEF CPSpec, RollbackIsOfVersionSeen
-----------------------------------------------------------------------------
\* Refinement: the mapped variables, by name.
PhaseOf == [d \in Deployments |-> Phase(dep[d])]
ServesOf == [a \in Aliases |-> alias[a].current]

LEMMA MovesAdvance ==
    ASSUME CPInv, NEW d \in Deployments, Moves(d)
    PROVE  [Contract!Next]_(Contract!contractVars)
<1>1. PICK s \in Deployment : /\ Successor(dep[d], s)
                              /\ dep' = [dep EXCEPT ![d] = s]
  BY DEF Moves
<1>2. ~ServingAlias(d) /\ UNCHANGED alias
  BY DEF Moves
<1>3. dep \in [Deployments -> Deployment]
  BY DEF CPInv, CPTypeOK
<1>4. dep'[d] = s /\ \A e \in Deployments : e # d => dep'[e] = dep[e]
  BY <1>1, <1>3
<1>5. PhaseEdge(Phase(dep[d]), Phase(s))
  BY <1>1 DEF Successor
<1>6. PhaseOf' = [PhaseOf EXCEPT ![d] = Phase(s)] /\ ServesOf' = ServesOf
  <2>1. \A e \in Deployments : Phase(dep[e])' = IF e = d THEN Phase(s) ELSE Phase(dep[e])
    BY <1>4 DEF Phase
  <2> QED
    BY <1>2, <2>1 DEF PhaseOf, ServesOf
<1>7. ~Contract!Serving(d)
  BY <1>2 DEF Contract!Serving, ServingAlias
<1>8. CASE Phase(dep[d]) = Phase(s)
  <2>1. PhaseOf' = PhaseOf
    BY <1>6, <1>8 DEF PhaseOf
  <2> QED
    BY <1>6, <2>1 DEF Contract!contractVars, PhaseOf, ServesOf
<1>9. CASE Phase(dep[d]) # Phase(s)
  <2>1. PhaseOf[d] = Phase(dep[d])
    BY DEF PhaseOf
  <2>2. Phase(s) \in {"open", "live", "closing", "closed"}
    BY <1>5, <1>9 DEF PhaseEdge
  <2>3. Contract!Advance(d, Phase(s))
    BY <1>5, <1>6, <1>7, <1>9, <2>1 DEF Contract!Advance, PhaseEdge, PhaseOf, ServesOf
  <2>4. Contract!Next
    BY <2>2, <2>3 DEF Contract!Next
  <2> QED
    BY <2>4
<1> QED
  BY <1>8, <1>9

LEMMA PromoteRoutes ==
    ASSUME CPInv, NEW a \in Aliases, NEW d \in Deployments, PromoteAlias(a, d)
    PROVE  Contract!Next
<1> DEFINE e == alias[a].current
           n == Repointed(alias[a], d)
<1>1. /\ Promotable(d)
      /\ n.current = d
      /\ alias' = [alias EXCEPT ![a] = n]
      /\ dep' \in [Deployments -> Deployment]
      /\ dep'[d].status = "promoted"
      /\ \A x \in Deployments :
            x # d => dep'[x].status =
                 IF x = e /\ dep[x].status = "promoted" THEN "superseded" ELSE dep[x].status
  BY PromoteFacts
<1>2. dep \in [Deployments -> Deployment] /\ alias \in [Aliases -> Alias]
  BY DEF CPInv, CPTypeOK
<1> HIDE DEF n
<1>3. dep[d].status \in {"ready", "promoted", "superseded"}
  BY <1>1 DEF Promotable, PROMOTABLE_DEPLOYMENT_STATUSES
<1>4. ASSUME NEW x \in Deployments PROVE Phase(dep'[x]) = Phase(dep[x])
  <2>1. CASE x = d
    BY <1>1, <1>2, <1>3, <2>1, PhaseFacts
  <2>2. CASE x # d
    BY <1>1, <2>2 DEF Phase, PROMOTABLE_DEPLOYMENT_STATUSES
  <2> QED
    BY <2>1, <2>2
<1>5. PhaseOf' = PhaseOf
  BY <1>4 DEF PhaseOf
<1>6. ServesOf' = [ServesOf EXCEPT ![a] = d]
  BY <1>1, <1>2 DEF ServesOf
<1>7. PhaseOf[d] = "live"
  BY <1>2, <1>3, PhaseFacts DEF PhaseOf
<1>8. Contract!Route(a, d)
  BY <1>5, <1>6, <1>7 DEF Contract!Route, PhaseOf, ServesOf
<1> QED
  BY <1>8 DEF Contract!Next

\* ServesOnlyLive: deployments and aliases implement ServingContract, every
\* step of the control plane being one of its steps or a stutter.
THEOREM Refinement == CPSpec => ServesOnlyLive
<1>1. CPInit => Contract!Init
  <2> SUFFICES ASSUME CPInit PROVE Contract!Init
    OBVIOUS
  <2>1. Phase(NoDeployment) = "none"
    <3>1. NoDeployment \in Deployment /\ NoDeployment.status = "none"
      BY DEF NoDeployment, Deployment
    <3> QED
      BY <3>1, PhaseFacts
  <2>2. NoAlias.current = "none"
    BY DEF NoAlias
  <2>3. PhaseOf = [d \in Deployments |-> "none"] /\ ServesOf = [a \in Aliases |-> "none"]
    BY <2>1, <2>2 DEF PhaseOf, ServesOf, CPInit
  <2> QED
    BY <2>3 DEF Contract!Init, PhaseOf, ServesOf
<1>2. CPInv /\ [CPNext]_cpVars => [Contract!Next]_(Contract!contractVars)
  <2> SUFFICES ASSUME CPInv, [CPNext]_cpVars
               PROVE  [Contract!Next]_(Contract!contractVars)
    OBVIOUS
  <2>1. CASE CPNext
    <3>1. ASSUME Stays PROVE [Contract!Next]_(Contract!contractVars)
      BY <3>1 DEF Stays, Contract!contractVars
    <3> QED
      BY <2>1, <3>1, StepKinds, MovesAdvance, PromoteRoutes DEF StepKind
  <2>2. CASE UNCHANGED cpVars
    BY <2>2 DEF cpVars, Contract!contractVars
  <2> QED
    BY <2>1, <2>2
<1> QED
  BY <1>1, <1>2, ControlPlaneInvariant, PTL DEF CPSpec, ServesOnlyLive, Contract!Spec
=============================================================================
