------------------------- MODULE LocalProviderProofs -------------------------
(***************************************************************************)
(* Proofs about LocalProvider for any sets of deployments, aliases and     *)
(* clients and any bounds on attempts, claims and faults.                  *)
(*                                                                         *)
(* A step of the whole system is a step of the control plane or leaves it  *)
(* alone, so what ControlPlaneProofs shows holds here as well (LPRefines). *)
(* The rest of the invariant is about the process: what its program        *)
(* counter lets it assume about the outbox, the receipts, its store, the   *)
(* containers and the route file.                                          *)
(***************************************************************************)
EXTENDS LocalProvider, ControlPlaneProofs, SequenceTheorems

\* What a user's request may make of a deployment record.
Keeps(r, s) ==
    /\ r.version <= s.version
    /\ r.status # "none" => s.status # "none"
    /\ Kept(r) => Kept(s)
    /\ s.revision # "none" => r.revision # "none"
    /\ s.status = "canceled" => r.status = "canceled"

\* A command of the provider that quotes a version the deployment in D has or had.
CommandKnown(c, D) ==
    /\ c.type \in {"deploy", "cancel", "route"}
    /\ c.type # "route" => D[c.id].status # "none" /\ c.version <= D[c.id].version

PublishesNothing == commands' = commands
Publishes(c) == c \notin commands /\ commands' = commands \cup {c} /\ CommandKnown(c, dep')
PublishesOne == PublishesNothing \/ \E c \in Command : Publishes(c)

UserEffect ==
    /\ \A d \in Deployments : Keeps(dep[d], dep'[d])
    /\ PublishesOne

LEMMA KeepsItself == ASSUME NEW r \in Deployment PROVE Keeps(r, r)
  BY DEF Keeps, Deployment

LEMMA CreateEffect ==
    ASSUME CPInv, NEW d \in Deployments, Create(d)
    PROVE  UserEffect
<1> DEFINE s == [NoDeployment EXCEPT !.status = "created"]
<1>1. dep \in [Deployments -> Deployment] /\ BuildAgrees(dep[d]) /\ dep[d].status = "none"
  BY DEF CPInv, CPTypeOK, BuildMatchesDeployment, Create
<1>2. /\ s \in Deployment /\ s.status = "created" /\ s.version = 0 /\ s.revision = "none"
  BY DEF NoDeployment, Deployment, Statuses
<1>3. dep' = [dep EXCEPT ![d] = s] /\ commands' = commands \cup {DeployCommand(d, 0)}
  BY DEF Create, Publish
<1> HIDE DEF s
<1>4. Keeps(dep[d], s)
  BY <1>1, <1>2 DEF Keeps, Kept, BuildAgrees, PROMOTABLE_DEPLOYMENT_STATUSES
<1>5. \A e \in Deployments : Keeps(dep[e], dep'[e])
  BY <1>1, <1>3, <1>4, KeepsItself
<1>6. CommandKnown(DeployCommand(d, 0), dep')
  BY <1>1, <1>2, <1>3 DEF CommandKnown, DeployCommand
<1> QED
  BY <1>3, <1>5, <1>6, CommandTypes
  DEF UserEffect, PublishesOne, PublishesNothing, Publishes

LEMMA CancelEffect ==
    ASSUME CPInv, NEW c \in Clients, Cancel(c)
    PROVE  UserEffect
<1> DEFINE d == client[c].id
           s == Moved(dep[d], "canceling")
<1>1. d \in Deployments /\ dep \in [Deployments -> Deployment]
  BY DEF CPInv, CPTypeOK, RequestsNamed, Cancel
<1>2. CASE ~ServingAlias(d) /\ dep[d].version = client[c].version /\ May(d, "canceling")
  <2>1. dep' = [dep EXCEPT ![d] = s] /\ commands' = commands \cup {Cancellation(d)}
    BY <1>2 DEF Cancel, Publish
  <2>2. /\ s \in Deployment /\ s.status = "canceling" /\ s.version = dep[d].version + 1
        /\ s.revision = dep[d].revision
    BY <1>1, MovedFacts DEF Statuses
  <2>3. Cancellation(d) = CancelCommand(d, s.version) /\ dep[d].version \in Nat
    BY <1>1, <2>2 DEF Cancellation, Deployment
  <2> HIDE DEF s, d
  <2>4. Keeps(dep[d], s)
    BY <1>1, <2>2, <2>3 DEF Keeps, Kept, Deployment
  <2>5. \A e \in Deployments : Keeps(dep[e], dep'[e])
    BY <1>1, <2>1, <2>4, KeepsItself
  <2>6. s.version \in Nat /\ dep'[d] = s
    BY <1>1, <2>1, <2>2 DEF Deployment
  <2>7. CommandKnown(CancelCommand(d, s.version), dep')
    BY <2>2, <2>6 DEF CommandKnown, CancelCommand
  <2>8. CancelCommand(d, s.version) \in Command
    BY <1>1, <2>6, CommandTypes
  <2> QED
    BY <2>1, <2>3, <2>5, <2>7, <2>8 DEF UserEffect, PublishesOne, PublishesNothing, Publishes
<1>3. CASE ~(~ServingAlias(d) /\ dep[d].version = client[c].version /\ May(d, "canceling"))
  <2>1. UNCHANGED <<dep, commands>>
    BY <1>3 DEF Cancel
  <2> QED
    BY <1>1, <2>1, KeepsItself DEF UserEffect, PublishesOne, PublishesNothing
<1> QED
  BY <1>2, <1>3

LEMMA PromoteEffect ==
    ASSUME CPInv, NEW a \in Aliases, NEW d \in Deployments, PromoteAlias(a, d)
    PROVE  UserEffect
<1> DEFINE e == alias[a].current
           n == Repointed(alias[a], d)
<1>1. /\ e # d
      /\ Promotable(d)
      /\ Routing(a, n) \in Command
      /\ commands' = commands \cup {Routing(a, n)}
      /\ dep' \in [Deployments -> Deployment]
      /\ dep'[d].status = "promoted"
      /\ \A x \in Deployments :
            /\ dep'[x].revision = dep[x].revision
            /\ x # d => dep'[x].status =
                 IF x = e /\ dep[x].status = "promoted" THEN "superseded" ELSE dep[x].status
  BY PromoteFacts
<1>2. Routing(a, n).type = "route"
  BY DEF Routing
<1> HIDE DEF n
<1>3. ASSUME NEW x \in Deployments PROVE Keeps(dep[x], dep'[x])
  <2>1. dep[x] \in Deployment /\ dep'[x] \in Deployment
    BY <1>1 DEF CPInv, CPTypeOK
  <2>2. dep[x].version <= dep'[x].version
    <3>1. dep'[x] = dep[x] \/ dep'[x] = Moved(dep[x], "promoted")
            \/ dep'[x] = Moved(dep[x], "superseded")
      BY DEF PromoteAlias, Promoted, Superseded
    <3>2. dep[x].version \in Nat
      BY <2>1 DEF Deployment
    <3> QED
      BY <2>1, <3>1, <3>2, MovedFacts DEF Statuses
  <2>3. CASE x = d
    BY <1>1, <2>1, <2>2, <2>3 DEF Keeps, Kept, Promotable, PROMOTABLE_DEPLOYMENT_STATUSES
  <2>4. CASE x # d
    BY <1>1, <2>1, <2>2, <2>4 DEF Keeps, Kept, PROMOTABLE_DEPLOYMENT_STATUSES
  <2> QED
    BY <2>3, <2>4
<1>4. CommandKnown(Routing(a, n), dep')
  BY <1>2 DEF CommandKnown
<1> QED
  BY <1>1, <1>3, <1>4 DEF UserEffect, PublishesOne, PublishesNothing, Publishes

\* A user's request keeps what the provider has been told of a deployment, and
\* publishes at most one command.
LEMMA UserEffects ==
    ASSUME CPInv, UserNext
    PROVE  UserEffect
<1>1. ASSUME UNCHANGED <<dep, commands>> PROVE UserEffect
  BY <1>1, KeepsItself DEF UserEffect, PublishesOne, PublishesNothing, CPInv, CPTypeOK
<1>2. ASSUME NEW c \in Clients, Rollback(c) PROVE UserEffect
  <2>1. client[c].id \in Aliases /\ client[c].target \in Deployments
    BY <1>2 DEF Rollback, CPInv, RequestsNamed
  <2>2. PromoteAlias(client[c].id, client[c].target) \/ UNCHANGED <<dep, alias, commands>>
    BY <1>2 DEF Rollback
  <2> QED
    BY <1>1, <2>1, <2>2, PromoteEffect
<1>3. ASSUME NEW c \in Clients, NEW d \in Deployments, ReadForCancel(c, d) PROVE UserEffect
  BY <1>1, <1>3 DEF ReadForCancel
<1>4. ASSUME NEW c \in Clients, NEW a \in Aliases, NEW d \in Deployments,
             ReadForRollback(c, a, d)
      PROVE  UserEffect
  BY <1>1, <1>4 DEF ReadForRollback
<1>5. ASSUME NEW a \in Aliases, NEW d \in Deployments, Promote(a, d) PROVE UserEffect
  BY <1>5, PromoteEffect DEF Promote
<1> QED
  BY <1>2, <1>3, <1>4, <1>5, CreateEffect, CancelEffect DEF UserNext

\* What a callback makes of the deployment it is about.
LEMMA CallbackEffect ==
    ASSUME CPInv, NEW c \in commands, ProviderNext(c)
    PROVE  /\ c \in Command /\ c.type # "route" /\ c.id \in Deployments
           /\ Current(c)
           /\ UNCHANGED commands
           /\ \A d \in Deployments : d # c.id => dep'[d] = dep[d]
           /\ dep[c.id].version < dep'[c.id].version
           /\ dep'[c.id].status # "none"
           /\ Kept(dep[c.id]) => ProviderCanceled(c)
           /\ dep'[c.id].status = "canceled" => ProviderCanceled(c)
           /\ dep'[c.id].revision # "none" =>
                 \/ dep[c.id].revision # "none"
                 \/ ProviderReady(c) /\ c = DeployCommand(c.id, 0) /\ Kept(dep'[c.id])
<1>1. c.type # "route" /\ Current(c) /\ UNCHANGED commands
  BY DEF ProviderNext, ProviderReady, ProviderFailed, ProviderCanceled
<1>2. /\ c.id \in Deployments /\ c \in Command /\ dep[c.id] \in Deployment
      /\ c.type = "deploy" => dep[c.id].status = "created"
  BY <1>1, CallbackFacts
<1>3. dep \in [Deployments -> Deployment] /\ dep[c.id].version \in Nat
  BY <1>2 DEF CPInv, CPTypeOK, Deployment
<1>4. CASE ProviderReady(c)
  <2> DEFINE s == [status |-> "ready", version |-> dep[c.id].version + 7,
                   build |-> "succeeded", revision |-> "ready"]
  <2>1. dep' = [dep EXCEPT ![c.id] = s] /\ c.type = "deploy"
    BY <1>4 DEF ProviderReady
  <2>2. s.status = "ready" /\ s.version = dep[c.id].version + 7 /\ s.revision = "ready"
    OBVIOUS
  <2> HIDE DEF s
  <2>3. dep'[c.id] = s /\ \A d \in Deployments : d # c.id => dep'[d] = dep[d]
    BY <1>2, <1>3, <2>1
  <2>4. c = DeployCommand(c.id, 0)
    BY <1>2, <2>1 DEF CPInv, DeployVersions, Command, DeployCommand
  <2>5. ~Kept(dep[c.id]) /\ Kept(s)
    BY <1>2, <2>1, <2>2 DEF Kept, PROMOTABLE_DEPLOYMENT_STATUSES
  <2> QED
    BY <1>1, <1>2, <1>3, <1>4, <2>2, <2>3, <2>4, <2>5
<1>5. CASE ProviderFailed(c)
  <2> DEFINE s == Moved(dep[c.id], "failed")
  <2>1. dep' = [dep EXCEPT ![c.id] = s] /\ c.type = "deploy"
    BY <1>5 DEF ProviderFailed
  <2>2. /\ s.status = "failed" /\ s.version = dep[c.id].version + 1
        /\ s.revision = dep[c.id].revision
    BY <1>2, MovedFacts DEF Statuses
  <2> HIDE DEF s
  <2>3. dep'[c.id] = s /\ \A d \in Deployments : d # c.id => dep'[d] = dep[d]
    BY <1>2, <1>3, <2>1
  <2>4. ~Kept(dep[c.id])
    BY <1>2, <2>1 DEF Kept, PROMOTABLE_DEPLOYMENT_STATUSES
  <2> QED
    BY <1>1, <1>2, <1>3, <2>2, <2>3, <2>4
<1>6. CASE ProviderCanceled(c)
  <2> DEFINE s == CanceledBuild(dep[c.id])
  <2>1. dep' = [dep EXCEPT ![c.id] = s]
    BY <1>6 DEF ProviderCanceled
  <2>2. /\ s.status = "canceled" /\ s.version = dep[c.id].version + 1
        /\ s.revision = dep[c.id].revision
    BY <1>2, CanceledBuildFacts
  <2> HIDE DEF s
  <2>3. dep'[c.id] = s /\ \A d \in Deployments : d # c.id => dep'[d] = dep[d]
    BY <1>2, <1>3, <2>1
  <2> QED
    BY <1>1, <1>2, <1>3, <1>6, <2>2, <2>3
<1> QED
  BY <1>4, <1>5, <1>6 DEF ProviderNext
-----------------------------------------------------------------------------
\* A new row at the end, and a row that changes but keeps its command.
LEMMA RowAppended ==
    ASSUME box \in Seq(Row), NEW r \in Row, box' = Append(box, r)
    PROVE  /\ box' \in Seq(Row)
           /\ DOMAIN box \subseteq DOMAIN box'
           /\ Len(box) + 1 \in DOMAIN box' /\ box'[Len(box) + 1] = r
           /\ \A j \in DOMAIN box : box'[j] = box[j]
           /\ \A j \in DOMAIN box' : j \in DOMAIN box \/ j = Len(box) + 1
           /\ Len(box) + 1 \notin DOMAIN box
  BY AppendProperties

LEMMA RowChanged ==
    ASSUME box \in Seq(Row), NEW i \in DOMAIN box, NEW r \in Row, r.cmd = box[i].cmd,
           box' = [box EXCEPT ![i] = r]
    PROVE  /\ box' \in Seq(Row)
           /\ DOMAIN box' = DOMAIN box
           /\ box'[i] = r
           /\ \A j \in DOMAIN box : j # i => box'[j] = box[j]
           /\ \A j \in DOMAIN box : box'[j].cmd = box[j].cmd
<1>1. i \in 1..Len(box)
  OBVIOUS
<1> QED
  BY <1>1, ExceptSeq

PCs == {"idle", "receive", "ensure", "probe", "discard", "remove", "forget", "apply",
        "write", "callback", "save", "complete", "finalize"}

\* What the process does next, field by field.
LEMMA ThenFacts ==
    ASSUME job \in Job, NEW p \in PCs, Then(p)
    PROVE  /\ job' \in Job
           /\ job'.pc = p /\ job'.row = job.row
           /\ job'.kind = job.kind /\ job'.claim = job.claim /\ job'.outcome = job.outcome
  BY DEF Then, Job, PCs

LEMMA OutcomeFacts ==
    ASSUME job \in Job, NEW o \in {"published", "retry", "rejected"}, Outcome(o)
    PROVE  /\ job' \in Job
           /\ job'.pc = "finalize" /\ job'.row = job.row /\ job'.outcome = o
           /\ job'.kind = job.kind /\ job'.claim = job.claim
<1> DEFINE f == [job EXCEPT !.pc = "finalize"]
<1>1. /\ f \in Job /\ f.pc = "finalize" /\ f.row = job.row
      /\ f.kind = job.kind /\ f.claim = job.claim
  BY DEF Job
<1>2. job' = [f EXCEPT !.outcome = o]
  BY DEF Outcome, Job
<1> HIDE DEF f
<1> QED
  BY <1>1, <1>2 DEF Job

\* A callback is sent of kind k and claim n.
LEMMA CallbackJob ==
    ASSUME job \in Job, NEW p \in {"callback", "complete"}, NEW k \in Kinds, NEW n \in Nat,
           job' = [job EXCEPT !.pc = p, !.kind = k, !.claim = n]
    PROVE  /\ job' \in Job
           /\ job'.pc = p /\ job'.row = job.row /\ job'.kind = k /\ job'.claim = n
           /\ job'.outcome = job.outcome
<1> DEFINE f == [job EXCEPT !.pc = p]
           g == [f EXCEPT !.kind = k]
<1>1. /\ f \in Job /\ f.pc = p /\ f.row = job.row /\ f.claim = job.claim
      /\ f.outcome = job.outcome
  BY DEF Job
<1>2. job' = [g EXCEPT !.claim = n]
  BY DEF Job
<1> HIDE DEF f
<1>3. /\ g \in Job /\ g.pc = p /\ g.row = job.row /\ g.kind = k
      /\ g.outcome = job.outcome
  BY <1>1 DEF Job
<1> HIDE DEF g
<1> QED
  BY <1>2, <1>3 DEF Job

-----------------------------------------------------------------------------
\* What the process knows of the command it works on.
LEMMA Working ==
    ASSUME LPInv, job.pc # "idle"
    PROVE  /\ job \in Job /\ job.row \in DOMAIN box /\ job.row # 0
           /\ box \in Seq(Row) /\ box[job.row] \in Row /\ box[job.row].status = "held"
           /\ box[job.row].attempts \in Nat
           /\ cmd = box[job.row].cmd /\ cmd \in commands /\ cmd \in Command
           /\ cmd.type \in {"deploy", "cancel", "route"}
           /\ cmd.type # "route" => cmd.id \in Deployments
           /\ cmd.type = "route" => cmd.id \in Aliases
           /\ job # NoJob
<1>1. job \in Job /\ box \in Seq(Row) /\ job.row \in DOMAIN box /\ box[job.row].status = "held"
  BY DEF LPInv, LPTypeOK, JobFits
<1>2. box[job.row] \in Row /\ job.row # 0
  BY <1>1
<1>3. cmd \in commands /\ commands \subseteq Command
  BY <1>1 DEF LPInv, BoxMatches, CPInv, CPTypeOK, cmd
<1>4. cmd.type \in {"deploy", "cancel", "route"}
  BY <1>3 DEF LPInv, CommandsKnown
<1> QED
  BY <1>1, <1>2, <1>3, <1>4, CommandNames DEF Row, cmd, NoJob

\* What concerns only the control plane, the outbox and the receipts.
Recorded ==
    CPInv /\ BoxMatches /\ CommandsKnown /\ ReceiptsFit /\ RevisionsAnswered /\ PublishedAnswered

LEMMA Untouched ==
    ASSUME LPInv, UNCHANGED <<cpVars, box, receipts>>
    PROVE  Recorded'
<1>1. CPInv'
  BY StepInvariant DEF LPInv
<1> QED
  BY <1>1
  DEF LPInv, Recorded, cpVars, BoxMatches, CommandsKnown, ReceiptsFit, KindFits, Overtaken,
      RevisionsAnswered, DeployCommand, PublishedAnswered, HasAnswer

\* The other rows can still repair the route file.
LEMMA OtherRepairs ==
    ASSUME LPInv, UNCHANGED box, store'.completed = store.completed,
           job'.row = job.row \/ job'.row = 0,
           NEW i \in DOMAIN box, Repairs(i), i # job.row
    PROVE  Repairs(i)'
<1>1. i # 0 /\ i # job'.row
  BY DEF LPInv, LPTypeOK
<1>2. \A c : Completed(c)' <=> Completed(c)
  BY DEF Completed
<1> QED
  BY <1>1, <1>2 DEF Repairs

LEMMA ClaimsKept ==
    ASSUME LPInv, UNCHANGED <<box, receipts>>, Unsent' => Unsent /\ job'.row = job.row
    PROVE  ClaimsBounded'
  BY DEF LPInv, ClaimsBounded

\* The Docker calls: the process goes on, gives up for now, or reports.
DockerOutcome ==
    \/ job'.pc = "finalize" /\ job'.outcome = "retry"
    \/ job'.pc \in {"probe", "discard"} /\ cmd.type = "deploy"
    \/ job'.pc = "forget" /\ cmd.type = "cancel" /\ cmd.id \notin runtime'
    \/ /\ job'.pc = "callback" /\ job'.kind \in {"ready", "failed"} /\ cmd.type = "deploy"
       /\ job'.claim = box[job.row].attempts

LEMMA DockerPreserves ==
    ASSUME LPInv, DockerStep, job.pc \in {"ensure", "probe", "discard", "remove"},
           runtime' \subseteq Deployments, faults' \in 0..MaxFaults,
           job' \in Job, job'.row = job.row, DockerOutcome
    PROVE  LPInv'
<1>1. UNCHANGED <<cpVars, box, receipts, store, routes>>
  BY DEF DockerStep
<1>2. /\ job.row \in DOMAIN box /\ job.row # 0 /\ box[job.row].status = "held"
      /\ cmd = box[job.row].cmd /\ cmd.type \in {"deploy", "cancel", "route"}
  BY Working
<1>3. Recorded'
  BY <1>1, Untouched
<1>4. LPTypeOK'
  BY <1>1, <1>3 DEF LPInv, LPTypeOK, Recorded, CPInv
<1>5. ResultsFit'
  BY <1>1 DEF LPInv, ResultsFit, KindFits, Answered
<1>6. ClaimsBounded'
  <2>1. Unsent
    BY DEF Unsent
  <2> QED
    BY <1>1, <2>1, ClaimsKept
<1>7. ~Completed(cmd) /\ cmd' = cmd /\ ~Completed(cmd)'
  BY <1>1 DEF LPInv, JobFits, cmd, Completed
<1>8. JobFits'
  <2>1. job'.pc # "idle" /\ job' # NoJob
    BY DEF DockerOutcome, NoJob
  <2>2. job'.pc = "callback" => KindFits(Envelope)'
    BY <1>7 DEF KindFits, Envelope, DockerOutcome
  <2> QED
    BY <1>1, <1>2, <1>7, <2>1, <2>2 DEF JobFits, DockerOutcome
<1>9. Removed'
  BY <1>7 DEF Removed, DockerOutcome
<1>10. StoreKept'
  BY <1>1 DEF LPInv, StoreKept, DockerOutcome, cpVars
<1>11. Repairable'
  <2>1. ASSUME NEW i \in DOMAIN box, Repairs(i) PROVE Repairs(i)'
    <3>1. CASE i # job.row
      BY <1>1, <2>1, <3>1, OtherRepairs
    <3>2. CASE i = job.row
      BY <1>1, <1>2, <2>1, <3>2 DEF Repairs, DockerOutcome, Completed
    <3> QED
      BY <3>1, <3>2
  <2> QED
    BY <1>1, <2>1 DEF LPInv, Repairable
<1> QED
  BY <1>3, <1>4, <1>5, <1>6, <1>8, <1>9, <1>10, <1>11 DEF LPInv, Recorded

LEMMA DockerCalls ==
    ASSUME LPInv, RuntimeUnavailable \/ Ensure \/ Refuse \/ Probe \/ Remove
    PROVE  LPInv'
<1>1. /\ job.pc \in {"ensure", "probe", "discard", "remove"} /\ DockerStep
      /\ job \in Job /\ faults \in 0..MaxFaults /\ runtime \subseteq Deployments
  BY DEF RuntimeUnavailable, Ensure, Refuse, Probe, Remove, LPInv, LPTypeOK
<1>2. /\ job.pc \in {"ensure", "probe", "discard"} => cmd.type = "deploy"
      /\ job.pc = "remove" => cmd.type = "cancel"
      /\ box[job.row].attempts \in Nat
      /\ cmd.type # "route" => cmd.id \in Deployments
  BY <1>1, Working DEF LPInv, JobFits
<1>3. ASSUME NEW k \in {"ready", "failed"}, Report(k), job.pc \in {"ensure", "probe", "discard"}
      PROVE  job' \in Job /\ job'.row = job.row /\ DockerOutcome
  BY <1>1, <1>2, <1>3, CallbackJob DEF Report, Kinds, DockerOutcome
<1>4. CASE RuntimeUnavailable
  <2>1. faults' \in 0..MaxFaults /\ runtime' = runtime /\ Outcome("retry")
    BY <1>1, <1>4, ProviderAssumption DEF RuntimeUnavailable, Fault
  <2> QED
    BY <1>1, <2>1, OutcomeFacts, DockerPreserves DEF DockerOutcome
<1>5. CASE Ensure
  <2>1. /\ faults' = faults /\ runtime' = runtime \cup {cmd.id} /\ Then("probe")
        /\ cmd.type = "deploy"
    BY <1>2, <1>5 DEF Ensure
  <2> QED
    BY <1>1, <1>2, <2>1, ThenFacts, DockerPreserves DEF DockerOutcome, PCs
<1>6. CASE Refuse
  <2>1. faults' = faults /\ runtime' = runtime /\ Report("failed") /\ job.pc = "ensure"
    BY <1>6 DEF Refuse
  <2> QED
    BY <1>1, <1>3, <2>1, DockerPreserves
<1>7. CASE Probe
  <2>1. /\ faults' = faults /\ runtime' = runtime /\ job.pc = "probe"
        /\ Report("ready") \/ Then("discard")
    BY <1>7 DEF Probe
  <2>2. CASE Report("ready")
    BY <1>1, <1>3, <2>1, <2>2, DockerPreserves
  <2>3. CASE Then("discard")
    BY <1>1, <1>2, <2>1, <2>3, ThenFacts, DockerPreserves DEF DockerOutcome, PCs
  <2> QED
    BY <2>1, <2>2, <2>3
<1>8. CASE Remove
  <2>1. faults' = faults /\ runtime' = runtime \ {cmd.id} /\ runtime' \subseteq Deployments
    BY <1>1, <1>8 DEF Remove
  <2>2. CASE job.pc = "discard" /\ Report("failed")
    BY <1>1, <1>3, <2>1, <2>2, DockerPreserves
  <2>3. CASE job.pc = "remove" /\ Then("forget")
    BY <1>1, <1>2, <2>1, <2>3, ThenFacts, DockerPreserves DEF DockerOutcome, PCs
  <2> QED
    BY <1>8, <2>2, <2>3 DEF Remove
<1> QED
  BY <1>4, <1>5, <1>6, <1>7, <1>8

LEMMA CrashPreserves ==
    ASSUME LPInv, Crash
    PROVE  LPInv'
<1>1. UNCHANGED <<cpVars, box, receipts, store, runtime, routes>> /\ job' = NoJob
  BY DEF Crash, Drop
<1>2. faults' \in 0..MaxFaults
  BY ProviderAssumption DEF Crash, Fault, LPInv, LPTypeOK
<1>3. NoJob \in Job /\ NoJob.pc = "idle" /\ NoJob.row = 0
  BY DEF NoJob, Job
<1>4. Recorded'
  BY <1>1, Untouched
<1>5. LPTypeOK'
  BY <1>1, <1>2, <1>3, <1>4 DEF LPInv, LPTypeOK, Recorded, CPInv
<1>6. ResultsFit'
  BY <1>1 DEF LPInv, ResultsFit, KindFits, Answered
<1>7. ClaimsBounded'
  BY <1>1, <1>3, ClaimsKept DEF Unsent
<1>8. JobFits' /\ Removed'
  BY <1>1, <1>3 DEF JobFits, Removed
<1>9. StoreKept'
  BY <1>1, <1>3 DEF LPInv, StoreKept, cpVars
<1>10. Repairable'
  <2>1. ASSUME NEW i \in DOMAIN box, Repairs(i) PROVE Repairs(i)'
    <3>1. i # 0
      BY DEF LPInv, LPTypeOK
    <3> QED
      BY <1>1, <1>3, <2>1, <3>1 DEF Repairs, Completed
  <2> QED
    BY <1>1, <2>1 DEF LPInv, Repairable
<1> QED
  BY <1>4, <1>5, <1>6, <1>7, <1>8, <1>9, <1>10 DEF LPInv, Recorded

\* A command the process finds completed is only told again, any other begins.
LEMMA ReceivePreserves ==
    ASSUME LPInv, Receive
    PROVE  LPInv'
<1>1. /\ UNCHANGED <<cpVars, box, receipts, runtime, routes, faults>>
      /\ job.pc = "receive"
      /\ store' = [store EXCEPT !.received = @ \cup {cmd}]
  BY DEF Receive
<1>2. /\ job.row \in DOMAIN box /\ job.row # 0 /\ box[job.row].status = "held"
      /\ cmd = box[job.row].cmd /\ cmd.type \in {"deploy", "cancel", "route"}
      /\ cmd \in Command /\ job \in Job /\ box[job.row].attempts \in Nat
  BY <1>1, Working
<1>3. /\ store' \in Store /\ store'.completed = store.completed
      /\ store'.revisions = store.revisions /\ store'.aliases = store.aliases
  BY <1>1, <1>2 DEF LPInv, LPTypeOK, Store
<1>4. Recorded'
  BY <1>1, Untouched
<1>5. /\ job' \in Job /\ job'.row = job.row
      /\ \/ /\ Completed(cmd) /\ job'.pc = "callback"
            /\ \E e \in store.completed :
                  e.cmd = cmd /\ e.kind # "routed" /\ job'.kind = e.kind /\ job'.claim = e.claim
         \/ /\ Completed(cmd) /\ job'.pc = "finalize" /\ job'.outcome = "published"
            /\ cmd.type = "route"
         \/ ~Completed(cmd) /\ job'.pc = "ensure" /\ cmd.type = "deploy"
         \/ ~Completed(cmd) /\ job'.pc = "remove" /\ cmd.type = "cancel"
         \/ ~Completed(cmd) /\ job'.pc = "apply" /\ cmd.type = "route"
  <2>1. CASE Completed(cmd)
    <3>1. ASSUME NEW e \in store.completed, e.cmd = cmd, e.kind # "routed",
                 job' = [job EXCEPT !.pc = "callback", !.kind = e.kind, !.claim = e.claim]
          PROVE  /\ job' \in Job /\ job'.row = job.row /\ job'.pc = "callback"
                 /\ job'.kind = e.kind /\ job'.claim = e.claim
      <4>1. e.kind \in Kinds /\ e.claim \in Nat
        BY DEF LPInv, LPTypeOK, Store, Result
      <4> QED
        BY <1>2, <3>1, <4>1, CallbackJob
    <3>2. ASSUME cmd.type = "route", Outcome("published")
          PROVE  /\ job' \in Job /\ job'.row = job.row /\ job'.pc = "finalize"
                 /\ job'.outcome = "published"
      BY <1>2, <3>2, OutcomeFacts
    <3> QED
      BY <2>1, <3>1, <3>2 DEF Receive
  <2>2. CASE ~Completed(cmd)
    <3>1. ASSUME NEW p \in {"ensure", "remove", "apply"}, Then(p)
          PROVE  job' \in Job /\ job'.row = job.row /\ job'.pc = p
      BY <1>2, <3>1, ThenFacts DEF PCs
    <3> QED
      BY <2>2, <3>1 DEF Receive
  <2> QED
    BY <2>1, <2>2
<1>6. LPTypeOK'
  BY <1>1, <1>3, <1>4, <1>5 DEF LPInv, LPTypeOK, Recorded, CPInv
<1>7. ResultsFit'
  BY <1>1, <1>3 DEF LPInv, ResultsFit, KindFits, Answered
<1>8. ClaimsBounded'
  <2>1. Unsent
    BY <1>1 DEF Unsent
  <2> QED
    BY <1>1, <1>5, <2>1, ClaimsKept
<1>9. cmd' = cmd /\ (Completed(cmd)' <=> Completed(cmd))
  BY <1>1, <1>3, <1>5 DEF cmd, Completed
<1>10. job'.pc = "callback" =>
          /\ job'.kind # "none" /\ job'.kind # "routed" /\ KindFits(Envelope)'
          /\ job'.claim < box[job.row].attempts
          /\ Envelope' \in store.completed
  <2> SUFFICES ASSUME NEW e \in store.completed, e.cmd = cmd, e.kind # "routed",
                      job'.kind = e.kind, job'.claim = e.claim
               PROVE  /\ job'.kind # "none" /\ job'.kind # "routed" /\ KindFits(Envelope)'
                      /\ job'.claim < box[job.row].attempts
                      /\ Envelope' \in store.completed
    BY <1>5
  <2>1. KindFits(e) /\ Answered(e) /\ e \in Result
    BY DEF LPInv, ResultsFit, LPTypeOK, Store
  <2>2. e.claim < box[job.row].attempts
    BY <1>1, <1>2, <2>1 DEF Answered, LPInv, ClaimsBounded, Unsent
  <2>3. Envelope' = e
    BY <1>9, <2>1 DEF Envelope, Result
  <2> QED
    BY <2>1, <2>2, <2>3 DEF KindFits
<1>11. JobFits'
  <2>1. job'.pc # "idle" /\ job' # NoJob
    BY <1>5 DEF NoJob
  <2> QED
    BY <1>1, <1>2, <1>3, <1>5, <1>9, <1>10, <2>1 DEF JobFits
<1>12. Removed'
  BY <1>5, <1>9 DEF Removed
<1>13. StoreKept'
  BY <1>1, <1>3, <1>5 DEF LPInv, StoreKept, cpVars
<1>14. Repairable'
  <2>1. ASSUME NEW i \in DOMAIN box, Repairs(i) PROVE Repairs(i)'
    <3>1. CASE i # job.row
      BY <1>1, <1>3, <1>5, <2>1, <3>1, OtherRepairs
    <3>2. CASE i = job.row
      BY <1>1, <1>2, <1>3, <1>5, <2>1, <3>2 DEF Repairs, Completed
    <3> QED
      BY <3>1, <3>2
  <2> QED
    BY <1>1, <1>3, <2>1 DEF LPInv, Repairable
<1> QED
  BY <1>4, <1>6, <1>7, <1>8, <1>11, <1>12, <1>13, <1>14 DEF LPInv, Recorded

-----------------------------------------------------------------------------
\* What the steps on the store and the route file have in common.
LEMMA StoreStepFacts ==
    ASSUME LPInv, StoreStep, job.pc # "idle", job' \in Job, job'.row = job.row,
           store' \in Store, routes' \in [Aliases -> Deployments \cup {"none"}],
           Unsent' => Unsent
    PROVE  /\ Recorded' /\ LPTypeOK' /\ ClaimsBounded'
           /\ cmd' = cmd
           /\ box' = box /\ dep' = dep /\ receipts' = receipts /\ runtime' = runtime
<1>1. UNCHANGED <<cpVars, box, receipts, runtime, faults>>
  BY DEF StoreStep
<1>2. Recorded'
  BY <1>1, Untouched
<1>3. LPTypeOK'
  BY <1>1, <1>2 DEF LPInv, LPTypeOK, Recorded, CPInv
<1> QED
  BY <1>1, <1>2, <1>3, ClaimsKept DEF cmd, cpVars

LEMMA ForgetPreserves ==
    ASSUME LPInv, Forget
    PROVE  LPInv'
<1>1. /\ StoreStep /\ job.pc = "forget" /\ Then("write") /\ routes' = routes
      /\ store' = Without(store, cmd.id)
  BY DEF Forget
<1>2. /\ job.row \in DOMAIN box /\ job.row # 0 /\ box[job.row].status = "held"
      /\ cmd = box[job.row].cmd /\ job \in Job
  BY <1>1, Working
<1>3. cmd.type = "cancel" /\ ~Completed(cmd) /\ cmd.id \notin runtime /\ cmd.id \in Deployments
  BY <1>1, Working DEF LPInv, JobFits, Removed
<1>4. job' \in Job /\ job'.pc = "write" /\ job'.row = job.row
  BY <1>1, <1>2, ThenFacts DEF PCs
<1>5. /\ store' \in Store /\ store'.completed = store.completed
      /\ store'.revisions = store.revisions \ {cmd.id}
      /\ \A a \in Aliases : store'.aliases[a] =
            IF store.aliases[a] = cmd.id THEN "none" ELSE store.aliases[a]
  <2> DEFINE s == [store EXCEPT !.revisions = @ \ {cmd.id}]
             al == [a \in Aliases |-> IF store.aliases[a] = cmd.id THEN "none" ELSE store.aliases[a]]
  <2>1. store \in Store
    BY DEF LPInv, LPTypeOK
  <2>2. /\ s \in Store /\ s.completed = store.completed
        /\ s.revisions = store.revisions \ {cmd.id} /\ s.aliases = store.aliases
    BY <2>1 DEF Store
  <2>3. al \in [Aliases -> Deployments \cup {"none"}]
    BY <2>1 DEF Store
  <2>4. store' = [s EXCEPT !.aliases = al]
    BY <1>1, <2>1 DEF Without, Store
  <2> HIDE DEF s
  <2>5. store' \in Store /\ store'.completed = s.completed /\ store'.revisions = s.revisions
        /\ store'.aliases = al
    BY <2>2, <2>3, <2>4 DEF Store
  <2> QED
    BY <2>2, <2>5
<1>6. routes \in [Aliases -> Deployments \cup {"none"}]
  BY DEF LPInv, LPTypeOK
<1>7. /\ Recorded' /\ LPTypeOK' /\ ClaimsBounded'
      /\ cmd' = cmd
      /\ box' = box /\ dep' = dep /\ receipts' = receipts /\ runtime' = runtime
  BY <1>1, <1>4, <1>5, <1>6, StoreStepFacts DEF Unsent
<1>8. ResultsFit' /\ ~Completed(cmd)'
  BY <1>3, <1>5, <1>7 DEF LPInv, ResultsFit, KindFits, Answered, Completed
<1>9. JobFits'
  BY <1>2, <1>3, <1>4, <1>7, <1>8 DEF JobFits, NoJob
<1>10. Removed'
  BY <1>3, <1>4, <1>5, <1>7, ControlPlaneAssumption DEF Removed
<1>11. StoreKept'
  BY <1>1, <1>4, <1>5, <1>7, ControlPlaneAssumption DEF LPInv, StoreKept
<1>12. Repairable'
  BY <1>2, <1>3, <1>4, <1>7, <1>8 DEF Repairable, Repairs
<1> QED
  BY <1>7, <1>8, <1>9, <1>10, <1>11, <1>12 DEF LPInv, Recorded

LEMMA ApplyPreserves ==
    ASSUME LPInv, Apply
    PROVE  LPInv'
<1>1. StoreStep /\ job.pc = "apply" /\ routes' = routes
  BY DEF Apply
<1>2. /\ job.row \in DOMAIN box /\ job.row # 0 /\ box[job.row].status = "held"
      /\ cmd = box[job.row].cmd /\ job \in Job /\ cmd \in Command
  BY <1>1, Working
<1>3. cmd.type = "route" /\ ~Completed(cmd) /\ cmd.id \in Aliases
  BY <1>1, Working DEF LPInv, JobFits
<1>4. store \in Store /\ routes \in [Aliases -> Deployments \cup {"none"}]
  BY DEF LPInv, LPTypeOK
<1>5. CASE Known(cmd)
  <2>1. store' = [store EXCEPT !.aliases[cmd.id] = cmd.current] /\ Then("write")
    BY <1>5 DEF Apply
  <2>2. cmd.current \in store.revisions /\ cmd.current \in Deployments
    BY <1>4, <1>5 DEF Known, Store
  <2>3. /\ store' \in Store /\ store'.completed = store.completed
        /\ store'.revisions = store.revisions
        /\ store'.aliases = [store.aliases EXCEPT ![cmd.id] = cmd.current]
    BY <1>3, <1>4, <2>1, <2>2 DEF Store
  <2>4. job' \in Job /\ job'.pc = "write" /\ job'.row = job.row
    BY <1>2, <2>1, ThenFacts DEF PCs
  <2>5. /\ Recorded' /\ LPTypeOK' /\ ClaimsBounded'
        /\ cmd' = cmd
        /\ box' = box /\ dep' = dep /\ receipts' = receipts /\ runtime' = runtime
    BY <1>1, <1>4, <2>3, <2>4, StoreStepFacts DEF Unsent
  <2>6. ResultsFit' /\ ~Completed(cmd)'
    BY <1>3, <2>3, <2>5 DEF LPInv, ResultsFit, KindFits, Answered, Completed
  <2>7. JobFits'
    BY <1>2, <1>3, <2>4, <2>5, <2>6 DEF JobFits, NoJob
  <2>8. Removed'
    BY <1>3, <2>4, <2>5 DEF Removed
  <2>9. StoreKept'
    BY <1>1, <1>3, <1>4, <2>2, <2>3, <2>4, <2>5 DEF LPInv, StoreKept, Store
  <2>10. Repairable'
    BY <1>2, <1>3, <2>4, <2>5, <2>6 DEF Repairable, Repairs
  <2> QED
    BY <2>5, <2>6, <2>7, <2>8, <2>9, <2>10 DEF LPInv, Recorded
<1>6. CASE ~Known(cmd)
  <2>1. store' = store /\ Outcome("retry")
    BY <1>6 DEF Apply
  <2>2. job' \in Job /\ job'.pc = "finalize" /\ job'.row = job.row /\ job'.outcome = "retry"
    BY <1>2, <2>1, OutcomeFacts
  <2>3. /\ Recorded' /\ LPTypeOK' /\ ClaimsBounded'
        /\ cmd' = cmd
        /\ box' = box /\ dep' = dep /\ receipts' = receipts /\ runtime' = runtime
    BY <1>1, <1>4, <2>1, <2>2, StoreStepFacts DEF Unsent
  <2>4. ResultsFit' /\ ~Completed(cmd)'
    BY <1>3, <2>1, <2>3 DEF LPInv, ResultsFit, KindFits, Answered, Completed
  <2>5. JobFits'
    BY <1>2, <1>3, <2>2, <2>3, <2>4 DEF JobFits, NoJob
  <2>6. Removed'
    BY <2>2 DEF Removed
  <2>7. StoreKept'
    BY <1>1, <2>1, <2>2, <2>3 DEF LPInv, StoreKept
  <2>8. Repairable'
    BY <1>2, <1>3, <2>2, <2>3, <2>4 DEF Repairable, Repairs
  <2> QED
    BY <2>3, <2>4, <2>5, <2>6, <2>7, <2>8 DEF LPInv, Recorded
<1> QED
  BY <1>5, <1>6

LEMMA WritePreserves ==
    ASSUME LPInv, Write
    PROVE  LPInv'
<1>1. StoreStep /\ job.pc = "write" /\ routes' = store.aliases /\ store' = store
  BY DEF Write
<1>2. /\ job.row \in DOMAIN box /\ job.row # 0 /\ box[job.row].status = "held"
      /\ cmd = box[job.row].cmd /\ job \in Job /\ box[job.row].attempts \in Nat
  BY <1>1, Working
<1>3. ~Completed(cmd)
  BY <1>1 DEF LPInv, JobFits
<1>4. store \in Store /\ store.aliases \in [Aliases -> Deployments \cup {"none"}]
  BY DEF LPInv, LPTypeOK, Store
<1>5. /\ job' \in Job /\ job'.row = job.row /\ job'.claim = box[job.row].attempts
      /\ \/ cmd.type = "cancel" /\ job'.pc = "callback" /\ job'.kind = "canceled"
         \/ cmd.type = "route" /\ job'.pc = "complete" /\ job'.kind = "routed"
  <2>1. CASE cmd.type = "cancel" /\ Report("canceled")
    BY <1>2, <2>1, CallbackJob DEF Report, Kinds
  <2>2. CASE /\ cmd.type = "route"
             /\ job' = [job EXCEPT !.pc = "complete", !.kind = "routed",
                                   !.claim = box[job.row].attempts]
    BY <1>2, <2>2, CallbackJob DEF Kinds
  <2> QED
    BY <2>1, <2>2 DEF Write
<1>6. /\ Recorded' /\ LPTypeOK' /\ ClaimsBounded'
      /\ cmd' = cmd
      /\ box' = box /\ dep' = dep /\ receipts' = receipts /\ runtime' = runtime
  BY <1>1, <1>4, <1>5, StoreStepFacts DEF Unsent
<1>7. ResultsFit' /\ ~Completed(cmd)'
  BY <1>1, <1>3, <1>6 DEF LPInv, ResultsFit, KindFits, Answered, Completed
<1>8. JobFits'
  <2>1. KindFits(Envelope)'
    BY <1>5, <1>6 DEF KindFits, Envelope
  <2> QED
    BY <1>2, <1>5, <1>6, <1>7, <2>1 DEF JobFits, NoJob
<1>9. Removed'
  BY <1>1, <1>5, <1>6 DEF LPInv, Removed
<1>10. StoreKept'
  BY <1>1, <1>5, <1>6 DEF LPInv, StoreKept
<1>11. Repairable'
  BY <1>1 DEF Repairable
<1> QED
  BY <1>6, <1>7, <1>8, <1>9, <1>10, <1>11 DEF LPInv, Recorded

LEMMA SavePreserves ==
    ASSUME LPInv, Save
    PROVE  LPInv'
<1>1. /\ StoreStep /\ job.pc = "save" /\ routes' = routes /\ Then("complete")
      /\ store' = [store EXCEPT !.revisions = @ \cup {cmd.id}]
  BY DEF Save
<1>2. /\ job.row \in DOMAIN box /\ job.row # 0 /\ box[job.row].status = "held"
      /\ cmd = box[job.row].cmd /\ job \in Job
  BY <1>1, Working
<1>3. /\ cmd.type = "deploy" /\ ~Completed(cmd) /\ cmd.id \in Deployments
      /\ job.kind # "none" /\ KindFits(Envelope)
      /\ job.kind # "routed" => Answered(Envelope)
      /\ Kept(dep[cmd.id])
  BY <1>1, Working DEF LPInv, JobFits, StoreKept
<1>4. /\ store' \in Store /\ store'.completed = store.completed
      /\ store'.revisions = store.revisions \cup {cmd.id} /\ store'.aliases = store.aliases
  BY <1>1, <1>3 DEF LPInv, LPTypeOK, Store
<1>5. /\ job' \in Job /\ job'.pc = "complete" /\ job'.row = job.row /\ job'.kind = job.kind
      /\ job'.claim = job.claim
  BY <1>1, <1>2, ThenFacts DEF PCs
<1>6. routes \in [Aliases -> Deployments \cup {"none"}]
  BY DEF LPInv, LPTypeOK
<1>7. /\ Recorded' /\ LPTypeOK' /\ ClaimsBounded'
      /\ cmd' = cmd
      /\ box' = box /\ dep' = dep /\ receipts' = receipts /\ runtime' = runtime
  BY <1>1, <1>4, <1>5, <1>6, StoreStepFacts DEF Unsent
<1>8. ResultsFit' /\ ~Completed(cmd)'
  BY <1>3, <1>4, <1>7 DEF LPInv, ResultsFit, KindFits, Answered, Completed
<1>9. JobFits'
  <2>1. Envelope' = Envelope /\ KindFits(Envelope)'
        /\ (job'.kind # "routed" => Answered(Envelope)')
    BY <1>3, <1>5, <1>7 DEF Envelope, KindFits, Answered
  <2> QED
    BY <1>2, <1>3, <1>5, <1>7, <1>8, <2>1 DEF JobFits, NoJob
<1>10. Removed'
  BY <1>5 DEF Removed
<1>11. StoreKept'
  BY <1>1, <1>3, <1>4, <1>5, <1>7 DEF LPInv, StoreKept
<1>12. Repairable'
  <2>1. ASSUME NEW i \in DOMAIN box, Repairs(i) PROVE Repairs(i)'
    BY <1>1, <1>4, <1>5, <1>7, <2>1, OtherRepairs DEF Repairs
  <2> QED
    BY <1>1, <1>4, <1>7, <2>1 DEF LPInv, Repairable
<1> QED
  BY <1>7, <1>8, <1>9, <1>10, <1>11, <1>12 DEF LPInv, Recorded

LEMMA CompletePreserves ==
    ASSUME LPInv, Complete
    PROVE  LPInv'
<1>1. /\ StoreStep /\ job.pc = "complete" /\ routes' = routes /\ Outcome("published")
      /\ store' = [store EXCEPT !.completed = @ \cup {Envelope}]
  BY DEF Complete
<1>2. /\ job.row \in DOMAIN box /\ job.row # 0 /\ box[job.row].status = "held"
      /\ cmd = box[job.row].cmd /\ job \in Job /\ cmd \in Command
      /\ cmd.type \in {"deploy", "cancel", "route"}
  BY <1>1, Working
<1>3. /\ KindFits(Envelope) /\ job.kind # "none"
      /\ job.kind # "routed" => Answered(Envelope)
  BY <1>1 DEF LPInv, JobFits
<1>4. /\ Envelope \in Result /\ Envelope.cmd = cmd /\ Envelope.kind = job.kind
  BY <1>2, <1>3 DEF Envelope, Result, Job
<1>5. /\ store' \in Store /\ store'.completed = store.completed \cup {Envelope}
      /\ store'.revisions = store.revisions /\ store'.aliases = store.aliases
  BY <1>1, <1>4 DEF LPInv, LPTypeOK, Store
<1>6. job' \in Job /\ job'.pc = "finalize" /\ job'.row = job.row /\ job'.outcome = "published"
  BY <1>1, <1>2, OutcomeFacts
<1>7. routes \in [Aliases -> Deployments \cup {"none"}]
  BY DEF LPInv, LPTypeOK
<1>8. /\ Recorded' /\ LPTypeOK' /\ ClaimsBounded'
      /\ cmd' = cmd
      /\ box' = box /\ dep' = dep /\ receipts' = receipts /\ runtime' = runtime
  BY <1>1, <1>5, <1>6, <1>7, StoreStepFacts DEF Unsent
<1>9. ResultsFit'
  BY <1>3, <1>4, <1>5, <1>8 DEF LPInv, ResultsFit, KindFits, Answered
<1>10. JobFits'
  <2>1. cmd.type # "route" => HasAnswer(cmd)
    <3>1. cmd.type # "route" => Answered(Envelope)
      BY <1>3, <1>4 DEF KindFits
    <3> QED
      BY <1>4, <3>1 DEF Answered, HasAnswer
  <2>2. cmd.type # "route" => HasAnswer(cmd)'
    BY <1>8, <2>1 DEF HasAnswer
  <2> QED
    BY <1>2, <1>6, <1>8, <2>2 DEF JobFits, NoJob
<1>11. Removed'
  BY <1>6 DEF Removed
<1>12. StoreKept'
  BY <1>1, <1>5, <1>6, <1>8 DEF LPInv, StoreKept
<1>13. Repairable'
  <2>1. ASSUME NEW i \in DOMAIN box, Repairs(i) PROVE Repairs(i)'
    <3>1. i # job.row
      BY <1>1, <2>1 DEF Repairs
    <3>2. box[i].cmd # cmd
      BY <1>2, <3>1 DEF LPInv, BoxMatches
    <3>3. ~Completed(box[i].cmd)'
      BY <1>4, <1>5, <1>8, <2>1, <3>2 DEF Repairs, Completed
    <3> QED
      BY <1>6, <1>8, <2>1, <3>1, <3>3 DEF Repairs
  <2> QED
    BY <1>1, <1>5, <1>8, <2>1 DEF LPInv, Repairable
<1> QED
  BY <1>8, <1>9, <1>10, <1>11, <1>12, <1>13 DEF LPInv, Recorded

-----------------------------------------------------------------------------
\* A row changes its status or counts a claim.
LEMMA RowStepRecorded ==
    ASSUME LPInv, UNCHANGED <<cpVars, receipts>>,
           NEW i \in DOMAIN box, NEW r \in Row, r.cmd = box[i].cmd,
           r.status = "published" => r.cmd.type = "route" \/ HasAnswer(r.cmd),
           box' = [box EXCEPT ![i] = r]
    PROVE  /\ Recorded'
           /\ box' \in Seq(Row) /\ DOMAIN box' = DOMAIN box /\ box'[i] = r
           /\ \A j \in DOMAIN box : j # i => box'[j] = box[j]
           /\ \A j \in DOMAIN box : box'[j].cmd = box[j].cmd
<1>1. /\ box' \in Seq(Row) /\ DOMAIN box' = DOMAIN box /\ box'[i] = r
      /\ \A j \in DOMAIN box : j # i => box'[j] = box[j]
      /\ \A j \in DOMAIN box : box'[j].cmd = box[j].cmd
  BY RowChanged DEF LPInv, LPTypeOK
<1>2. CPInv'
  BY StepInvariant DEF LPInv
<1>3. BoxMatches'
  BY <1>1 DEF LPInv, BoxMatches, cpVars
<1>4. CommandsKnown' /\ ReceiptsFit' /\ RevisionsAnswered'
  BY DEF LPInv, cpVars, CommandsKnown, ReceiptsFit, KindFits, Overtaken, RevisionsAnswered,
         DeployCommand
<1>5. PublishedAnswered'
  BY <1>1 DEF LPInv, PublishedAnswered, HasAnswer
<1> QED
  BY <1>1, <1>2, <1>3, <1>4, <1>5 DEF Recorded

LEMMA ExpirePreserves ==
    ASSUME LPInv, NEW i \in DOMAIN box, Expire(i)
    PROVE  LPInv'
<1> DEFINE r == [box[i] EXCEPT !.status = "ready"]
<1>1. /\ UNCHANGED <<cpVars, receipts, job, store, runtime, routes, faults>>
      /\ box' = [box EXCEPT ![i] = r]
      /\ box[i].status = "waiting" \/ (box[i].status = "held" /\ job.row # i)
  BY DEF Expire, providerVars
<1>2. box[i] \in Row /\ i # 0
  BY DEF LPInv, LPTypeOK
<1>3. /\ r \in Row /\ r.status = "ready" /\ r.cmd = box[i].cmd
      /\ r.attempts = box[i].attempts
  BY <1>2 DEF Row
<1> HIDE DEF r
<1>4. job.row # i
  BY <1>1, <1>2 DEF LPInv, JobFits, NoJob
<1>5. /\ Recorded'
      /\ box' \in Seq(Row) /\ DOMAIN box' = DOMAIN box /\ box'[i] = r
      /\ \A j \in DOMAIN box : j # i => box'[j] = box[j]
      /\ \A j \in DOMAIN box : box'[j].cmd = box[j].cmd
  BY <1>1, <1>3, RowStepRecorded
<1>6. job.pc # "idle" => job.row \in DOMAIN box /\ box'[job.row] = box[job.row] /\ cmd' = cmd
  BY <1>1, <1>4, <1>5 DEF LPInv, JobFits, cmd
<1>7. LPTypeOK'
  BY <1>1, <1>5 DEF LPInv, LPTypeOK, Recorded, CPInv
<1>8. ResultsFit'
  BY <1>1 DEF LPInv, ResultsFit, KindFits, Answered
<1>9. ClaimsBounded'
  <2>1. \A j \in DOMAIN box : box'[j].attempts = box[j].attempts
    BY <1>3, <1>5
  <2>2. Unsent' <=> Unsent
    BY <1>1, <1>6 DEF Unsent
  <2> QED
    BY <1>1, <1>5, <2>1, <2>2 DEF LPInv, ClaimsBounded
<1>10. JobFits'
  BY <1>1, <1>5, <1>6
  DEF LPInv, JobFits, Completed, KindFits, Envelope, Answered, HasAnswer
<1>11. Removed'
  BY <1>1, <1>6 DEF LPInv, Removed, Completed
<1>12. StoreKept'
  BY <1>1, <1>6 DEF LPInv, StoreKept, cpVars
<1>13. Repairable'
  <2>1. ASSUME NEW j \in DOMAIN box, Repairs(j) PROVE Repairs(j)'
    BY <1>1, <1>3, <1>5, <2>1 DEF Repairs, Completed
  <2> QED
    BY <1>1, <1>5, <2>1 DEF LPInv, Repairable
<1> QED
  BY <1>5, <1>7, <1>8, <1>9, <1>10, <1>11, <1>12, <1>13 DEF LPInv, Recorded

LEMMA ClaimPreserves ==
    ASSUME LPInv, NEW i \in DOMAIN box, Claim(i)
    PROVE  LPInv'
<1> DEFINE f == [box[i] EXCEPT !.status = "held"]
           r == [f EXCEPT !.attempts = @ + 1]
           w == [NoJob EXCEPT !.pc = "receive", !.row = i]
<1>1. /\ UNCHANGED <<cpVars, receipts, store, runtime, routes, faults>>
      /\ box' = [box EXCEPT ![i] = r] /\ job = NoJob /\ box[i].status = "ready" /\ job' = w
  BY DEF Claim
<1>2. box[i] \in Row /\ i # 0 /\ i \in Nat
  BY DEF LPInv, LPTypeOK
<1>3. /\ f \in Row /\ f.status = "held" /\ f.cmd = box[i].cmd /\ f.attempts = box[i].attempts
  BY <1>2 DEF Row
<1> HIDE DEF f
<1>4. /\ r \in Row /\ r.status = "held" /\ r.cmd = box[i].cmd /\ r.attempts = box[i].attempts + 1
      /\ box[i].attempts \in Nat
  BY <1>2, <1>3 DEF Row
<1>5. w \in Job /\ w.pc = "receive" /\ w.row = i
  BY <1>2 DEF NoJob, Job
<1> HIDE DEF r, w
<1>6. /\ Recorded'
      /\ box' \in Seq(Row) /\ DOMAIN box' = DOMAIN box /\ box'[i] = r
      /\ \A j \in DOMAIN box : j # i => box'[j] = box[j]
      /\ \A j \in DOMAIN box : box'[j].cmd = box[j].cmd
  BY <1>1, <1>4, RowStepRecorded
<1>7. LPTypeOK'
  BY <1>1, <1>5, <1>6 DEF LPInv, LPTypeOK, Recorded, CPInv
<1>8. ResultsFit'
  BY <1>1 DEF LPInv, ResultsFit, KindFits, Answered
<1>9. ClaimsBounded'
  <2> SUFFICES ASSUME NEW c \in receipts, NEW j \in DOMAIN box, c.envelope.cmd = box[j].cmd
               PROVE  /\ c.envelope.claim <= box'[j].attempts
                      /\ Unsent' /\ job'.row = j => c.envelope.claim < box'[j].attempts
    BY <1>1, <1>6 DEF ClaimsBounded
  <2>1. c.envelope.claim <= box[j].attempts /\ c.envelope.claim \in Nat
    BY DEF LPInv, ClaimsBounded, LPTypeOK, EventReceipt, Result
  <2> QED
    BY <1>1, <1>4, <1>5, <1>6, <2>1
<1>10. JobFits'
  BY <1>1, <1>2, <1>4, <1>5, <1>6 DEF JobFits, NoJob
<1>11. Removed' /\ StoreKept'
  BY <1>1, <1>5 DEF LPInv, Removed, StoreKept, cpVars
<1>12. Repairable'
  <2>1. ASSUME NEW j \in DOMAIN box, Repairs(j) PROVE Repairs(j)'
    BY <1>1, <1>4, <1>5, <1>6, <2>1 DEF Repairs, Completed
  <2> QED
    BY <1>1, <1>6, <2>1 DEF LPInv, Repairable
<1> QED
  BY <1>6, <1>7, <1>8, <1>9, <1>10, <1>11, <1>12 DEF LPInv, Recorded

LEMMA FinalizePreserves ==
    ASSUME LPInv, Finalize
    PROVE  LPInv'
<1> DEFINE i == job.row
           s == FinalStatus(box[i], job.outcome)
           r == [box[i] EXCEPT !.status = s]
<1>1. /\ UNCHANGED <<cpVars, receipts, store, runtime, routes, faults>>
      /\ box' = [box EXCEPT ![i] = r] /\ job' = NoJob /\ job.pc = "finalize"
  BY DEF Finalize, Drop
<1>2. box[i] \in Row /\ i # 0 /\ i \in DOMAIN box /\ cmd = box[i].cmd
  BY <1>1, Working
<1>3. s \in {"published", "waiting", "dead"} /\ (s = "published" => job.outcome = "published")
  BY DEF FinalStatus
<1>4. r \in Row /\ r.status = s /\ r.cmd = box[i].cmd /\ r.attempts = box[i].attempts
  BY <1>2, <1>3 DEF Row
<1>5. r.status = "published" => r.cmd.type = "route" \/ HasAnswer(r.cmd)
  BY <1>1, <1>2, <1>3, <1>4 DEF LPInv, JobFits
<1> HIDE DEF r, s
<1>6. /\ Recorded'
      /\ box' \in Seq(Row) /\ DOMAIN box' = DOMAIN box /\ box'[i] = r
      /\ \A j \in DOMAIN box : j # i => box'[j] = box[j]
      /\ \A j \in DOMAIN box : box'[j].cmd = box[j].cmd
  BY <1>1, <1>2, <1>4, <1>5, RowStepRecorded
<1>7. NoJob \in Job /\ NoJob.pc = "idle" /\ NoJob.row = 0
  BY DEF NoJob, Job
<1>8. LPTypeOK'
  BY <1>1, <1>6, <1>7 DEF LPInv, LPTypeOK, Recorded, CPInv
<1>9. ResultsFit'
  BY <1>1 DEF LPInv, ResultsFit, KindFits, Answered
<1>10. ClaimsBounded'
  <2>1. \A j \in DOMAIN box : box'[j].attempts = box[j].attempts
    BY <1>4, <1>6
  <2> QED
    BY <1>1, <1>6, <1>7, <2>1 DEF LPInv, ClaimsBounded, Unsent
<1>11. JobFits' /\ Removed'
  BY <1>1, <1>7 DEF JobFits, Removed
<1>12. StoreKept'
  BY <1>1, <1>7 DEF LPInv, StoreKept, cpVars
<1>13. Repairable'
  <2>1. ASSUME NEW j \in DOMAIN box, Repairs(j) PROVE Repairs(j)'
    <3>1. box'[j].status # "published"
      BY <1>1, <1>3, <1>4, <1>6, <2>1 DEF Repairs
    <3>2. j # 0
      BY DEF LPInv, LPTypeOK
    <3> QED
      BY <1>1, <1>6, <1>7, <2>1, <3>1, <3>2 DEF Repairs, Completed
  <2> QED
    BY <1>1, <1>6, <2>1 DEF LPInv, Repairable
<1> QED
  BY <1>6, <1>8, <1>9, <1>10, <1>11, <1>12, <1>13 DEF LPInv, Recorded

-----------------------------------------------------------------------------
\* The outbox after a user's request: a row for the command that is new.
Grown ==
    /\ box' \in Seq(Row)
    /\ DOMAIN box \subseteq DOMAIN box'
    /\ \A j \in DOMAIN box : box'[j] = box[j]
    /\ \A j \in DOMAIN box' :
          j \notin DOMAIN box => box'[j].cmd \notin commands /\ box'[j].status = "ready"
    /\ commands \subseteq commands'
    /\ \A c \in commands' : c \in commands \/ CommandKnown(c, dep')

LEMMA UserGrows ==
    ASSUME LPInv, UserStep
    PROVE  Grown /\ BoxMatches'
<1>1. PublishesOne
  BY UserEffects DEF UserStep, LPInv, UserEffect
<1>2. box \in Seq(Row) /\ BoxMatches
  BY DEF LPInv, LPTypeOK
<1>3. CASE PublishesNothing
  BY <1>2, <1>3 DEF PublishesNothing, UserStep, Grown, BoxMatches
<1>4. ASSUME NEW c \in Command, Publishes(c) PROVE Grown /\ BoxMatches'
  <2> DEFINE r == [cmd |-> c, status |-> "ready", attempts |-> 0]
  <2>1. c \notin commands /\ commands' = commands \cup {c} /\ CommandKnown(c, dep')
    BY <1>4 DEF Publishes
  <2>2. (CHOOSE x \in commands' : x \notin commands) = c
    BY <2>1
  <2>3. box' = Append(box, r)
    BY <2>1, <2>2 DEF UserStep
  <2>4. r \in Row /\ r.cmd = c /\ r.status = "ready"
    BY DEF Row
  <2> HIDE DEF r
  <2>5. /\ box' \in Seq(Row)
        /\ DOMAIN box \subseteq DOMAIN box'
        /\ Len(box) + 1 \in DOMAIN box' /\ box'[Len(box) + 1] = r
        /\ \A j \in DOMAIN box : box'[j] = box[j]
        /\ \A j \in DOMAIN box' : j \in DOMAIN box \/ j = Len(box) + 1
        /\ Len(box) + 1 \notin DOMAIN box
    BY <1>2, <2>3, <2>4, RowAppended
  <2>6. Grown
    BY <2>1, <2>4, <2>5 DEF Grown
  <2>7. BoxMatches'
    <3>1. \A i \in DOMAIN box' : box'[i].cmd \in commands'
      BY <1>2, <2>1, <2>4, <2>5 DEF BoxMatches
    <3>2. ASSUME NEW i \in DOMAIN box', NEW j \in DOMAIN box', box'[i].cmd = box'[j].cmd
          PROVE  i = j
      <4>1. \A k \in DOMAIN box : box'[k].cmd # c /\ box'[k].cmd = box[k].cmd
        BY <1>2, <2>1, <2>5 DEF BoxMatches
      <4>2. \A k \in DOMAIN box' : k \notin DOMAIN box => k = Len(box) + 1 /\ box'[k].cmd = c
        BY <2>4, <2>5
      <4>3. CASE i \in DOMAIN box /\ j \in DOMAIN box
        BY <1>2, <3>2, <4>1, <4>3 DEF BoxMatches
      <4>4. CASE i \notin DOMAIN box \/ j \notin DOMAIN box
        BY <3>2, <4>1, <4>2, <4>4
      <4> QED
        BY <4>3, <4>4
    <3>3. \A x \in commands' : \E i \in DOMAIN box' : box'[i].cmd = x
      BY <1>2, <2>1, <2>4, <2>5 DEF BoxMatches
    <3> QED
      BY <3>1, <3>2, <3>3 DEF BoxMatches
  <2> QED
    BY <2>6, <2>7
<1> QED
  BY <1>1, <1>3, <1>4 DEF PublishesOne

LEMMA UserPreserves ==
    ASSUME LPInv, UserStep
    PROVE  LPInv'
<1>1. UNCHANGED <<receipts, job, store, runtime, routes, faults>> /\ UserNext
  BY DEF UserStep, providerVars
<1>2. Grown /\ BoxMatches'
  BY UserGrows
<1>3. \A d \in Deployments : Keeps(dep[d], dep'[d])
  BY <1>1, UserEffects DEF LPInv, UserEffect
<1>4. CPInv'
  BY <1>1, StepInvariant DEF CPNext, LPInv
<1>5. dep \in [Deployments -> Deployment] /\ dep' \in [Deployments -> Deployment]
      /\ commands \subseteq Command
  BY <1>4 DEF LPInv, CPInv, CPTypeOK
<1>6. \A d \in Deployments : dep[d].version \in Nat /\ dep'[d].version \in Nat
  BY <1>5 DEF Deployment
<1>7. LPTypeOK'
  BY <1>1, <1>2, <1>4 DEF LPInv, LPTypeOK, CPInv, Grown
<1>8. CommandsKnown'
  <2>1. ASSUME NEW c \in commands
        PROVE  /\ c.type \in {"deploy", "cancel", "route"}
               /\ c.type # "route" => dep'[c.id].status # "none" /\ c.version <= dep'[c.id].version
    <3>1. c \in Command /\ (c.type # "route" => c.id \in Deployments) /\ c.version \in Nat
      BY <1>5, CommandNames
    <3> QED
      BY <1>3, <1>6, <3>1 DEF LPInv, CommandsKnown, Keeps
  <2> QED
    BY <1>2, <2>1 DEF CommandsKnown, CommandKnown, Grown
<1>9. ReceiptsFit'
  <2>1. ASSUME NEW c \in commands, c.type # "route", Overtaken(c) PROVE Overtaken(c)'
    <3>1. c.id \in Deployments /\ c.version \in Nat
      BY <1>5, <2>1, CommandNames
    <3> QED
      BY <1>3, <1>6, <2>1, <3>1 DEF Overtaken, Keeps
  <2> QED
    BY <1>1, <1>2, <2>1 DEF LPInv, ReceiptsFit, KindFits, Grown
<1>10. RevisionsAnswered'
  BY <1>1, <1>3 DEF LPInv, RevisionsAnswered, Keeps, DeployCommand
<1>11. ResultsFit'
  BY <1>1 DEF LPInv, ResultsFit, KindFits, Answered
<1>12. job.pc # "idle" => job.row \in DOMAIN box /\ box'[job.row] = box[job.row] /\ cmd' = cmd
                          /\ cmd \in commands /\ (cmd.type # "route" => cmd.id \in Deployments)
  BY <1>1, <1>2, Working DEF cmd, Grown
<1>13. ClaimsBounded'
  <2>1. Unsent' <=> Unsent
    BY <1>1, <1>12 DEF Unsent
  <2> SUFFICES ASSUME NEW r \in receipts, NEW i \in DOMAIN box', r.envelope.cmd = box'[i].cmd
               PROVE  /\ r.envelope.claim <= box'[i].attempts
                      /\ Unsent /\ job.row = i => r.envelope.claim < box'[i].attempts
    BY <1>1, <2>1 DEF ClaimsBounded
  <2>2. i \in DOMAIN box /\ box'[i] = box[i]
    BY <1>2 DEF Grown, LPInv, ReceiptsFit
  <2> QED
    BY <2>2 DEF LPInv, ClaimsBounded
<1>14. JobFits'
  BY <1>1, <1>2, <1>12
  DEF LPInv, JobFits, Grown, Completed, KindFits, Envelope, Answered, HasAnswer
<1>15. Removed'
  BY <1>1, <1>12 DEF LPInv, Removed, Completed
<1>16. StoreKept'
  <2>1. \A d \in Deployments : Kept(dep[d]) => Kept(dep'[d])
    BY <1>3 DEF Keeps
  <2>2. job.pc = "save" => cmd.id \in Deployments
    BY <1>12 DEF LPInv, JobFits
  <2>3. /\ store.revisions \subseteq Deployments
        /\ \A a \in Aliases : routes[a] # "none" => routes[a] \in Deployments
    BY DEF LPInv, LPTypeOK, Store
  <2> QED
    BY <1>1, <1>12, <2>1, <2>2, <2>3 DEF LPInv, StoreKept
<1>17. Repairable'
  <2>1. ASSUME NEW j \in DOMAIN box, Repairs(j) PROVE Repairs(j)'
    BY <1>1, <1>2, <2>1 DEF Repairs, Completed, Grown
  <2> QED
    BY <1>1, <1>2, <2>1 DEF LPInv, Repairable, Grown
<1>18. PublishedAnswered'
  BY <1>1, <1>2 DEF LPInv, PublishedAnswered, HasAnswer, Grown
<1> QED
  BY <1>2, <1>4, <1>7, <1>8, <1>9, <1>10, <1>11, <1>13, <1>14, <1>15, <1>16, <1>17, <1>18
  DEF LPInv

-----------------------------------------------------------------------------
LEMMA FailedKeepsRevision ==
    ASSUME CPInv, NEW c \in commands, ProviderFailed(c)
    PROVE  dep'[c.id].revision = dep[c.id].revision
<1>1. c.id \in Deployments /\ dep[c.id] \in Deployment
  BY CallbackFacts DEF ProviderFailed
<1>2. dep \in [Deployments -> Deployment]
  BY DEF CPInv, CPTypeOK
<1>3. dep'[c.id] = Moved(dep[c.id], "failed")
  BY <1>1, <1>2 DEF ProviderFailed
<1> QED
  BY <1>1, <1>3, MovedFacts DEF Statuses

\* A callback is about a cancellation whose removals are done.
Canceling(d) ==
    d = cmd.id /\ cmd.type = "cancel" /\ job.kind = "canceled" /\ ~Completed(cmd)

\* The callback the process is waiting to be answered.
LEMMA AtCallback ==
    ASSUME LPInv, job.pc = "callback"
    PROVE  /\ job.row \in DOMAIN box /\ job.row # 0 /\ job \in Job
           /\ box[job.row] \in Row /\ box[job.row].attempts \in Nat /\ job.claim \in Nat
           /\ cmd = box[job.row].cmd /\ cmd \in commands /\ cmd \in Command
           /\ cmd.type \in {"deploy", "cancel"} /\ cmd.id \in Deployments
           /\ cmd.version \in Nat
           /\ KindFits(Envelope) /\ job.kind \in Kinds /\ job.kind # "routed"
           /\ Envelope \in Result
           /\ Envelope.cmd = cmd /\ Envelope.kind = job.kind /\ Envelope.claim = job.claim
           /\ \/ ~Replaying /\ job.claim = box[job.row].attempts /\ ~Completed(cmd)
              \/ Replaying /\ job.claim < box[job.row].attempts /\ Answered(Envelope)
<1>1. /\ job.row \in DOMAIN box /\ job.row # 0 /\ job \in Job
      /\ box[job.row] \in Row /\ box[job.row].attempts \in Nat
      /\ cmd = box[job.row].cmd /\ cmd \in commands /\ cmd \in Command
      /\ cmd.type \in {"deploy", "cancel", "route"}
      /\ cmd.type # "route" => cmd.id \in Deployments
  BY Working
<1>2. /\ KindFits(Envelope) /\ job.kind # "none" /\ job.kind # "routed"
      /\ \/ job.claim = box[job.row].attempts /\ ~Completed(cmd)
         \/ job.claim < box[job.row].attempts /\ Envelope \in store.completed
  BY DEF LPInv, JobFits
<1>3. job.kind \in Kinds /\ job.claim \in Nat
  BY <1>1, <1>2 DEF Job
<1>4. /\ Envelope \in Result
      /\ Envelope.cmd = cmd /\ Envelope.kind = job.kind /\ Envelope.claim = job.claim
  BY <1>1, <1>3 DEF Envelope, Result
<1>5. cmd.type \in {"deploy", "cancel"}
  BY <1>1, <1>2, <1>4 DEF KindFits
<1>6. Envelope \in store.completed => Answered(Envelope)
  BY <1>2, <1>4 DEF LPInv, ResultsFit
<1> QED
  BY <1>1, <1>2, <1>3, <1>4, <1>5, <1>6, CommandNames DEF Replaying

LEMMA ConsumedReceipts ==
    ASSUME LPInv, job.pc = "callback", Consume(Envelope)
    PROVE  /\ receipts' \subseteq EventReceipt
           /\ [envelope |-> Envelope, status |-> "completed"] \in receipts'
           /\ \A r \in receipts' :
                 r \in receipts \/ (r.envelope = Envelope /\ r.status = "completed")
           /\ \A r \in receipts : r.status = "completed" => r \in receipts'
           /\ UNCHANGED cpVars \/ ProviderNext(cmd)
           /\ ProviderNext(cmd) /\ ~UNCHANGED cpVars
                => ~Replayed(Envelope) /\ (job.kind = "ready" \/ ProviderFailed(cmd)
                                                              \/ ProviderCanceled(cmd))
<1> DEFINE e == Envelope
           n == [envelope |-> e, status |-> "completed"]
<1>1. e \in Result /\ e.cmd = cmd /\ e.kind = job.kind
  BY AtCallback
<1>2. n \in EventReceipt /\ n.envelope = e /\ n.status = "completed"
  BY <1>1 DEF EventReceipt
<1>3. receipts \subseteq EventReceipt
  BY DEF LPInv, LPTypeOK
<1>4. ~Conflict(e)
  BY DEF Consume
<1>5. CASE Replayed(e)
  <2>1. UNCHANGED <<cpVars, receipts>> /\ n \in receipts
    BY <1>5 DEF Consume, Replayed
  <2> QED
    BY <1>3, <1>5, <2>1
<1>6. CASE ~Replayed(e)
  <2>1. Process(e) /\ receipts' = (receipts \ ReceiptOf(e)) \cup {n}
    BY <1>6 DEF Consume
  <2>2. UNCHANGED cpVars \/ ProviderNext(cmd)
    BY <1>1, <2>1 DEF Process, ProviderNext
  <2>3. ASSUME NEW r \in receipts, r.status = "completed" PROVE r \in receipts'
    <3>1. CASE r \in ReceiptOf(e)
      <4>1. r.envelope = e
        BY <1>4, <3>1 DEF Conflict
      <4>2. r = n
        BY <1>2, <1>3, <2>3, <4>1 DEF EventReceipt
      <4> QED
        BY <2>1, <4>2
    <3>2. CASE r \notin ReceiptOf(e)
      BY <2>1, <3>2
    <3> QED
      BY <3>1, <3>2
  <2>4. ~UNCHANGED cpVars => job.kind = "ready" \/ ProviderFailed(cmd) \/ ProviderCanceled(cmd)
    BY <1>1, <2>1 DEF Process
  <2>5. n \in receipts' /\ \A r \in receipts' : r \in receipts \/ r = n
    BY <2>1
  <2> QED
    BY <1>2, <1>3, <1>6, <2>2, <2>3, <2>4, <2>5
<1> QED
  BY <1>5, <1>6

\* What a consumed callback means for the deployments: none that the provider
\* keeps is lost but by the cancellation whose removals are done, and a revision
\* is made only by the callback that reports it.
LEMMA ConsumedDeployments ==
    ASSUME LPInv, job.pc = "callback", Consume(Envelope)
    PROVE  /\ dep' \in [Deployments -> Deployment] /\ CPInv' /\ commands' = commands
           /\ \A d \in Deployments :
                 /\ dep[d].version <= dep'[d].version
                 /\ dep[d].status # "none" => dep'[d].status # "none"
                 /\ Kept(dep[d]) => Kept(dep'[d]) \/ Canceling(d)
                 /\ dep[d].status = "canceling" /\ dep'[d].status = "canceled" => Canceling(d)
           /\ cmd.version < dep'[cmd.id].version
           /\ \A d \in Deployments :
                 dep'[d].revision # "none" =>
                     \/ dep[d].revision # "none"
                     \/ d = cmd.id /\ cmd = DeployCommand(d, 0) /\ job.kind = "ready"
                          /\ Kept(dep'[d])
<1>1. /\ cmd \in commands /\ cmd \in Command /\ cmd.type # "route" /\ cmd.id \in Deployments
      /\ cmd.version \in Nat
      /\ KindFits(Envelope) /\ Envelope.cmd = cmd /\ Envelope.kind = job.kind
      /\ ~Completed(cmd) \/ Answered(Envelope)
  BY AtCallback
<1>2. /\ UNCHANGED cpVars \/ ProviderNext(cmd)
      /\ ProviderNext(cmd) /\ ~UNCHANGED cpVars
           => ~Replayed(Envelope) /\ (job.kind = "ready" \/ ProviderFailed(cmd)
                                                         \/ ProviderCanceled(cmd))
  BY ConsumedReceipts
<1>3. CPInv'
  BY <1>1, <1>2, StepInvariant DEF LPInv, CPNext
<1>4. /\ dep \in [Deployments -> Deployment] /\ dep' \in [Deployments -> Deployment]
      /\ CPInv
  BY <1>3 DEF LPInv, CPInv, CPTypeOK
<1>5. \A d \in Deployments : dep[d].version \in Nat /\ dep'[d].version \in Nat
  BY <1>4 DEF Deployment
<1>6. CASE UNCHANGED cpVars
  <2>1. cmd.version < dep[cmd.id].version
    <3>1. CASE Replayed(Envelope)
      BY <1>1, <3>1 DEF Replayed, LPInv, ReceiptsFit, Overtaken
    <3>2. CASE ~Replayed(Envelope)
      <4>1. ~Current(cmd)
        <5>1. ~ProviderNext(cmd)
          BY <1>1, <1>4, <1>5, <1>6, CallbackEffect DEF cpVars
        <5>2. Process(Envelope)
          BY <3>2 DEF Consume
        <5> QED
          BY <1>1, <5>1, <5>2 DEF Process, ProviderNext
      <4>2. dep[cmd.id].status # "none" /\ cmd.version <= dep[cmd.id].version
        BY <1>1 DEF LPInv, CommandsKnown
      <4> QED
        BY <1>1, <1>5, <4>1, <4>2 DEF Current
    <3> QED
      BY <3>1, <3>2
  <2> QED
    BY <1>3, <1>4, <1>5, <1>6, <2>1 DEF cpVars
<1>7. CASE ProviderNext(cmd) /\ ~UNCHANGED cpVars
  <2>1. /\ Current(cmd)
        /\ UNCHANGED commands
        /\ \A d \in Deployments : d # cmd.id => dep'[d] = dep[d]
        /\ dep[cmd.id].version < dep'[cmd.id].version
        /\ dep'[cmd.id].status # "none"
        /\ Kept(dep[cmd.id]) => ProviderCanceled(cmd)
        /\ dep'[cmd.id].status = "canceled" => ProviderCanceled(cmd)
        /\ dep'[cmd.id].revision # "none" =>
              \/ dep[cmd.id].revision # "none"
              \/ /\ ProviderReady(cmd) /\ cmd = DeployCommand(cmd.id, 0)
                 /\ Kept(dep'[cmd.id])
    BY <1>1, <1>4, <1>7, CallbackEffect
  <2>2. ProviderCanceled(cmd) => Canceling(cmd.id)
    BY <1>1, <1>2, <1>7 DEF ProviderCanceled, KindFits, Replayed, Answered, Canceling
  <2>3. dep'[cmd.id].revision # "none" /\ dep[cmd.id].revision = "none" => job.kind = "ready"
    <3>1. ProviderFailed(cmd) => dep'[cmd.id].revision = dep[cmd.id].revision
      BY <1>1, <1>4, FailedKeepsRevision
    <3>2. ProviderReady(cmd) => ~ProviderCanceled(cmd)
      BY DEF ProviderReady, ProviderCanceled
    <3> QED
      BY <1>2, <1>7, <2>1, <3>1, <3>2
  <2>4. cmd.version = dep[cmd.id].version
    BY <2>1 DEF Current
  <2> QED
    BY <1>1, <1>3, <1>4, <1>5, <2>1, <2>2, <2>3, <2>4
<1> QED
  BY <1>2, <1>6, <1>7

\* Whatever became of a callback: the receipts that were completed stay, and at
\* most its own is new.
CallbackSent ==
    \/ Consume(Envelope)
    \/ /\ UNCHANGED cpVars
       /\ receipts' \in {receipts, receipts \cup {[envelope |-> Envelope, status |-> "processing"]}}

ReceiptsGrow ==
    /\ receipts' \subseteq EventReceipt
    /\ \A r \in receipts' : \/ r \in receipts
                            \/ /\ r.envelope = Envelope
                               /\ r.status = "completed" => cmd.version < dep'[cmd.id].version
    /\ \A r \in receipts : r.status = "completed" => r \in receipts'

DeploymentsKept ==
    /\ CPInv' /\ commands' = commands /\ dep' \in [Deployments -> Deployment]
    /\ \A d \in Deployments :
          /\ dep[d].version <= dep'[d].version
          /\ dep[d].status # "none" => dep'[d].status # "none"
          /\ Kept(dep[d]) => Kept(dep'[d]) \/ Canceling(d)

LEMMA CallbackRecorded ==
    ASSUME LPInv, job.pc = "callback", CallbackSent, UNCHANGED box
    PROVE  Recorded' /\ ReceiptsGrow /\ DeploymentsKept
<1>1. /\ cmd \in commands /\ cmd.type # "route" /\ cmd.id \in Deployments /\ cmd.version \in Nat
      /\ KindFits(Envelope) /\ Envelope \in Result /\ Envelope.cmd = cmd
      /\ Envelope.kind = job.kind
  BY AtCallback
<1>2. ReceiptsGrow
  <2>1. CASE Consume(Envelope)
    BY <2>1, ConsumedReceipts, ConsumedDeployments DEF ReceiptsGrow
  <2>2. CASE /\ UNCHANGED cpVars
             /\ receipts' \in {receipts, receipts \cup {[envelope |-> Envelope,
                                                          status |-> "processing"]}}
    <3>1. [envelope |-> Envelope, status |-> "processing"] \in EventReceipt
      BY <1>1 DEF EventReceipt
    <3> QED
      BY <2>2, <3>1 DEF ReceiptsGrow, LPInv, LPTypeOK
  <2> QED
    BY <2>1, <2>2 DEF CallbackSent
<1>3. DeploymentsKept
  <2>1. CASE Consume(Envelope)
    BY <2>1, ConsumedDeployments DEF DeploymentsKept
  <2>2. CASE UNCHANGED cpVars
    <3>1. CPInv' /\ dep \in [Deployments -> Deployment]
      BY <2>2, StepInvariant DEF LPInv, CPInv, CPTypeOK
    <3>2. \A d \in Deployments : dep[d].version \in Nat
      BY <3>1 DEF Deployment
    <3> QED
      BY <2>2, <3>1, <3>2 DEF DeploymentsKept, cpVars
  <2> QED
    BY <2>1, <2>2 DEF CallbackSent
<1>4. \A d \in Deployments : dep[d].version \in Nat /\ dep'[d].version \in Nat
  BY <1>3 DEF DeploymentsKept, LPInv, CPInv, CPTypeOK, Deployment
<1>5. \A c \in commands : c.version \in Nat /\ (c.type # "route" => c.id \in Deployments)
  BY CommandNames DEF LPInv, CPInv, CPTypeOK
<1>6. BoxMatches'
  BY <1>3 DEF LPInv, BoxMatches, DeploymentsKept
<1>7. CommandsKnown'
  BY <1>3, <1>4, <1>5 DEF LPInv, CommandsKnown, DeploymentsKept
<1>8. ReceiptsFit'
  <2> SUFFICES ASSUME NEW r \in receipts'
               PROVE  /\ r.envelope.cmd \in commands /\ r.envelope.cmd.type # "route"
                      /\ KindFits(r.envelope)
                      /\ r.status = "completed" =>
                           r.envelope.cmd.version < dep'[r.envelope.cmd.id].version
    BY <1>3 DEF ReceiptsFit, DeploymentsKept, Overtaken, KindFits
  <2>1. CASE r \in receipts
    BY <1>3, <1>4, <1>5, <2>1 DEF LPInv, ReceiptsFit, Overtaken, DeploymentsKept
  <2>2. CASE r \notin receipts
    BY <1>1, <1>2, <2>2 DEF ReceiptsGrow
  <2> QED
    BY <2>1, <2>2
<1>9. RevisionsAnswered'
  <2> SUFFICES ASSUME NEW d \in Deployments, dep'[d].revision # "none"
               PROVE  \E r \in receipts' : /\ r.envelope.cmd = DeployCommand(d, 0)
                                           /\ r.envelope.kind = "ready" /\ r.status = "completed"
    BY DEF RevisionsAnswered, DeployCommand
  <2>1. CASE dep[d].revision # "none"
    BY <1>2, <2>1 DEF LPInv, RevisionsAnswered, ReceiptsGrow
  <2>2. CASE dep[d].revision = "none"
    <3>1. Consume(Envelope)
      BY <2>2 DEF CallbackSent, cpVars
    <3>2. cmd = DeployCommand(d, 0) /\ job.kind = "ready"
      BY <2>2, <3>1, ConsumedDeployments
    <3>3. [envelope |-> Envelope, status |-> "completed"] \in receipts'
      BY <3>1, ConsumedReceipts
    <3> QED
      BY <1>1, <3>2, <3>3
  <2> QED
    BY <2>1, <2>2
<1>10. PublishedAnswered'
  BY <1>2 DEF LPInv, PublishedAnswered, HasAnswer, ReceiptsGrow
<1> QED
  BY <1>2, <1>3, <1>6, <1>7, <1>8, <1>9, <1>10 DEF Recorded, DeploymentsKept

\* The process drops the job, gives it up for now, or goes on with the answer.
Answering ==
    \/ job' = NoJob
    \/ /\ job'.row = job.row /\ job'.pc = "finalize" /\ job'.outcome \in {"retry", "rejected"}
    \/ /\ job'.row = job.row /\ job'.pc = "finalize" /\ job'.outcome = "published"
       /\ Consume(Envelope)
    \/ /\ job'.row = job.row /\ job'.kind = job.kind /\ job'.claim = job.claim
       /\ Consume(Envelope) /\ ~Replaying
       /\ \/ job'.pc = "complete"
          \/ job'.pc = "save" /\ cmd.type = "deploy" /\ Kept(dep'[cmd.id])

LEMMA CallbackPreserves ==
    ASSUME LPInv, job.pc = "callback", CallbackSent, Answering,
           UNCHANGED <<box, store, runtime, routes>>,
           job' \in Job, faults' \in 0..MaxFaults
    PROVE  LPInv'
<1>1. Recorded' /\ ReceiptsGrow /\ DeploymentsKept
  BY CallbackRecorded
<1>2. /\ job.row \in DOMAIN box /\ job.row # 0 /\ box[job.row].status = "held"
      /\ box[job.row].attempts \in Nat /\ job.claim \in Nat
      /\ cmd = box[job.row].cmd /\ cmd \in commands /\ cmd.type \in {"deploy", "cancel"}
      /\ cmd.id \in Deployments
      /\ KindFits(Envelope) /\ job.kind # "routed" /\ job.kind # "none"
      /\ Envelope.cmd = cmd /\ Envelope.claim = job.claim
      /\ job.claim <= box[job.row].attempts
      /\ ~Replaying => ~Completed(cmd)
  BY AtCallback, Working DEF Kinds
<1>3. NoJob \in Job /\ NoJob.pc = "idle" /\ NoJob.row = 0
  BY DEF NoJob, Job
<1>4. job'.row # 0 => job'.row = job.row /\ cmd' = cmd
  BY <1>3 DEF Answering, cmd
<1>5. \A c : Completed(c)' <=> Completed(c)
  BY DEF Completed
<1>6. LPTypeOK'
  BY <1>1 DEF LPInv, LPTypeOK, Recorded, CPInv, ReceiptsGrow
<1>7. ResultsFit'
  <2>1. \A e : Answered(e) => [envelope |-> e, status |-> "completed"] \in receipts'
    BY <1>1 DEF Answered, ReceiptsGrow
  <2> QED
    BY <2>1 DEF LPInv, ResultsFit, KindFits, Answered
<1>8. ClaimsBounded'
  <2>1. ~Unsent'
    BY <1>3 DEF Answering, Unsent
  <2> SUFFICES ASSUME NEW r \in receipts', NEW i \in DOMAIN box, r.envelope.cmd = box[i].cmd
               PROVE  r.envelope.claim <= box[i].attempts
    BY <2>1 DEF ClaimsBounded
  <2>2. CASE r \in receipts
    BY <2>2 DEF LPInv, ClaimsBounded
  <2>3. CASE r \notin receipts
    <3>1. r.envelope = Envelope
      BY <1>1, <2>3 DEF ReceiptsGrow
    <3>2. i = job.row
      BY <1>2, <3>1 DEF LPInv, BoxMatches
    <3> QED
      BY <1>2, <3>1, <3>2
  <2> QED
    BY <2>2, <2>3
<1>9. JobFits'
  <2>1. CASE job' = NoJob
    BY <1>3, <2>1 DEF JobFits
  <2>2. CASE /\ job'.row = job.row /\ job'.pc = "finalize"
             /\ job'.outcome \in {"retry", "rejected"}
    BY <1>2, <1>4, <2>2 DEF JobFits, NoJob
  <2>3. CASE /\ job'.row = job.row /\ job'.pc = "finalize" /\ job'.outcome = "published"
             /\ Consume(Envelope)
    <3>1. [envelope |-> Envelope, status |-> "completed"] \in receipts'
      BY <2>3, ConsumedReceipts
    <3>2. HasAnswer(cmd)'
      BY <1>2, <1>4, <2>3, <3>1 DEF HasAnswer
    <3> QED
      BY <1>2, <1>4, <2>3, <3>2 DEF JobFits, NoJob
  <2>4. CASE /\ job'.row = job.row /\ job'.kind = job.kind /\ job'.claim = job.claim
             /\ Consume(Envelope) /\ ~Replaying
             /\ \/ job'.pc = "complete"
                \/ job'.pc = "save" /\ cmd.type = "deploy" /\ Kept(dep'[cmd.id])
    <3>1. [envelope |-> Envelope, status |-> "completed"] \in receipts'
      BY <2>4, ConsumedReceipts
    <3>2. cmd' = cmd /\ Envelope' = Envelope
      BY <1>2, <1>4, <2>4 DEF Envelope
    <3>3. Answered(Envelope)' /\ KindFits(Envelope)'
      BY <1>2, <3>1, <3>2 DEF Answered, KindFits
    <3>4. ~Completed(cmd)'
      BY <1>2, <2>4, <1>5, <3>2
    <3> QED
      BY <1>2, <2>4, <3>2, <3>3, <3>4 DEF JobFits, NoJob
  <2> QED
    BY <2>1, <2>2, <2>3, <2>4 DEF Answering
<1>10. Removed'
  BY <1>3 DEF Removed, Answering
<1>11. StoreKept'
  <2>1. ~\E d \in store.revisions : Canceling(d)
    BY DEF LPInv, Removed, Canceling
  <2>2. ~\E a \in Aliases : routes[a] # "none" /\ Canceling(routes[a])
    BY DEF LPInv, Removed, Canceling
  <2>3. /\ store.revisions \subseteq Deployments
        /\ \A a \in Aliases : routes[a] # "none" => routes[a] \in Deployments
    BY DEF LPInv, LPTypeOK, Store
  <2>4. job'.pc = "save" => Kept(dep'[cmd.id]) /\ cmd' = cmd
    BY <1>2, <1>3, <1>4 DEF Answering
  <2>5. \A d \in store.revisions : Kept(dep'[d])
    BY <1>1, <2>1, <2>3 DEF LPInv, StoreKept, DeploymentsKept
  <2>6. \A a \in Aliases : routes[a] # "none" => Kept(dep'[routes[a]])
    BY <1>1, <2>2, <2>3 DEF LPInv, StoreKept, DeploymentsKept
  <2> QED
    BY <2>4, <2>5, <2>6 DEF LPInv, StoreKept
<1>12. Repairable'
  <2>1. ASSUME NEW i \in DOMAIN box, Repairs(i) PROVE Repairs(i)'
    <3>1. i # job.row
      BY <2>1 DEF Repairs
    <3>2. job'.row = job.row \/ job'.row = 0
      BY <1>4
    <3> QED
      BY <2>1, <3>1, <3>2, OtherRepairs
  <2> QED
    BY <2>1 DEF LPInv, Repairable
<1> QED
  BY <1>1, <1>6, <1>7, <1>8, <1>9, <1>10, <1>11, <1>12 DEF LPInv, Recorded

LEMMA Callbacks ==
    ASSUME LPInv, CallbackAnswered \/ CallbackRefused \/ CallbackLost
    PROVE  LPInv'
<1>1. /\ job.pc = "callback" /\ UNCHANGED <<box, store, runtime, routes>>
      /\ job \in Job /\ faults \in 0..MaxFaults
  BY DEF CallbackAnswered, CallbackRefused, CallbackLost, LPInv, LPTypeOK
<1>2. NoJob \in Job
  BY DEF NoJob, Job
<1>3. CASE CallbackAnswered
  <2>1. Consume(Envelope) /\ CallbackSent /\ Proceed /\ faults' = faults
    BY <1>3 DEF CallbackAnswered, CallbackSent
  <2>2. job' \in Job /\ Answering
    <3>1. CASE Replaying
      BY <1>1, <2>1, <3>1, OutcomeFacts DEF Proceed, Answering
    <3>2. CASE ~Replaying /\ job.kind # "ready"
      BY <1>1, <2>1, <3>2, ThenFacts DEF Proceed, Answering, PCs
    <3>3. CASE ~Replaying /\ job.kind = "ready" /\ dep'[cmd.id].revision # "none"
      <4>1. Then("save")
        BY <2>1, <3>3 DEF Proceed
      <4>2. /\ cmd.type = "deploy" /\ cmd.id \in Deployments /\ cmd \in commands
            /\ cmd = box[job.row].cmd /\ job.row \in DOMAIN box
            /\ Envelope.cmd = cmd /\ Envelope.kind = "ready" /\ Envelope.claim = job.claim
            /\ job.claim = box[job.row].attempts /\ job.claim \in Nat
        BY <1>1, <3>3, AtCallback DEF KindFits
      <4>3. dep[cmd.id].revision = "none"
        <5> SUFFICES ASSUME dep[cmd.id].revision # "none" PROVE FALSE
          OBVIOUS
        <5>1. cmd = DeployCommand(cmd.id, 0)
          BY <4>2 DEF LPInv, CPInv, CPTypeOK, DeployVersions, Command, DeployCommand
        <5>2. PICK r \in receipts : /\ r.envelope.cmd = cmd /\ r.envelope.kind = "ready"
                                    /\ r.status = "completed"
          BY <4>2, <5>1 DEF LPInv, RevisionsAnswered
        <5>3. r.envelope = Envelope
          BY <2>1, <4>2, <5>2 DEF Consume, Conflict, ReceiptOf
        <5>4. Unsent
          BY <1>1, <4>2 DEF Unsent
        <5>5. r.envelope.claim < box[job.row].attempts
          BY <4>2, <5>2, <5>4 DEF LPInv, ClaimsBounded
        <5> QED
          BY <4>2, <5>3, <5>5
      <4>4. Kept(dep'[cmd.id])
        BY <1>1, <2>1, <3>3, <4>2, <4>3, ConsumedDeployments
      <4> QED
        BY <1>1, <2>1, <3>3, <4>1, <4>2, <4>4, ThenFacts DEF Answering, PCs
    <3>4. CASE ~Replaying /\ job.kind = "ready" /\ ~(dep'[cmd.id].revision # "none")
      BY <1>1, <2>1, <3>4, OutcomeFacts DEF Proceed, Answering
    <3> QED
      BY <3>1, <3>2, <3>3, <3>4
  <2> QED
    BY <1>1, <2>1, <2>2, CallbackPreserves
<1>4. CASE CallbackRefused
  <2>1. CallbackSent /\ job' = NoJob /\ faults' = faults
    BY <1>4 DEF CallbackRefused, CallbackSent, Drop
  <2> QED
    BY <1>1, <1>2, <2>1, CallbackPreserves DEF Answering
<1>5. CASE CallbackLost
  <2>1. CallbackSent /\ Unavailable
    BY <1>5 DEF CallbackLost, CallbackSent
  <2>2. faults' \in 0..MaxFaults
    BY <1>1, <1>5, ProviderAssumption DEF CallbackLost, Fault
  <2>3. job' \in Job /\ Answering
    BY <1>1, <1>2, <2>1, OutcomeFacts DEF Unavailable, Drop, Answering
  <2> QED
    BY <1>1, <2>1, <2>2, <2>3, CallbackPreserves
<1> QED
  BY <1>3, <1>4, <1>5
-----------------------------------------------------------------------------
LEMMA LPInitInvariant == LPInit => LPInv
<1> SUFFICES ASSUME LPInit PROVE LPInv
  OBVIOUS
<1>1. CPInv /\ commands = {} /\ box = <<>> /\ receipts = {} /\ job = NoJob
      /\ store = [received |-> {}, completed |-> {}, revisions |-> {}, aliases |-> NoRoutes]
      /\ runtime = {} /\ routes = NoRoutes /\ faults = 0
      /\ dep = [d \in Deployments |-> NoDeployment]
  BY InitInvariant DEF LPInit, CPInit
<1>2. NoJob \in Job /\ NoJob.pc = "idle"
  BY DEF NoJob, Job
<1>3. NoRoutes \in [Aliases -> Deployments \cup {"none"}]
      /\ \A a \in Aliases : NoRoutes[a] = "none"
  BY DEF NoRoutes
<1>4. store \in Store /\ store.completed = {} /\ store.revisions = {} /\ store.aliases = NoRoutes
  BY <1>1, <1>3 DEF Store
<1>5. box \in Seq(Row) /\ DOMAIN box = {}
  BY <1>1
<1>6. LPTypeOK
  BY <1>1, <1>2, <1>3, <1>4, <1>5, ProviderAssumption DEF LPTypeOK, CPInv
<1>7. BoxMatches /\ CommandsKnown /\ ReceiptsFit /\ ResultsFit /\ ClaimsBounded
      /\ PublishedAnswered
  BY <1>1, <1>4, <1>5
  DEF BoxMatches, CommandsKnown, ReceiptsFit, ResultsFit, ClaimsBounded, PublishedAnswered
<1>8. RevisionsAnswered
  BY <1>1 DEF RevisionsAnswered, NoDeployment
<1>9. JobFits /\ Removed
  BY <1>1, <1>2 DEF JobFits, Removed
<1>10. StoreKept /\ Repairable
  BY <1>1, <1>2, <1>3, <1>4 DEF StoreKept, Repairable
<1> QED
  BY <1>1, <1>6, <1>7, <1>8, <1>9, <1>10 DEF LPInv

LEMMA LPStepInvariant == LPInv /\ [LPNext]_lpVars => LPInv'
<1> SUFFICES ASSUME LPInv, [LPNext]_lpVars PROVE LPInv'
  OBVIOUS
<1>1. CASE UserStep
  BY <1>1, UserPreserves
<1>2. CASE \E i \in DOMAIN box : Expire(i)
  BY <1>2, ExpirePreserves
<1>3. CASE \E i \in DOMAIN box : Claim(i)
  BY <1>3, ClaimPreserves
<1>4. CASE RuntimeUnavailable \/ Ensure \/ Refuse \/ Probe \/ Remove
  BY <1>4, DockerCalls
<1>5. CASE CallbackAnswered \/ CallbackRefused \/ CallbackLost
  BY <1>5, Callbacks
<1>6. CASE UNCHANGED lpVars
  <2>1. UNCHANGED <<cpVars, box, receipts, job, store, runtime, routes, faults>>
    BY <1>6 DEF lpVars, providerVars
  <2>2. Recorded'
    BY <2>1, Untouched
  <2>3. LPTypeOK'
    BY <2>1, <2>2 DEF LPInv, LPTypeOK, Recorded, CPInv
  <2>4. cmd' = cmd /\ Envelope' = Envelope /\ (Unsent' <=> Unsent) /\ dep' = dep
    BY <2>1 DEF cmd, Envelope, Unsent, cpVars
  <2>5. ResultsFit' /\ ClaimsBounded'
    BY <2>1, <2>4 DEF LPInv, ResultsFit, KindFits, Answered, ClaimsBounded
  <2>6. JobFits'
    BY <2>1, <2>4 DEF LPInv, JobFits, Completed, KindFits, Answered, HasAnswer
  <2>7. Removed' /\ StoreKept'
    BY <2>1, <2>4 DEF LPInv, Removed, Completed, StoreKept
  <2>8. Repairable'
    BY <2>1 DEF LPInv, Repairable, Repairs, Completed
  <2> QED
    BY <2>2, <2>3, <2>5, <2>6, <2>7, <2>8 DEF LPInv, Recorded
<1> QED
  BY <1>1, <1>2, <1>3, <1>4, <1>5, <1>6, ReceivePreserves, ForgetPreserves, ApplyPreserves,
     WritePreserves, SavePreserves, CompletePreserves, FinalizePreserves, CrashPreserves
  DEF LPNext, ProviderStep

\* LPInv holds in every reachable state of provider and control plane.
THEOREM ProviderInvariant == LPSpec => []LPInv
<1> QED
  BY LPInitInvariant, LPStepInvariant, PTL DEF LPSpec

\* What the invariant says of the routes, the route file and the outbox.
LEMMA Consequences ==
    ASSUME LPInv
    PROVE  ProviderConsistent /\ CommandsAnswered
<1>1. RoutesToReady
  BY DEF LPInv, StoreKept, Kept, PROMOTABLE_DEPLOYMENT_STATUSES, RoutesToReady
<1>2. RouteFileRepaired
  BY DEF LPInv, Repairable, Repairs, RouteFileRepaired
<1>3. PublishedIsAnswered
  <2> SUFFICES ASSUME NEW i \in DOMAIN box, box[i].status = "published",
                      box[i].cmd.type \in {"deploy", "cancel"}
               PROVE  ~Current(box[i].cmd) /\ HasAnswer(box[i].cmd)
    BY DEF PublishedIsAnswered
  <2>1. HasAnswer(box[i].cmd)
    BY DEF LPInv, PublishedAnswered
  <2>2. Overtaken(box[i].cmd)
    BY <2>1 DEF HasAnswer, LPInv, ReceiptsFit
  <2>3. box[i].cmd \in commands /\ box[i].cmd.version \in Nat /\ box[i].cmd.id \in Deployments
    BY CommandNames DEF LPInv, BoxMatches, CPInv, CPTypeOK
  <2>4. dep[box[i].cmd.id].version \in Nat
    BY <2>3 DEF LPInv, CPInv, CPTypeOK, Deployment
  <2> QED
    BY <2>1, <2>2, <2>3, <2>4 DEF Overtaken, Current
<1>4. CancelingIsOpen
  <2> SUFFICES ASSUME NEW d \in Deployments, dep[d].status = "canceling"
               PROVE  \E i \in DOMAIN box : /\ box[i].cmd = CancelCommand(d, dep[d].version)
                                            /\ box[i].status # "published"
    BY DEF CancelingIsOpen
  <2> DEFINE c == CancelCommand(d, dep[d].version)
  <2>1. c \in commands
    BY DEF LPInv, CPInv, CancellationAnswerable
  <2>2. PICK i \in DOMAIN box : box[i].cmd = c
    BY <2>1 DEF LPInv, BoxMatches
  <2>3. Current(c) /\ c.type = "cancel"
    BY DEF Current, CancelCommand
  <2>4. box[i].status # "published"
    BY <1>3, <2>2, <2>3 DEF PublishedIsAnswered
  <2> QED
    BY <2>2, <2>4
<1>5. LPTypeOK
  BY DEF LPInv
<1> QED
  BY <1>1, <1>2, <1>3, <1>4, <1>5 DEF ProviderConsistent, CommandsAnswered

\* ProviderConsistent: whatever crashes, is lost, retried or late, Traefik sends
\* an alias only to a ready deployment that is neither canceled nor failed, and a
\* route file that lags behind will be written anew.
THEOREM ProviderStaysConsistent == LPSpec => []ProviderConsistent
<1> QED
  BY ProviderInvariant, Consequences, PTL

\* CommandsAnswered: a deployment or cancellation is settled only after Rails has
\* consumed its callback, and a deployment stays canceling only while its
\* cancellation is open or dead.
THEOREM CommandsStayAnswered == LPSpec => []CommandsAnswered
<1> QED
  BY ProviderInvariant, Consequences, PTL

\* CanceledAfterRemoval: when Rails takes a deployment to canceled, its container,
\* its revision, its mappings and its routes are gone.
THEOREM CanceledOnlyAfterRemoval == LPSpec => CanceledAfterRemoval
<1> DEFINE Gone(d) == /\ d \notin runtime
                      /\ d \notin store.revisions
                      /\ \A a \in Aliases : routes[a] # d /\ store.aliases[a] # d
           Step == \A d \in Deployments :
                      dep[d].status = "canceling" /\ dep'[d].status = "canceled" => Gone(d)
<1>1. ASSUME LPInv, [LPNext]_lpVars PROVE Step
  <2> SUFFICES ASSUME NEW d \in Deployments, dep[d].status = "canceling",
                      dep'[d].status = "canceled"
               PROVE  Gone(d)
    OBVIOUS
  <2>1. dep' # dep
    OBVIOUS
  <2>2. CASE UserStep
    BY <1>1, <2>2, UserEffects DEF UserStep, LPInv, UserEffect, Keeps
  <2>3. CASE job.pc = "callback" /\ Consume(Envelope)
    <3>1. Canceling(d)
      BY <1>1, <2>3, ConsumedDeployments, SMTT(40)
    <3> QED
      BY <1>1, <2>3, <3>1 DEF LPInv, Removed, Canceling
  <2>4. UserStep \/ (job.pc = "callback" /\ Consume(Envelope))
    BY <1>1, <2>1
    DEF LPNext, ProviderStep, Expire, Claim, Receive, RuntimeUnavailable, Ensure, Refuse,
        Probe, Remove, DockerStep, Forget, Apply, Write, Save, Complete, StoreStep,
        CallbackAnswered, CallbackRefused, CallbackLost, Finalize, Crash, lpVars, cpVars
  <2> QED
    BY <2>2, <2>3, <2>4
<1>2. LPInv /\ [LPNext]_lpVars => [Step]_lpVars
  BY <1>1
<1>3. CanceledAfterRemoval <=> [][Step]_lpVars
  BY DEF CanceledAfterRemoval
<1> HIDE DEF Step
<1> QED
  BY <1>2, <1>3, ProviderInvariant, PTL DEF LPSpec

\* The provider implements the control plane: each of its steps is one of the
\* control plane's, or leaves deployments, aliases and commands alone.
THEOREM ProviderRefinesControlPlane == LPSpec => CPSpec
<1>1. LPInit => CPInit
  BY DEF LPInit
<1>2. LPInv /\ [LPNext]_lpVars => [CPNext]_cpVars
  <2> SUFFICES ASSUME LPInv, [LPNext]_lpVars PROVE [CPNext]_cpVars
    OBVIOUS
  <2>1. CASE UserStep
    BY <2>1 DEF UserStep, CPNext
  <2>2. CASE job.pc = "callback" /\ Consume(Envelope)
    <3>1. cmd \in commands
      BY <2>2, AtCallback
    <3>2. UNCHANGED cpVars \/ ProviderNext(cmd)
      BY <2>2, ConsumedReceipts, SMTT(40)
    <3> QED
      BY <3>1, <3>2 DEF CPNext
  <2>3. UserStep \/ (job.pc = "callback" /\ Consume(Envelope)) \/ UNCHANGED cpVars
    BY DEF LPNext, ProviderStep, Expire, Claim, Receive, RuntimeUnavailable, Ensure, Refuse,
           Probe, Remove, DockerStep, Forget, Apply, Write, Save, Complete, StoreStep,
           CallbackAnswered, CallbackRefused, CallbackLost, Finalize, Crash, lpVars
  <2> QED
    BY <2>1, <2>2, <2>3
<1> QED
  BY <1>1, <1>2, ProviderInvariant, PTL DEF LPSpec, CPSpec

\* ServesOnlyLive, of the control plane the provider works for: with all its
\* crashes and repeated callbacks it serves only live deployments.
THEOREM ProviderServesOnlyLive == LPSpec => ServesOnlyLive
<1> QED
  BY ProviderRefinesControlPlane, Refinement, PTL
=============================================================================
