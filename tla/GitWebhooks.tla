------------------------------ MODULE GitWebhooks ------------------------------
(***************************************************************************)
(* The Git installation of an organization, the repository one of its      *)
(* services is connected to, and the inbox of webhook deliveries.  The     *)
(* provider changes the installation and its selection of repositories,    *)
(* and tells of it with deliveries that come late, repeatedly and in any   *)
(* order.  Ingest applies them, or keeps pushes for Consume, which makes   *)
(* deployments of them.  Both Connect services ask the provider first and  *)
(* save what they were told later.                                         *)
(***************************************************************************)
EXTENDS Naturals, Sequences, FiniteSets

CONSTANTS
    Repos,          \* repositories of the provider
    MaxEvents,      \* bound on what happens at the provider
    MaxConnects,    \* bound on connections asked for by users
    InOrder         \* deliveries come in order, and requests one at a time

GitAssumption ==
    /\ "none" \notin Repos
    /\ MaxEvents \in Nat /\ MaxConnects \in Nat
    /\ InOrder \in BOOLEAN

VARIABLES
    provider,   \* what the provider says of the installation
    selected,   \* the repositories it gives the installation
    gone,       \* the repositories that were deleted or transferred
    events,     \* events[i]: the delivery with id i
    inst,       \* git_installations: the status of the row
    conn,       \* repository_connections: the row of the service
    inbox,      \* inbox[i]: git_webhook_inboxes, the message of delivery i
    made,       \* made[i]: the deployment of delivery i exists
    ignored,    \* deliveries that came before the installation was known
    ingest,     \* requests between their look at the installation and the lock
    install,    \* GitInstallations::Connect: what the provider said
    link,       \* RepositoryConnections::Connect: what the provider said
    connects    \* how much of MaxConnects is spent

gitVars == <<provider, selected, gone, events, inst, conn, inbox, made, ignored,
          ingest, install, link, connects>>
atProvider == <<provider, selected, gone, events>>
rows == <<inst, conn, inbox, made>>

DeliveryIds == 1..MaxEvents
InstallationStatuses == {"active", "suspended", "disconnected"}
Lifecycle == {"connected", "suspended", "disconnected", "added", "removed", "gone"}
Deployable == {"push", "branch", "closed"}
NoConnection == [repo |-> "none", status |-> "none"]

GitTypeOK ==
    /\ provider \in InstallationStatuses
    /\ selected \subseteq Repos /\ gone \subseteq Repos
    /\ \A i \in DOMAIN events : events[i] \in [type : Lifecycle \cup Deployable,
                                               repo : Repos \cup {"none"}]
    /\ inst \in InstallationStatuses \cup {"none"}
    /\ conn = NoConnection \/ conn \in [repo : Repos, status : {"active", "removed", "disconnected"}]
    /\ inbox \in [DeliveryIds -> {"none", "pending", "processed", "failed"}]
    /\ made \in [DeliveryIds -> BOOLEAN]
    /\ \A i \in DeliveryIds : made[i] => inbox[i] = "processed" /\ events[i].type = "push"
    /\ ignored \subseteq DeliveryIds
    /\ ingest \subseteq [id : DeliveryIds, status : InstallationStatuses]
    /\ install \in InstallationStatuses \cup {"none"}
    /\ link \in Repos \cup {"none"}

GitInit ==
    /\ provider = "active"
    /\ selected \in SUBSET Repos
    /\ gone = {}
    /\ events = <<>>
    /\ inst = "none" /\ conn = NoConnection
    /\ inbox = [i \in DeliveryIds |-> "none"] /\ made = [i \in DeliveryIds |-> FALSE]
    /\ ignored = {} /\ ingest = {} /\ install = "none" /\ link = "none"
    /\ connects = 0

Sent == DOMAIN events
Quiet == ingest = {} /\ install = "none" /\ link = "none"
-----------------------------------------------------------------------------
\* At the provider.
Emit(type, repo) ==
    /\ Len(events) < MaxEvents
    /\ events' = Append(events, [type |-> type, repo |-> repo])
    /\ UNCHANGED <<rows, ignored, ingest, install, link, connects>>

StatusChanges ==
    /\ \/ provider = "active" /\ provider' = "suspended" /\ Emit("suspended", "none")
       \/ provider = "suspended" /\ provider' = "active" /\ Emit("connected", "none")
       \/ provider # "disconnected" /\ provider' = "disconnected" /\ Emit("disconnected", "none")
    /\ UNCHANGED <<selected, gone>>

SelectionChanges(r) ==
    /\ provider # "disconnected"
    /\ \/ r \notin selected \cup gone /\ selected' = selected \cup {r} /\ gone' = gone /\ Emit("added", r)
       \/ r \in selected /\ selected' = selected \ {r} /\ gone' = gone /\ Emit("removed", r)
       \/ r \in selected /\ selected' = selected \ {r} /\ gone' = gone \cup {r} /\ Emit("gone", r)
    /\ UNCHANGED provider

\* Somebody pushes to a branch with an environment, or to one without, or
\* closes a pull request.
Push(r, type) ==
    /\ provider = "active" /\ r \in selected
    /\ Emit(type, r)
    /\ UNCHANGED <<provider, selected, gone>>
-----------------------------------------------------------------------------
\* Ingest looks the installation up before it locks the delivery.  A delivery
\* can come again at any time; in order, it is the next one, or one that is in
\* the inbox.
Comes(i) ==
    /\ i \in Sent
    /\ InOrder => /\ Quiet
                  /\ \/ inbox[i] # "none"
                     \/ /\ i \notin ignored
                        /\ \A j \in 1..(i - 1) : j \in ignored \/ inbox[j] # "none"

Load(i) ==
    /\ Comes(i)
    /\ Cardinality(ingest) < 2
    /\ IF inst = "none"
       THEN ignored' = ignored \cup {i} /\ UNCHANGED ingest
       ELSE ingest' = ingest \cup {[id |-> i, status |-> inst]} /\ UNCHANGED ignored
    /\ UNCHANGED <<atProvider, rows, install, link, connects>>

\* Mutant: a delivery is not looked for in the inbox.
NeverKnown(i) == FALSE

Known(i) == inbox[i] # "none"

\* update!: a row that was read with the value that is to be written is left
\* as it is, whatever it has come to be since.
Updated(read, status) == IF read = status THEN inst ELSE status

\* Mutant: only the installation is marked when it is disconnected.
ConnectionsSelected(e) ==
    CASE e.repo = conn.repo /\ e.type = "added" -> [conn EXCEPT !.status = "active"]
      [] e.repo = conn.repo /\ e.type \in {"removed", "gone"} -> [conn EXCEPT !.status = "removed"]
      [] OTHER -> conn

\* apply_repository_selection!, apply_repository_change!, and the connections
\* of a disconnected installation.  (A new name changes nothing here.)
Connections(e) ==
    CASE e.type = "disconnected" /\ conn # NoConnection -> [conn EXCEPT !.status = "disconnected"]
      [] e.repo = conn.repo /\ e.type = "added" -> [conn EXCEPT !.status = "active"]
      [] e.repo = conn.repo /\ e.type \in {"removed", "gone"} -> [conn EXCEPT !.status = "removed"]
      [] OTHER -> conn

Installation(e, read) ==
    CASE e.type = "connected" -> Updated(read, "active")
      [] e.type \in {"suspended", "disconnected"} -> Updated(read, e.type)
      [] OTHER -> inst

\* The transaction of Ingest, under the lock of the delivery.
Commit(q) ==
    /\ q \in ingest
    /\ ingest' = ingest \ {q}
    /\ IF Known(q.id)
       THEN UNCHANGED rows
       ELSE /\ inbox' = [inbox EXCEPT ![q.id] = IF events[q.id].type \in Lifecycle
                                                THEN "processed" ELSE "pending"]
            /\ inst' = Installation(events[q.id], q.status)
            /\ conn' = Connections(events[q.id])
            /\ UNCHANGED made
    /\ UNCHANGED <<atProvider, ignored, install, link, connects>>

\* The request dies between the two.
Dies(q) ==
    /\ q \in ingest
    /\ ingest' = ingest \ {q}
    /\ UNCHANGED <<atProvider, rows, ignored, install, link, connects>>
-----------------------------------------------------------------------------
\* Mutant: a message that failed is taken up again.
SettledIfProcessed(i) == inbox[i] = "processed"

MessageSettled(i) == inbox[i] \in {"processed", "failed"}

\* active_connection
Connected(r) == conn = [repo |-> r, status |-> "active"]

\* Consume, one transaction under the lock of the message.  Whoever calls it
\* may call it again.
Consume(i) ==
    /\ i \in Sent /\ Known(i)
    /\ InOrder => Quiet
    /\ LET e == events[i] IN
       CASE MessageSettled(i) -> UNCHANGED <<inbox, made>>
         [] ~MessageSettled(i) /\ e.type = "closed" ->
               inbox' = [inbox EXCEPT ![i] = "processed"] /\ UNCHANGED made
         [] ~MessageSettled(i) /\ e.type # "closed" /\ ~Connected(e.repo) ->
               inbox' = [inbox EXCEPT ![i] = "failed"] /\ UNCHANGED made
         [] OTHER ->
               /\ inbox' = [inbox EXCEPT ![i] = "processed"]
               /\ made' = [made EXCEPT ![i] = e.type = "push"]
    /\ UNCHANGED <<atProvider, inst, conn, ignored, ingest, install, link, connects>>
-----------------------------------------------------------------------------
Begins ==
    /\ InOrder => Quiet
    /\ connects < MaxConnects
    /\ connects' = connects + 1

\* GitInstallations::Connect asks the provider; a deleted installation is not
\* found there.
InstallAsk ==
    /\ Begins
    /\ install = "none" /\ provider # "disconnected"
    /\ install' = provider
    /\ UNCHANGED <<atProvider, rows, ignored, ingest, link>>

InstallSave ==
    /\ install # "none"
    /\ inst' = install
    /\ install' = "none"
    /\ UNCHANGED <<atProvider, conn, inbox, made, ignored, ingest, link, connects>>

\* open_session and repository: the provider gives tokens for an active
\* installation and repositories it has selected.
Opens(r) == provider = "active" /\ r \in selected

LinkAsk(r) ==
    /\ Begins
    /\ link = "none" /\ inst # "none"
    /\ Opens(r)
    /\ link' = r
    /\ UNCHANGED <<atProvider, rows, ignored, ingest, install>>

LinkSave ==
    /\ link # "none"
    /\ conn' = [repo |-> link, status |-> "active"]
    /\ link' = "none"
    /\ UNCHANGED <<atProvider, inst, inbox, made, ignored, ingest, install, connects>>
-----------------------------------------------------------------------------
GitNext ==
    \/ StatusChanges
    \/ \E r \in Repos : \/ SelectionChanges(r)
                        \/ \E type \in Deployable : Push(r, type)
                        \/ LinkAsk(r)
    \/ \E i \in DeliveryIds : Load(i) \/ Consume(i)
    \/ \E q \in ingest : Commit(q) \/ Dies(q)
    \/ InstallAsk \/ InstallSave \/ LinkSave

GitSpec == GitInit /\ [][GitNext]_gitVars
-----------------------------------------------------------------------------
\* What the properties rest on.  The events a provider tells of say what became
\* of it: the last one of a kind is what holds, and nothing comes after the
\* installation is disconnected.
Event == [type : Lifecycle \cup Deployable, repo : Repos \cup {"none"}]
TellsStatus(e) == e.type \in {"connected", "suspended", "disconnected"}
TellsOf(e, r) ==
    \/ e.type = "disconnected"
    \/ e.type \in {"added", "removed", "gone"} /\ e.repo = r
StatusOf(e) == IF e.type = "connected" THEN "active" ELSE e.type
Available(r) == provider # "disconnected" /\ r \in selected

HistoryInv ==
    /\ events \in Seq(Event) /\ Len(events) <= MaxEvents
    /\ \A i \in Sent :
         /\ events[i].type = "disconnected" => i = Len(events) /\ provider = "disconnected"
         /\ events[i].type \in {"added", "removed", "gone"} => events[i].repo \in Repos
         /\ TellsStatus(events[i]) /\ (\A j \in Sent : j > i => ~TellsStatus(events[j]))
              => provider = StatusOf(events[i])
         /\ \A r \in Repos :
              TellsOf(events[i], r) /\ (\A j \in Sent : j > i => ~TellsOf(events[j], r))
                => (Available(r) <=> events[i].type = "added")
    /\ \A i \in DeliveryIds : inbox[i] # "none" => i \in Sent
    /\ ignored \subseteq Sent
    /\ \A q \in ingest : q.id \in Sent
    /\ install # "disconnected"

GitInv == GitTypeOK /\ HistoryInv

\* In order, deliveries are taken from the first to the last, one request at a
\* time; what Rails knows, or is about to save, is what holds, unless there is
\* a delivery to come that will say so.
Taken(i) == i \in ignored \/ inbox[i] # "none"
StatusToCome == \E i \in Sent : ~Taken(i) /\ TellsStatus(events[i])
ToCome(r) == \E i \in Sent : ~Taken(i) /\ TellsOf(events[i], r)

OneRequest ==
    /\ \A q \in ingest : ingest = {q}
    /\ ingest # {} => install = "none" /\ link = "none"
    /\ install # "none" => link = "none"

TakenInOrder ==
    /\ \A i \in Sent : Taken(i) => \A j \in 1..(i - 1) : Taken(j)
    /\ \A q \in ingest :
         /\ q.status = inst
         /\ inbox[q.id] = "none" => q.id \notin ignored /\ \A j \in 1..(q.id - 1) : Taken(j)

FollowInv ==
    /\ OneRequest /\ TakenInOrder
    /\ inst = "none" => conn = NoConnection /\ link = "none" /\ ingest = {}
    /\ inst # "none" => inst = provider \/ StatusToCome
    /\ install # "none" => install = provider \/ StatusToCome
    /\ conn # NoConnection =>
         (conn.status = "active" <=> Available(conn.repo)) \/ ToCome(conn.repo)
    /\ link # "none" => Available(link) \/ ToCome(link)
    /\ inst = "disconnected" =>
         /\ events # <<>> /\ Taken(Len(events)) /\ events[Len(events)].type = "disconnected"
         /\ conn.status # "active" /\ link = "none"
-----------------------------------------------------------------------------
\* A delivery is applied once, however often it comes: what Rails knows of the
\* installation and of the repository changes only with a delivery that was
\* not in the inbox, or with a connection a user asked for.
AppliedOnce ==
    inst' # inst \/ conn' # conn
      => \/ install' # install \/ link' # link
         \/ \E i \in DeliveryIds : inbox[i] = "none" /\ inbox'[i] # "none"

\* The outcome of a message is final: one that failed, or was acknowledged
\* without a deployment, is never deployed by a later call of Consume, even if
\* the repository has been connected since.
OutcomeStands ==
    \A i \in DeliveryIds : inbox[i] \in {"processed", "failed"}
        => inbox'[i] = inbox[i] /\ made'[i] = made[i]

\* When every delivery has been taken and nobody is connecting anything, Rails
\* knows what the provider says: the status of the installation, and whether
\* the repository of the service can be read.
AllTaken == Quiet /\ \A i \in Sent : i \in ignored \/ inbox[i] # "none"

StatusFollowsProvider ==
    AllTaken /\ inst # "none"
      => /\ inst = provider
         /\ conn # NoConnection
              => (conn.status = "active" <=> provider # "disconnected" /\ conn.repo \in selected)

\* When Rails takes deliveries in order, it knows what the provider says once it
\* has taken all (services/git_webhooks/ingest.rb, services/repository_connections).
DeliveriesFollow == InOrder => StatusFollowsProvider

\* A push is not deployed once Rails knows that the installation is
\* disconnected.
DisconnectedFailsClosed ==
    inst = "disconnected" => made' = made

\* What was settled is not done again: a delivery is applied once, the outcome
\* of a message is final, and, in order, nothing is deployed for an installation
\* that Rails knows to be disconnected.
NothingIsRedone == AppliedOnce /\ OutcomeStands /\ (InOrder => DisconnectedFailsClosed)

\* What Rails makes of webhooks, at every moment and in every step, and that its
\* rows hold what they may however deliveries come.
WebhooksFollow == [](GitTypeOK /\ DeliveriesFollow) /\ [][NothingIsRedone]_gitVars
=============================================================================
