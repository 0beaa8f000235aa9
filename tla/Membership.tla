------------------------------ MODULE Membership ------------------------------
(***************************************************************************)
(* Users, teams, memberships and invitations (src/app), and the jobs that  *)
(* delete a user or a team with what belongs to them.                      *)
(*                                                                         *)
(* What a form checks is read before the row is written, team_member has   *)
(* no unique constraint, and the jobs work while the pages are in use.     *)
(***************************************************************************)
EXTENDS Naturals, Sequences, FiniteSets

CONSTANTS
  Users,     \* people, each with an address of their own
  Teams, TeamProjects, Invites, TeamRequests,
  Nobody,
  Forms,     \* the forms that are submitted
  Overlap,   \* FALSE: a request or a job begins when the last one has ended
  MaxJobs    \* bound: jobs ever enqueued

MembershipAssumption ==
  /\ Nobody \notin Users \cup Teams \cup Invites /\ "gone" \notin Teams
  /\ Overlap \in BOOLEAN /\ MaxJobs \in Nat

VARIABLES
  user,     \* the User rows: status and default team
  team,     \* the Team rows: "none", "active", "gone"
  members,  \* team -> user -> the roles of their TeamMember rows, oldest first
  project,  \* project -> the team it belongs to, or Nobody
  invite,   \* the TeamInvite rows
  request,  \* what each request has checked
  jobs,     \* the deletion jobs, in the order they were enqueued
  joined    \* <<user, invitation>> that made a membership (history)

membersVars == <<user, team, members, project, invite, request, jobs, joined>>

NoUser == [status |-> "none", home |-> Nobody]
NoInvite == [team |-> Nobody, to |-> Nobody, role |-> Nobody, by |-> Nobody, status |-> "none",
             expired |-> FALSE]
NoRequest == [op |-> "idle", actor |-> Nobody, team |-> Nobody, user |-> Nobody, role |-> Nobody,
              invite |-> Nobody]

MembersInit ==
  /\ user = [u \in Users |-> NoUser] /\ team = [t \in Teams |-> "none"]
  /\ members = [t \in Teams |-> [u \in Users |-> <<>>]]
  /\ project = [p \in TeamProjects |-> Nobody]
  /\ invite = [i \in Invites |-> NoInvite]
  /\ request = [r \in TeamRequests |-> NoRequest]
  /\ jobs = <<>> /\ joined = {}

---------------------------------------------------------------------------
Present(u) == user[u].status # "none"
IsMember(t, u) == members[t][u] # <<>>
RoleOf(t, u) == IF IsMember(t, u) THEN Head(members[t][u]) ELSE Nobody
Manages(t, u) == Present(u) /\ RoleOf(t, u) \in {"owner", "admin"}
Owners(t) == {u \in Users : \E n \in DOMAIN members[t][u] : members[t][u][n] = "owner"}
OwnerRows(t, u) == Cardinality({n \in DOMAIN members[t][u] : members[t][u][n] = "owner"})
ProjectsOf(t) == {p \in TeamProjects : project[p] = t}
Join(m, t, u, role) == [m EXCEPT ![t][u] = Append(@, role)]

AtRest(j) == jobs[j].at \in {"queued", "done", "failed"}
\* A step of a request or a job that begins one.
MayBegin == Overlap \/ (/\ \A r \in TeamRequests : request[r] = NoRequest
                        /\ \A j \in DOMAIN jobs : AtRest(j))
Begin(r, what) == MayBegin /\ request[r] = NoRequest /\ request' = [request EXCEPT ![r] = what]
End(r) == request' = [request EXCEPT ![r] = NoRequest]
Checked(r, op) == request[r].op = op

\* _create_user_with_team, in the transaction of its caller: the user, their
\* team, their membership.  The address of a user is unique.
WithUser(u, t) ==
  /\ ~Present(u) /\ team[t] = "none"
  /\ user' = [user EXCEPT ![u] = [status |-> "active", home |-> t]]
  /\ team' = [team EXCEPT ![t] = "active"]

---------------------------------------------------------------------------
(* Sign-up                                                                 *)

\* A verified link, GitHub or Google name a user nobody has yet.
BeginSignUp(r, u) ==
  /\ "sign_up" \in Forms /\ ~Present(u)
  /\ Begin(r, [NoRequest EXCEPT !.op = "sign_up", !.user = u])
  /\ UNCHANGED <<user, team, members, project, invite, jobs, joined>>

SignUp(r) ==
  LET u == request[r].user IN
  /\ Checked(r, "sign_up") /\ End(r)
  /\ IF Present(u) THEN UNCHANGED <<user, team, members>>
     ELSE \E t \in Teams : WithUser(u, t) /\ members' = Join(members, t, u, "owner")
  /\ UNCHANGED <<project, invite, jobs, joined>>

NewTeam(u, t) ==
  /\ "new_team" \in Forms /\ MayBegin /\ Present(u) /\ team[t] = "none"
  /\ team' = [team EXCEPT ![t] = "active"] /\ members' = Join(members, t, u, "owner")
  /\ UNCHANGED <<user, project, invite, request, jobs, joined>>

\* "first_project": only before anything is deleted.
NewProject(t, p) ==
  /\ "new_project" \in Forms \/ ("first_project" \in Forms /\ jobs = <<>>)
  /\ MayBegin /\ team[t] = "active" /\ project[p] = Nobody
  /\ \E u \in Users : Present(u) /\ IsMember(t, u)
  /\ project' = [project EXCEPT ![p] = t]
  /\ UNCHANGED <<user, team, members, invite, request, jobs, joined>>

---------------------------------------------------------------------------
(* Invitations                                                             *)

\* Mutant: an invitation that is open is not looked for.
NeverInvited(t, u) == FALSE
Invited(t, u) ==
  \E i \in Invites : /\ invite[i].team = t /\ invite[i].to = u
                     /\ invite[i].status = "pending" /\ ~invite[i].expired

\* TeamMemberAddForm: not a member, no invitation that is still open.
BeginInvite(r, a, t, u, role) ==
  /\ "add_member" \in Forms /\ Manages(t, a) /\ ~IsMember(t, u) /\ ~Invited(t, u)
  /\ Begin(r, [NoRequest EXCEPT !.op = "add_member", !.actor = a, !.team = t, !.user = u,
                               !.role = role])
  /\ UNCHANGED <<user, team, members, project, invite, jobs, joined>>

Invite(r) ==
  LET q == request[r] IN
  /\ Checked(r, "add_member") /\ End(r)
  /\ IF team[q.team] = "active" /\ Present(q.actor)
     THEN \E i \in Invites :
            /\ invite[i].status = "none"
            /\ invite' = [invite EXCEPT ![i] = [team |-> q.team, to |-> q.user, role |-> q.role,
                            by |-> q.actor, status |-> "pending", expired |-> FALSE]]
     ELSE UNCHANGED invite
  /\ UNCHANGED <<user, team, members, project, jobs, joined>>

\* After 30 days.
Expire(i) ==
  /\ invite[i].status = "pending" /\ ~invite[i].expired
  /\ invite' = [invite EXCEPT ![i].expired = TRUE]
  /\ UNCHANGED <<user, team, members, project, request, jobs, joined>>

\* The row is deleted.
Revoke(a, i) ==
  /\ "revoke_member_invite" \in Forms /\ MayBegin
  /\ invite[i].status \in {"pending", "accepted"} /\ Manages(invite[i].team, a)
  /\ invite' = [invite EXCEPT ![i].status = "gone"]
  /\ UNCHANGED <<user, team, members, project, request, jobs, joined>>

BeginAccept(r, i) ==
  /\ invite[i].status = "pending" /\ ~invite[i].expired
  /\ Begin(r, [NoRequest EXCEPT !.op = "accept", !.user = invite[i].to, !.invite = i])
  /\ UNCHANGED <<user, team, members, project, invite, jobs, joined>>

\* From the notifications of a user who is signed in.
AcceptNotified(r, i) == "notification" \in Forms /\ BeginAccept(r, i) /\ Present(invite[i].to)
\* By the mailed link: a membership is looked for when the user is signed in.
AcceptLink(r, i, signedIn) ==
  /\ "link" \in Forms /\ BeginAccept(r, i)
  /\ signedIn => Present(invite[i].to) /\ ~IsMember(invite[i].team, invite[i].to)

\* Mutant: an invitation that was revoked is accepted.
AcceptRevoked(r) ==
  LET i == request[r].invite
      u == request[r].user
      t == invite[i].team
  IN /\ Checked(r, "accept") /\ End(r) /\ Present(u) /\ team[t] = "active"
     /\ joined' = joined \cup {<<u, i>>}
     /\ members' = Join(members, t, u, invite[i].role)
     /\ UNCHANGED <<user, team, invite, project, jobs>>
\* The UPDATE of an invitation that was revoked fails, the request with it; the
\* link makes the user who has no account yet.
Accept(r) ==
  LET i == request[r].invite
      u == request[r].user
      t == invite[i].team
  IN /\ Checked(r, "accept") /\ End(r)
     /\ IF invite[i].status = "gone" \/ team[t] # "active"
        THEN UNCHANGED <<user, team, members, invite, joined>>
        ELSE /\ invite' = [invite EXCEPT ![i].status = "accepted"]
             /\ joined' = joined \cup {<<u, i>>}
             /\ IF Present(u)
                THEN members' = Join(members, t, u, invite[i].role) /\ UNCHANGED <<user, team>>
                ELSE \E h \in Teams :
                       /\ WithUser(u, h)
                       /\ members' = Join(Join(members, h, u, "owner"), t, u, invite[i].role)
     /\ UNCHANGED <<project, jobs>>

---------------------------------------------------------------------------
(* Members                                                                 *)

\* Mutant: an owner becomes something else without a look at the others.
BeginRoleAnyway(r, a, t, u, role) ==
  /\ "member_role" \in Forms /\ Manages(t, a) /\ IsMember(t, u)
  /\ Begin(r, [NoRequest EXCEPT !.op = "member_role", !.team = t, !.user = u, !.role = role])
  /\ UNCHANGED <<user, team, members, project, invite, jobs, joined>>
\* TeamMemberRoleForm: an owner becomes something else when there is another one.
BeginRole(r, a, t, u, role) ==
  /\ "member_role" \in Forms /\ Manages(t, a) /\ IsMember(t, u)
  /\ RoleOf(t, u) = "owner" /\ role # "owner" => Owners(t) \ {u} # {}
  /\ Begin(r, [NoRequest EXCEPT !.op = "member_role", !.team = t, !.user = u, !.role = role])
  /\ UNCHANGED <<user, team, members, project, invite, jobs, joined>>

ChangeRole(r) ==
  LET t == request[r].team
      u == request[r].user
  IN /\ Checked(r, "member_role") /\ End(r)
     /\ members' = IF IsMember(t, u) THEN [members EXCEPT ![t][u][1] = request[r].role] ELSE members
     /\ UNCHANGED <<user, team, project, invite, jobs, joined>>

\* The page disables the button beside the only owner; the request asks for no
\* more than a member.
BeginRemove(r, a, t, u) ==
  /\ "delete_member" \in Forms /\ Manages(t, a) /\ IsMember(t, u)
  /\ Begin(r, [NoRequest EXCEPT !.op = "delete_member", !.team = t, !.user = u])
  /\ UNCHANGED <<user, team, members, project, invite, jobs, joined>>

RemoveMember(r) ==
  LET t == request[r].team
      u == request[r].user
  IN /\ Checked(r, "delete_member") /\ End(r)
     /\ members' = IF IsMember(t, u) THEN [members EXCEPT ![t][u] = Tail(@)] ELSE members
     /\ UNCHANGED <<user, team, project, invite, jobs, joined>>

\* Mutant: a team is left without a look at its owners.
BeginLeaveAnyway(r, u, t) ==
  /\ "leave_team" \in Forms /\ Present(u) /\ user[u].home # t
  /\ Begin(r, [NoRequest EXCEPT !.op = "leave_team", !.team = t, !.user = u])
  /\ UNCHANGED <<user, team, members, project, invite, jobs, joined>>
\* A user leaves a team that is not their default and has another owner.
BeginLeave(r, u, t) ==
  /\ "leave_team" \in Forms /\ Present(u) /\ user[u].home # t /\ Owners(t) \ {u} # {}
  /\ Begin(r, [NoRequest EXCEPT !.op = "leave_team", !.team = t, !.user = u])
  /\ UNCHANGED <<user, team, members, project, invite, jobs, joined>>

\* With every row.
LeaveTeam(r) ==
  LET t == request[r].team
      u == request[r].user
  IN /\ Checked(r, "leave_team") /\ End(r)
     /\ members' = [members EXCEPT ![t][u] = <<>>]
     /\ UNCHANGED <<user, team, project, invite, jobs, joined>>

---------------------------------------------------------------------------
(* Deletion                                                                *)

Job(kind, id) == [kind |-> kind, id |-> id, at |-> "queued", teams |-> {}, team |-> Nobody,
                  left |-> {}]
EnqueueJob(kind, id) == Len(jobs) < MaxJobs /\ jobs' = Append(jobs, Job(kind, id))

\* Not the default team of somebody.  Only the form is marked as deleted.
DeleteTeam(a, t) ==
  /\ "delete_team" \in Forms /\ MayBegin /\ team[t] = "active"
  /\ Present(a) /\ RoleOf(t, a) = "owner" /\ \A u \in Users : user[u].home # t
  /\ EnqueueJob("team", t)
  /\ UNCHANGED <<user, team, members, project, invite, request, joined>>

DeleteUser(u) ==
  /\ "delete_user" \in Forms /\ MayBegin /\ user[u].status = "active"
  /\ user' = [user EXCEPT ![u].status = "deleted"] /\ EnqueueJob("user", u)
  /\ UNCHANGED <<team, members, project, invite, request, joined>>

Move(j, to) == jobs' = [jobs EXCEPT ![j] = to]
Place(j, step) == [jobs[j] EXCEPT !.at = step]

\* Mutant: the projects stay.
EnterAtOnce(j, t) == [jobs[j] EXCEPT !.at = "projects", !.team = t, !.left = {}]
\* delete_team reads the projects of the team once.
Enter(j, t) == [jobs[j] EXCEPT !.at = "projects", !.team = t, !.left = ProjectsOf(t)]

TakeTeam(j) ==
  /\ jobs[j].kind = "team" /\ jobs[j].at = "queued" /\ MayBegin
  /\ Move(j, IF team[jobs[j].id] = "active" THEN Enter(j, jobs[j].id) ELSE Place(j, "done"))
  /\ UNCHANGED <<user, team, members, project, invite, request, joined>>

\* Mutant: every team the user owns goes, whoever else owns it.
SoleOwnedAny(u) == {t \in Teams : u \in Owners(t)}
\* delete_user: the teams of which the user is the only owner.
SoleOwned(u) == {t \in Teams : Owners(t) = {u} /\ OwnerRows(t, u) = 1}

TakeUser(j) ==
  LET u == jobs[j].id IN
  /\ jobs[j].kind = "user" /\ jobs[j].at = "queued" /\ MayBegin
  /\ Move(j, IF Present(u) THEN [Place(j, "teams") EXCEPT !.teams = SoleOwned(u)]
             ELSE Place(j, "done"))
  /\ UNCHANGED <<user, team, members, project, invite, request, joined>>

NextTeam(j) ==
  /\ jobs[j].at = "teams"
  /\ \E t \in jobs[j].teams :
       Move(j, IF team[t] = "active" THEN Enter(j, t)
               ELSE [jobs[j] EXCEPT !.teams = @ \ {t}])
  /\ UNCHANGED <<user, team, members, project, invite, request, joined>>

\* delete_project raises when the project is gone, and the job fails with it.
DeleteProject(j) ==
  /\ jobs[j].at = "projects"
  /\ \E p \in jobs[j].left :
       IF project[p] = jobs[j].team
       THEN /\ project' = [project EXCEPT ![p] = "gone"]
            /\ Move(j, [jobs[j] EXCEPT !.left = @ \ {p}])
       ELSE Move(j, Place(j, "failed")) /\ UNCHANGED project
  /\ UNCHANGED <<user, team, members, invite, request, joined>>

Without(t, keep(_)) ==
  [i \in Invites |-> IF keep(i) THEN invite[i] ELSE [invite[i] EXCEPT !.status = "gone"]]

\* Mutant: the default team of its users is left.
FinishTeamOnly(j) ==
  LET t == jobs[j].team IN
  /\ jobs[j].at = "projects" /\ jobs[j].left = {}
  /\ team' = [team EXCEPT ![t] = "gone"]
  /\ members' = [members EXCEPT ![t] = [u \in Users |-> <<>>]]
  /\ Move(j, IF jobs[j].kind = "team" THEN Place(j, "done")
             ELSE [Place(j, "teams") EXCEPT !.teams = @ \ {t}])
  /\ UNCHANGED <<user, project, invite, request, joined>>
\* Members, invitations, defaults and the team are one transaction, which a
\* project made meanwhile fails.
FinishTeam(j) ==
  LET t == jobs[j].team IN
  /\ jobs[j].at = "projects" /\ jobs[j].left = {}
  /\ IF ProjectsOf(t) # {}
     THEN Move(j, Place(j, "failed")) /\ UNCHANGED <<user, team, members, invite>>
     ELSE /\ team' = [team EXCEPT ![t] = "gone"]
          /\ members' = [members EXCEPT ![t] = [u \in Users |-> <<>>]]
          /\ invite' = Without(t, LAMBDA i : invite[i].team # t)
          /\ user' = [u \in Users |-> IF user[u].home = t THEN [user[u] EXCEPT !.home = Nobody]
                                                  ELSE user[u]]
          /\ Move(j, IF jobs[j].kind = "team" THEN Place(j, "done")
                     ELSE [Place(j, "teams") EXCEPT !.teams = @ \ {t}])
  /\ UNCHANGED <<project, request, joined>>

\* The user goes with their memberships, invitations and identities.
FinishUser(j) ==
  LET u == jobs[j].id IN
  /\ jobs[j].at = "teams" /\ jobs[j].teams = {}
  /\ user' = [user EXCEPT ![u] = NoUser]
  /\ members' = [t \in Teams |-> [members[t] EXCEPT ![u] = <<>>]]
  /\ invite' = Without(u, LAMBDA i : invite[i].by # u /\ invite[i].to # u)
  /\ Move(j, Place(j, "done"))
  /\ UNCHANGED <<team, project, request, joined>>

---------------------------------------------------------------------------
Work(j) ==
  TakeTeam(j) \/ TakeUser(j) \/ NextTeam(j) \/ DeleteProject(j) \/ FinishTeam(j) \/ FinishUser(j)
Answer(r) == SignUp(r) \/ Invite(r) \/ Accept(r) \/ ChangeRole(r) \/ RemoveMember(r) \/ LeaveTeam(r)
Roles == {"owner", "admin", "member"}

MembersNext ==
  \/ \E r \in TeamRequests :
       \/ Answer(r)
       \/ \E u \in Users : BeginSignUp(r, u)
       \/ \E i \in Invites : AcceptNotified(r, i) \/ \E in \in BOOLEAN : AcceptLink(r, i, in)
       \/ \E a, u \in Users, t \in Teams :
            \/ BeginRemove(r, a, t, u)
            \/ a = u /\ BeginLeave(r, u, t)
            \/ \E role \in Roles : BeginRole(r, a, t, u, role)
            \/ \E role \in {"admin", "member"} : BeginInvite(r, a, t, u, role)
  \/ \E u \in Users : DeleteUser(u) \/ \E t \in Teams : NewTeam(u, t) \/ DeleteTeam(u, t)
  \/ \E t \in Teams, p \in TeamProjects : NewProject(t, p)
  \/ \E i \in Invites : Expire(i) \/ \E a \in Users : Revoke(a, i)
  \/ \E j \in DOMAIN jobs : Work(j)

MembersSpec == MembersInit /\ [][MembersNext]_membersVars
\* The worker goes on with its jobs, a request that was sent is answered.
MembersFairness == /\ \A r \in TeamRequests : WF_membersVars(Answer(r))
            /\ \A j \in 1..MaxJobs : WF_membersVars(j \in DOMAIN jobs /\ Work(j))

---------------------------------------------------------------------------
(* Properties                                                              *)

\* Rows refer to rows that exist.
MembershipTypeOK ==
  /\ \A u \in Users : /\ user[u].status \in {"none", "active", "deleted"}
                      /\ user[u].home # Nobody => team[user[u].home] = "active"
  /\ \A t \in Teams, u \in Users : IsMember(t, u) =>
       /\ team[t] = "active" /\ Present(u)
       /\ \A n \in DOMAIN members[t][u] : members[t][u][n] \in Roles
  /\ \A i \in Invites : invite[i].status \in {"pending", "accepted"} =>
       team[invite[i].team] = "active" /\ Present(invite[i].by)
  /\ \A p \in TeamProjects : project[p] \in Teams => team[project[p]] = "active"
  /\ \A r \in TeamRequests : request[r].team \in Teams \cup {Nobody}

\* "There must be at least one owner." (forms/team.py).  The form that removes a
\* member does not see to it (routers/team.py): one request is enough to break it.
TeamHasOwner == \A t \in Teams : team[t] = "active" => Owners(t) # {}

\* "You are already a member of this team.": nobody is a member of a team twice.
OneMembership == \A t \in Teams, u \in Users : Len(members[t][u]) <= 1

\* Rows refer to rows there are, also while a team or a user is being deleted,
\* and, when requests and jobs come one after the other, nobody is a member of a
\* team twice (routers/team.py, workers/tasks/team.py, workers/tasks/user.py).
TeamsConsistent == MembershipTypeOK /\ (~Overlap => OneMembership)

\* An invitation that was revoked makes nobody a member any more, also when it
\* is being accepted.
RevokedStaysOut ==
  \A u \in Users, i \in Invites : invite[i].status = "gone" /\ <<u, i>> \notin joined
                                   => <<u, i>> \notin joined'

\* A user is not lost with a team that has another owner: who goes is a user who
\* asked, and what goes is a team somebody asked for or that would have no owner.
OnlyAskedGoes ==
  /\ \A u \in Users : Present(u) /\ ~Present(u)' => user[u].status = "deleted"
  /\ \A t \in Teams : team[t] = "active" /\ team'[t] = "gone" =>
       \E j \in DOMAIN jobs : /\ jobs[j] # jobs'[j]
                              /\ jobs[j].kind = "user" => Owners(t) \subseteq {jobs[j].id}

\* A team that stays loses its last owner by no form and no job but the one that
\* removes a member: roles that change, users that leave and users that are
\* deleted leave an owner behind.
OwnersStay ==
  \A t \in Teams : team[t] = "active" /\ team'[t] = "active" /\ Owners(t) # {} /\ Owners(t)' = {} =>
    \E r \in TeamRequests : /\ Checked(r, "delete_member") /\ request[r].team = t
                            /\ request'[r] = NoRequest

\* Nobody joins by an invitation that was revoked, whatever overlaps; and while
\* nothing does, who goes and what goes was asked to, and teams keep their owners.
PeopleGoAsAsked ==
  [][RevokedStaysOut /\ (~Overlap => OnlyAskedGoes /\ OwnersStay)]_membersVars
---------------------------------------------------------------------------
(***************************************************************************)
(* The inductive invariant.                                                *)
(***************************************************************************)
UserRows == [status : {"none", "active", "deleted"}, home : Teams \cup {Nobody}]
InviteRows == [team : Teams \cup {Nobody}, to : Users \cup {Nobody}, by : Users \cup {Nobody},
               role : {"admin", "member", Nobody},
               status : {"none", "pending", "accepted", "gone"}, expired : BOOLEAN]
RequestRecords ==
  [op : {"idle", "sign_up", "add_member", "accept", "member_role", "delete_member",
         "leave_team"},
   actor : Users \cup {Nobody}, team : Teams \cup {Nobody}, user : Users \cup {Nobody},
   role : Roles \cup {Nobody}, invite : Invites \cup {Nobody}]
JobRecords == [kind : {"team", "user"}, id : Users \cup Teams,
               at : {"queued", "teams", "projects", "done", "failed"},
               teams : SUBSET Teams, team : Teams \cup {Nobody}, left : SUBSET TeamProjects]

RowsShaped ==
  /\ user \in [Users -> UserRows] /\ team \in [Teams -> {"none", "active", "gone"}]
  /\ members \in [Teams -> [Users -> Seq(Roles)]]
  /\ project \in [TeamProjects -> Teams \cup {Nobody, "gone"}]
  /\ invite \in [Invites -> InviteRows]
  /\ \A i \in Invites : invite[i].status # "none" =>
       /\ invite[i].team \in Teams /\ invite[i].to \in Users /\ invite[i].by \in Users
       /\ invite[i].role \in {"admin", "member"}
  /\ request \in [TeamRequests -> RequestRecords] /\ jobs \in Seq(JobRecords)
  /\ \A i \in Invites : invite[i].status = "none" => invite[i] = NoInvite

\* What a form names was there when it was checked.
RequestShaped(r) ==
  LET q == request[r] IN
  /\ q.op = "idle" => q = NoRequest
  /\ q.op = "sign_up" => q.user \in Users
  /\ q.op = "add_member" => /\ q.actor \in Users /\ q.team \in Teams /\ q.user \in Users
                            /\ q.role \in {"admin", "member"}
  /\ q.op = "accept" => /\ q.invite \in Invites /\ invite[q.invite].status # "none"
                        /\ q.user = invite[q.invite].to
  /\ q.op \in {"member_role", "delete_member", "leave_team"} => q.team \in Teams /\ q.user \in Users
  /\ q.op = "member_role" => q.role \in Roles

\* A user is deleted by the one job that was enqueued when they asked for it.
Unfinished(j) == jobs[j].at \in {"queued", "teams", "projects"}
JobShaped(j) ==
  /\ jobs[j].kind = "user" => /\ jobs[j].id \in Users
                              /\ Unfinished(j) => user[jobs[j].id].status = "deleted"
  /\ jobs[j].kind = "team" => jobs[j].id \in Teams /\ jobs[j].at # "teams"
  /\ jobs[j].at = "projects" => jobs[j].team \in Teams
  /\ \A k \in DOMAIN jobs :
       (/\ jobs[j].kind = "user" /\ jobs[k].kind = "user" /\ Unfinished(j) /\ Unfinished(k)
        /\ jobs[j].id = jobs[k].id) => j = k

MembersInv ==
  /\ RowsShaped /\ MembershipTypeOK
  /\ \A r \in TeamRequests : RequestShaped(r)
  /\ \A j \in DOMAIN jobs : JobShaped(j)

(* Without overlap, what was checked still holds when it is acted upon.    *)

OneAtWork ==
  /\ \A r, q \in TeamRequests : request[r] # NoRequest /\ request[q] # NoRequest => r = q
  /\ \A r \in TeamRequests, j \in DOMAIN jobs : request[r] # NoRequest => AtRest(j)
  /\ \A j, k \in DOMAIN jobs : AtRest(j) \/ AtRest(k) \/ j = k

\* An invitation that can be accepted is the only one of somebody who is no member.
OpenInvite(i) == invite[i].status = "pending" /\ ~invite[i].expired
SameInvitee(i, k) == invite[i].team = invite[k].team /\ invite[i].to = invite[k].to
InvitesFit ==
  \A i \in Invites : OpenInvite(i) =>
    /\ ~IsMember(invite[i].team, invite[i].to)
    /\ \A k \in Invites : OpenInvite(k) /\ SameInvitee(i, k) => i = k

ChecksHold(r) ==
  LET q == request[r] IN
  /\ q.op = "add_member" => ~IsMember(q.team, q.user) /\ ~Invited(q.team, q.user)
  /\ q.op = "accept" =>
       /\ ~IsMember(invite[q.invite].team, invite[q.invite].to)
       /\ \A k \in Invites : OpenInvite(k) /\ SameInvitee(q.invite, k) => k = q.invite
  /\ (q.op = "member_role" /\ RoleOf(q.team, q.user) = "owner" /\ q.role # "owner") =>
       Owners(q.team) \ {q.user} # {}
  /\ q.op = "leave_team" => Owners(q.team) \ {q.user} # {}

\* The job that deletes a user takes every team of which they are the only owner,
\* and no other one.
JobFits(j) ==
  (jobs[j].kind = "user" /\ jobs[j].at \in {"teams", "projects"}) =>
    /\ \A t \in Teams : (team[t] = "active" /\ Owners(t) = {jobs[j].id}) => t \in jobs[j].teams
    /\ \A t \in jobs[j].teams : team[t] = "active" => Owners(t) = {jobs[j].id}
    /\ jobs[j].at = "projects" => jobs[j].team \in jobs[j].teams

AloneInv ==
  /\ MembersInv /\ OneAtWork /\ OneMembership /\ InvitesFit
  /\ \A r \in TeamRequests : ChecksHold(r)
  /\ \A j \in DOMAIN jobs : JobFits(j)
=============================================================================
