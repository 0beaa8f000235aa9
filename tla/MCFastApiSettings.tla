-------------------------- MODULE MCFastApiSettings --------------------------
(***************************************************************************)
(* What people set in the FastAPI application, one request after the       *)
(* other: the environments, variables and domains of projects              *)
(* (ProjectSettings), their teams (Membership), and the runners an         *)
(* instance offers (RunnerRegistry).  They share no state; part is the one *)
(* that runs.                                                              *)
(***************************************************************************)
EXTENDS ProjectSettings, Membership, RunnerRegistry

CONSTANTS p1, p2, u1, t1, i1, i2

VARIABLE part

ProjectForms == {"environment", "delete_environment", "env_vars", "build_and_deploy", "resources"}
DomainForms == {"domain", "remove_domain", "verify_domain"}
RoleForms == {"sign_up", "add_member", "revoke_member_invite", "notification", "link", "member_role",
              "delete_member"}

OnPage == INSTANCE ProjectSettings WITH Fragments <- ProjectForms
OnDomains == INSTANCE ProjectSettings WITH Fragments <- DomainForms
Invitations == INSTANCE Membership WITH Forms <- RoleForms
Leaving == INSTANCE Membership WITH Forms <- RoleForms \cup {"leave_team", "delete_user", "new_project"}

\* Two runners of category A and one of B that is added by hand; two presets,
\* of which one, of B, names a runner of A.  A catalog drops a runner, and the
\* overrides were edited by hand.
EntryCategory == [s \in {"r1", "r2", "own", "p1", "p2"} |-> IF s \in {"own", "p2"} THEN "B" ELSE "A"]
PresetRunner == [p \in {"p1", "p2"} |-> IF p = "p1" THEN "r1" ELSE "r2"]
Full == [s \in {"r1", "r2", "p1", "p2"} |-> "unset"]
Shrunk == [s \in {"r2", "p1", "p2"} |-> "off"]
BothCatalogs == {Full, Shrunk}
Edited == [s \in {"r1", "p1", "own"} |-> [enabled |-> "on", own |-> s = "own"]]

ASSUME SettingsAssumption /\ MembershipAssumption /\ RegistryAssumption
-----------------------------------------------------------------------------
Parts == {"page", "domains", "invitations", "leaving", "runners"}

SettingsInit == part \in Parts /\ Init /\ MembersInit /\ RunnersInit

\* Nobody looks at the second project.
ProjectStep ==
    \/ part = "page" /\ OnPage!Next /\ \A r \in Requests : req'[r].project # p2
    \/ part = "domains" /\ OnDomains!Next

\* Where users leave there is one invitation.  The rows of a table are alike:
\* the first is used first.
MembersStep ==
    /\ \/ part = "invitations" /\ Invitations!MembersNext
       \/ part = "leaving" /\ Leaving!MembersNext /\ invite'[i2] = NoInvite
    /\ user'[u1] = NoUser /\ jobs' = <<>> => \A u \in Users : user'[u] = NoUser
    /\ team'[t1] = "none" => \A t \in Teams : team'[t] = "none"
    /\ invite'[i1] = NoInvite => invite'[i2] = NoInvite

SettingsNext ==
    /\ UNCHANGED part
    /\ \/ ProjectStep /\ UNCHANGED <<membersVars, runnerVars>>
       \/ MembersStep /\ UNCHANGED <<allvars, runnerVars>>
       \/ part = "runners" /\ RunnersNext /\ UNCHANGED <<allvars, membersVars>>

SettingsSpec == SettingsInit /\ [][SettingsNext]_<<part, allvars, membersVars, runnerVars>>
=============================================================================
