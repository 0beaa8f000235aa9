----------------------------- MODULE AccountAccess -----------------------------
(***************************************************************************)
(* Who may sign in to the control plane.  Before there is an organization, *)
(* anybody who asks for a link becomes a candidate; the first to follow    *)
(* his link becomes the owner of the first organization, and the others    *)
(* are blocked.  IdentityBootstrap.prepare (a link is asked for) and       *)
(* activate (a link is followed) take different advisory locks.  A link    *)
(* carries the email-auth key of the account, which LoginClaims lets be    *)
(* used once.                                                              *)
(***************************************************************************)
EXTENDS Naturals, FiniteSets

CONSTANTS
    Users,          \* people, each with an email
    Askers,         \* server threads that send links
    Confirmers,     \* server threads that follow links
    MaxKeys,        \* bound on the keys that are issued
    MaxAsks         \* bound on the links that are asked for

AccessAssumption ==
    /\ "none" \notin Users
    /\ MaxKeys \in Nat /\ MaxAsks \in Nat

VARIABLES
    user,       \* users.authentication_state
    owners,     \* the owner of each organization there is
    key,        \* user_email_auth_keys: the current key of each user
    issued,     \* how many keys there have been
    claimed,    \* rodauth_login_claims
    sessions,   \* sessions[n]: sessions opened with key n
    ask,        \* what each thread that sends links is doing
    confirm,    \* what each thread that follows links is doing
    asks        \* how much of MaxAsks is spent

accessVars == <<user, owners, key, issued, claimed, sessions, ask, confirm, asks>>

Tokens == 1..MaxKeys
NoAsk == [pc |-> "idle", of |-> "none", state |-> "none"]
NoConfirm == [pc |-> "idle", of |-> "none", token |-> 0, state |-> "none"]
States == {"none", "bootstrap_candidate", "active", "blocked"}

AccessTypeOK ==
    /\ user \in [Users -> States]
    /\ owners \subseteq Users
    /\ key \in [Users -> 0..MaxKeys]
    /\ issued \in 0..MaxKeys
    /\ claimed \subseteq 1..issued
    /\ sessions \in [Tokens -> Nat]
    /\ ask \in [Askers -> [pc : {"idle", "lock", "decide", "create"},
                           of : Users \cup {"none"}, state : States]]
    /\ confirm \in [Confirmers -> [pc : {"idle", "claim", "lock", "write", "match", "session"},
                                   of : Users \cup {"none"}, token : 0..MaxKeys, state : States]]
    /\ \A u \in Users : user[u] = "none" => key[u] = 0
    /\ \A n \in Tokens : sessions[n] > 0 => n \in claimed

AccessInit ==
    /\ user = [u \in Users |-> "none"]
    /\ owners = {}
    /\ key = [u \in Users |-> 0] /\ issued = 0
    /\ claimed = {} /\ sessions = [n \in Tokens |-> 0]
    /\ ask = [t \in Askers |-> NoAsk] /\ confirm = [t \in Confirmers |-> NoConfirm]
    /\ asks = 0

Asked(t) == ask' = [ask EXCEPT ![t] = NoAsk]
Done(t) == confirm' = [confirm EXCEPT ![t] = NoConfirm]

\* identity:<email>
IdentityFree(u) == \A t \in Askers : ask[t].of # u \/ ask[t].pc \notin {"decide", "create"}

\* Mutant: each user has a bootstrap lock of his own.
BootstrapFreeOf(u) == \A t \in Confirmers : confirm[t].pc = "write" => confirm[t].of # u

\* authentication:bootstrap, which activate holds from LockAccount to Activate.
BootstrapFree(u) == \A t \in Confirmers : confirm[t].pc # "write"

\* User.lock, which is held with it.
AccountFree(u) == \A t \in Confirmers : confirm[t].pc = "write" => confirm[t].of # u
-----------------------------------------------------------------------------
AskForLink(t, u) ==
    /\ ask[t].pc = "idle" /\ asks < MaxAsks
    /\ asks' = asks + 1
    /\ ask' = [ask EXCEPT ![t] = [pc |-> "lock", of |-> u, state |-> "none"]]
    /\ UNCHANGED <<user, owners, key, issued, claimed, sessions, confirm>>

\* prepare takes its lock and looks the user up, without a lock of the row.
Look(t) ==
    /\ ask[t].pc = "lock" /\ IdentityFree(ask[t].of)
    /\ ask' = [ask EXCEPT ![t].pc = "decide", ![t].state = user[ask[t].of]]
    /\ UNCHANGED <<user, owners, key, issued, claimed, sessions, confirm, asks>>

\* The mail carries the current key of the account; there is a new one when
\* there is none.
Issue(u) ==
    IF key[u] # 0
    THEN UNCHANGED <<key, issued>>
    ELSE issued < MaxKeys /\ issued' = issued + 1 /\ key' = [key EXCEPT ![u] = issued + 1]

\* prepare goes on with the state it has read.
Decide(t) ==
    /\ ask[t].pc = "decide"
    /\ LET u == ask[t].of IN
       \/ /\ ask[t].state = "bootstrap_candidate" /\ owners # {}
          /\ AccountFree(u)
          /\ user' = [user EXCEPT ![u] = "blocked"]
          /\ Asked(t) /\ UNCHANGED <<key, issued>>
       \/ /\ \/ ask[t].state = "active"
             \/ ask[t].state = "bootstrap_candidate" /\ owners = {}
          /\ Issue(u)
          /\ Asked(t) /\ UNCHANGED user
       \/ /\ ask[t].state \in {"none", "blocked"} /\ owners # {}
          /\ Asked(t) /\ UNCHANGED <<user, key, issued>>
       \/ /\ ask[t].state = "none" /\ owners = {}
          /\ ask' = [ask EXCEPT ![t].pc = "create"]
          /\ UNCHANGED <<user, key, issued>>
    /\ UNCHANGED <<owners, claimed, sessions, confirm, asks>>

Create(t) ==
    /\ ask[t].pc = "create"
    /\ user' = [user EXCEPT ![ask[t].of] = "bootstrap_candidate"]
    /\ Issue(ask[t].of)
    /\ Asked(t)
    /\ UNCHANGED <<owners, claimed, sessions, confirm, asks>>

\* A key that is not followed within its deadline is replaced.
Expire(u) ==
    /\ key[u] # 0
    /\ key' = [key EXCEPT ![u] = 0]
    /\ UNCHANGED <<user, owners, issued, claimed, sessions, ask, confirm, asks>>
-----------------------------------------------------------------------------
\* Mutant: the key is not claimed before the account is activated.
FollowUnclaimed(t, u) ==
    /\ confirm[t].pc = "idle" /\ key[u] # 0
    /\ confirm' = [confirm EXCEPT ![t] = [pc |-> "lock", of |-> u, token |-> key[u],
                                          state |-> "none"]]
    /\ UNCHANGED <<user, owners, key, issued, claimed, sessions, ask, asks>>

\* Somebody confirms with the key of u.
Follow(t, u) ==
    /\ confirm[t].pc = "idle" /\ key[u] # 0
    /\ confirm' = [confirm EXCEPT ![t] = [pc |-> "claim", of |-> u, token |-> key[u],
                                          state |-> "none"]]
    /\ UNCHANGED <<user, owners, key, issued, claimed, sessions, ask, asks>>

\* Mutant: a claim is never refused.
UnclaimedAlways(n) == TRUE

\* The index of the digests is unique.
Unclaimed(n) == n \notin claimed

Claim(t) ==
    /\ confirm[t].pc = "claim"
    /\ \/ /\ Unclaimed(confirm[t].token)
          /\ claimed' = claimed \cup {confirm[t].token}
          /\ confirm' = [confirm EXCEPT ![t].pc = "lock"]
       \/ ~Unclaimed(confirm[t].token) /\ Done(t) /\ UNCHANGED claimed
    /\ UNCHANGED <<user, owners, key, issued, sessions, ask, asks>>

\* activate takes the bootstrap lock and the row.
LockAccount(t) ==
    /\ confirm[t].pc = "lock" /\ BootstrapFree(confirm[t].of)
    /\ confirm' = [confirm EXCEPT ![t].pc = "write", ![t].state =
                      IF user[confirm[t].of] = "bootstrap_candidate" /\ owners # {}
                      THEN "blocked" ELSE user[confirm[t].of]]
    /\ UNCHANGED <<user, owners, key, issued, claimed, sessions, ask, asks>>

\* Organizations::Create
Founded(u) == owners \cup {u}

\* remove_email_auth_key
Leave(t, u) ==
    /\ key' = [key EXCEPT ![u] = 0]
    /\ Done(t)

\* activate writes what it has decided and commits; a key whose owner is
\* refused is removed.
Activate(t) ==
    /\ confirm[t].pc = "write"
    /\ LET u == confirm[t].of IN
       \/ /\ confirm[t].state = "active"
          /\ confirm' = [confirm EXCEPT ![t].pc = "match"]
          /\ UNCHANGED <<user, owners, key>>
       \/ /\ confirm[t].state = "bootstrap_candidate"
          /\ user' = [user EXCEPT ![u] = "active"]
          /\ owners' = Founded(u)
          /\ confirm' = [confirm EXCEPT ![t].pc = "match"]
          /\ UNCHANGED key
       \/ /\ confirm[t].state = "blocked"
          /\ user' = [user EXCEPT ![u] = "blocked"]
          /\ Leave(t, u)
          /\ UNCHANGED owners
    /\ UNCHANGED <<issued, claimed, sessions, ask, asks>>

\* The route of Rodauth looks the key up once more; the exchange for an API
\* session does not.
Match(t) ==
    /\ confirm[t].pc = "match"
    /\ \/ confirm' = [confirm EXCEPT ![t].pc = "session"]
       \/ key[confirm[t].of] # confirm[t].token /\ Done(t)
    /\ UNCHANGED <<user, owners, key, issued, claimed, sessions, ask, asks>>

\* before_login activates once more, and Rodauth opens the session and removes
\* the key.
Session(t) ==
    /\ confirm[t].pc = "session"
    /\ BootstrapFree(confirm[t].of)
    /\ sessions' = [sessions EXCEPT ![confirm[t].token] =
                       IF user[confirm[t].of] = "active" THEN @ + 1 ELSE @]
    /\ Leave(t, confirm[t].of)
    /\ UNCHANGED <<user, owners, issued, claimed, ask, asks>>

\* The thread dies between two transactions.
Dies(t) ==
    /\ confirm[t].pc # "idle"
    /\ Done(t)
    /\ UNCHANGED <<user, owners, key, issued, claimed, sessions, ask, asks>>

AccessNext ==
    \/ \E t \in Askers : Look(t) \/ Decide(t) \/ Create(t) \/ \E u \in Users : AskForLink(t, u)
    \/ \E t \in Confirmers : \/ Claim(t) \/ LockAccount(t) \/ Activate(t) \/ Match(t)
                             \/ Session(t) \/ Dies(t)
                             \/ \E u \in Users : Follow(t, u)
    \/ \E u \in Users : Expire(u)

AccessSpec == AccessInit /\ [][AccessNext]_accessVars
-----------------------------------------------------------------------------
\* One owner is elected, however many candidates follow their links at once:
\* there is one organization, and nobody but its owner has become active.
OneOwner ==
    /\ Cardinality(owners) <= 1
    /\ \A u \in Users : user[u] = "active" => u \in owners

\* A key opens one session, however often its link is followed.
OneSessionPerKey == \A n \in Tokens : sessions[n] <= 1

\* One owner is elected of all candidates, and a key opens one session
\* (identity_bootstrap.rb, login_claims.rb).
SignInIsGuarded == AccessTypeOK /\ OneOwner /\ OneSessionPerKey

\* What prepare writes is about losers: the elected owner is not blocked.
OwnerStaysActive == [][\A u \in Users : user[u] = "active" => user'[u] = "active"]_accessVars
-----------------------------------------------------------------------------
(***************************************************************************)
(* The inductive invariant.                                                *)
(***************************************************************************)
\* The election is settled once, by the one thread that holds its lock.
Elected ==
    /\ owners = {} \/ \E u \in Users : owners = {u}
    /\ \A u \in Users : user[u] = "active" => u \in owners
    /\ \A s, t \in Confirmers : confirm[s].pc = "write" /\ confirm[t].pc = "write" => s = t
    /\ \A t \in Confirmers :
          confirm[t].pc = "write" /\ confirm[t].state = "bootstrap_candidate" => owners = {}

\* Threads are about users and keys there are.
ThreadsKnown ==
    /\ \A u \in Users : key[u] <= issued
    /\ \A t \in Askers :
          /\ ask[t].pc # "idle" => ask[t].of \in Users
          /\ ask[t].pc = "decide" /\ ask[t].state # "none" => user[ask[t].of] # "none"
    /\ \A t \in Confirmers : confirm[t].pc # "idle" =>
          /\ confirm[t].of \in Users /\ confirm[t].token \in 1..issued
          /\ user[confirm[t].of] # "none"

\* A key is in the hands of the one thread that claimed it.
InHand(t) == confirm[t].pc \in {"lock", "write", "match", "session"}

KeysInHand ==
    /\ \A t \in Confirmers : InHand(t) =>
          confirm[t].token \in claimed /\ sessions[confirm[t].token] = 0
    /\ \A s, t \in Confirmers :
          InHand(s) /\ InHand(t) /\ confirm[s].token = confirm[t].token => s = t
    /\ OneSessionPerKey

AccessInv == AccessTypeOK /\ Elected /\ ThreadsKnown /\ KeysInHand
=============================================================================
