----------------------------- MODULE RegistryAuth -----------------------------
(***************************************************************************)
(* services/registry_auth: credentials that the build controller registers *)
(* and revokes, and the tokens they are exchanged for.  The registry takes *)
(* a token until it expires and asks nobody: what ends the access of a     *)
(* credential is that no token outlives what it was issued under.  Calls   *)
(* are repeated by their callers when an answer was lost.                  *)
(***************************************************************************)
EXTENDS Naturals, FiniteSets

CONSTANTS
  Ids, Users, Secrets,
  Orgs, Services,
  Ttl,        \* lifetime of a token (300 s)
  MaxLife,    \* of a credential (3600 s)
  MaxTime,    \* bound of the clock
  MaxTokens   \* bound: tokens that are valid at once

ASSUME RegistryAssumption ==
  /\ "" \notin Users /\ "*" \notin Services
  /\ Ttl \in Nat \ {0} /\ MaxLife \in Nat \ {0} /\ MaxTime \in Nat \ {0} /\ MaxTokens \in Nat

VARIABLES
  credentials,  \* the table: a row, or NoRow, for each id
  tokens,       \* issued and not expired
  now

registryVars == <<credentials, tokens, now>>

Repositories == Orgs \X Services
Prefixes == Orgs \X (Services \cup {"*"})   \* a repository, or all of an organization
Actions == {"pull", "push"}

NoRow == [user |-> "", secret |-> "", prefix |-> <<>>, actions |-> {}, expires |-> 0, revoked |-> 0]
Rows ==
  [user : Users, secret : Secrets, prefix : Prefixes, actions : (SUBSET Actions) \ {{}},
   expires : 1..MaxTime + MaxLife, revoked : 0..MaxTime]

\* revoked_at: 0 stands for NULL.
RegistryInit == credentials = [i \in Ids |-> NoRow] /\ tokens = {} /\ now = 1

---------------------------------------------------------------------------

\* _validate, as far as it depends on the time.
Valid(row) == now < row.expires /\ row.expires <= now + MaxLife

Existing(i, row) == {j \in Ids : credentials[j] # NoRow /\ (j = i \/ credentials[j].user = row.user)}

\* Mutant: INSERT OR REPLACE.
RegisterReplacing(i, row) ==
  /\ Valid(row)
  /\ credentials' = [credentials EXCEPT ![i] = row]
  /\ UNCHANGED <<tokens, now>>

\* CredentialStore.register: what is there already is confirmed if it is the
\* same and refused otherwise, and does not change.
Register(i, row) ==
  /\ Valid(row) /\ Existing(i, row) = {}
  /\ credentials' = [credentials EXCEPT ![i] = row]
  /\ UNCHANGED <<tokens, now>>

\* Mutant: a row is made for the revocation of an unknown credential.
RevokeUnknown(i) ==
  /\ credentials' = [credentials EXCEPT ![i].revoked = IF @ = 0 THEN now ELSE @]
  /\ UNCHANGED <<tokens, now>>

Revoke(i) ==
  /\ credentials[i] # NoRow
  /\ credentials' = [credentials EXCEPT ![i].revoked = IF @ = 0 THEN now ELSE @]
  /\ UNCHANGED <<tokens, now>>

Authenticate(i, user, secret) ==
  /\ credentials[i] # NoRow
  /\ credentials[i].user = user /\ credentials[i].secret = secret
  /\ credentials[i].revoked = 0 /\ now < credentials[i].expires

\* _authorize_scope: a prefix that ends with "/" stands for what it starts.
Allowed(repository, prefix) ==
  IF prefix[2] = "*" THEN repository[1] = prefix[1] ELSE repository = prefix

\* Mutant: a token has its whole lifetime.
ExpiryFull(i) == now + Ttl

Expiry(i) ==
  IF now + Ttl < credentials[i].expires THEN now + Ttl ELSE credentials[i].expires

\* RegistryTokens.issue, for one scope.
Token(i, user, secret, repository, actions) ==
  /\ Authenticate(i, user, secret)
  /\ Allowed(repository, credentials[i].prefix) /\ actions # {}
  /\ actions \subseteq credentials[i].actions
  /\ Cardinality(tokens) < MaxTokens
  /\ tokens' = tokens \cup {[id |-> i, user |-> user, repository |-> repository,
                             actions |-> actions, issued |-> now, expires |-> Expiry(i)]}
  /\ UNCHANGED <<credentials, now>>

Tick ==
  /\ now < MaxTime /\ now' = now + 1
  /\ tokens' = {t \in tokens : now + 1 < t.expires}
  /\ UNCHANGED credentials

RegistryNext ==
  \/ \E i \in Ids : (\E row \in Rows : row.revoked = 0 /\ Register(i, row)) \/ Revoke(i)
  \/ \E i \in Ids, u \in Users, s \in Secrets, r \in Repositories, a \in SUBSET Actions :
       Token(i, u, s, r, a)
  \/ Tick

RegistrySpec == RegistryInit /\ [][RegistryNext]_registryVars

---------------------------------------------------------------------------
(* Properties                                                              *)

\* The variables have their types.
RegistryTypeOK ==
  /\ credentials \in [Ids -> Rows \cup {NoRow}]
  /\ tokens \subseteq [id : Ids, user : Users, repository : Repositories,
                       actions : SUBSET Actions, issued : Nat, expires : Nat]
  /\ now \in 1..MaxTime

\* A credential ends: none of its tokens is valid when it has expired, nor one
\* lifetime of a token after the first time it was revoked, whatever was
\* registered and revoked again since.
AccessEnds ==
  \A t \in tokens :
    LET c == credentials[t.id] IN
    /\ now < c.expires
    /\ c.revoked # 0 => now < c.revoked + Ttl

\* A token is good for what its credential was registered for: its user's
\* repository or organization, its actions.
TokenIsScoped ==
  \A t \in tokens :
    LET c == credentials[t.id] IN
    c.user = t.user /\ Allowed(t.repository, c.prefix) /\ t.actions \subseteq c.actions

\* A user name stands for one credential, also when calls are repeated and
\* names taken: the password that is asked for is that of one row.
UsersUnique ==
  \A i, j \in Ids :
    credentials[i] # NoRow /\ credentials[j] # NoRow /\ credentials[i].user = credentials[j].user
      => i = j

\* What the registry may answer with: credentials that end, tokens within
\* their scope, and one password for a user name.
CredentialsHold == RegistryTypeOK /\ AccessEnds /\ TokenIsScoped /\ UsersUnique
================================================================================
