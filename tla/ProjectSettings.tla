--------------------------- MODULE ProjectSettings ---------------------------
(***************************************************************************)
(* The settings page of a project (src/app): its environments and their    *)
(* variables, its build configuration, its custom domains, and the Traefik *)
(* file they end in.                                                       *)
(*                                                                         *)
(* environments, env_vars and config are JSON columns.  A request loads    *)
(* them with the project, computes a new value from what it loaded and     *)
(* writes the column back; nothing stops another request in between.       *)
(***************************************************************************)
EXTENDS Naturals, Sequences, FiniteSets

CONSTANTS
  Projects, EnvIds, Slugs, Branches, Hosts, Domains, Requests,
  Prod,           \* the id of the production environment
  Production,     \* its slug
  Null,
  Fragments,      \* the forms of the page that are submitted
  MaxDomainEdits  \* bound: submissions that change a domain's row

SettingsAssumption ==
  /\ Prod \in EnvIds /\ Production \in Slugs
  /\ Null \notin Projects \cup EnvIds \cup Hosts
  /\ MaxDomainEdits \in Nat

VARIABLES
  envs,      \* project -> its list of environments
  vars,      \* project -> slugs some variable is bound to (Null: all)
  config,    \* project -> its build and its resource settings
  domain,    \* the Domain rows
  live,      \* project -> environments with a succeeded deployment
  dns,       \* hosts whose records point here
  file,      \* project -> the <<host, environment>> routes in its Traefik file
  verified,  \* <<project, host>> that passed a DNS check (history)
  raced,     \* <<project, host>> a domain got while it was being verified (history)
  edits,
  req        \* what each request has loaded and how far it is

settings == <<envs, vars, config>>
routing  == <<domain, live, dns, file, verified, raced, edits>>
allvars  == <<envs, vars, config, domain, live, dns, file, verified, raced, edits, req>>

Env(id, slug, branch) == [id |-> id, slug |-> slug, branch |-> branch, status |-> "active"]
NoDomain == [project |-> Null, host |-> Null, env |-> Null, status |-> "none"]
Removed == [NoDomain EXCEPT !.status = "removed"]
NoVisit == [at |-> "idle", project |-> Null, envs |-> <<>>, vars |-> {},
         config |-> [build |-> 0, resources |-> 0], domain |-> Null, row |-> NoDomain, host |-> Null,
         ok |-> FALSE]

\* new_project_details: a project starts with the production environment.
FirstEnvironments(branch) == <<Env(Prod, Production, branch)>>
Init ==
  /\ \E b \in Branches : envs = [p \in Projects |-> FirstEnvironments(b)]
  /\ vars = [p \in Projects |-> {}]
  /\ config = [p \in Projects |-> [build |-> 0, resources |-> 0]]
  /\ domain = [i \in Domains |-> NoDomain]
  /\ live = [p \in Projects |-> {}] /\ dns = {}
  /\ file = [p \in Projects |-> {}] /\ verified = {} /\ raced = {} /\ edits = 0
  /\ req = [r \in Requests |-> NoVisit]

---------------------------------------------------------------------------
(* What the forms and the model compute from a list of environments.       *)

Slots(list) == 1..Len(list)
Active(list) == {i \in Slots(list) : list[i].status = "active"}
SlugTaken(list, slug, except) ==
  \E i \in Active(list) : list[i].slug = slug /\ list[i].id # except
IndexOf(list, id) == CHOOSE i \in Slots(list) : list[i].id = id
Has(list, id) == \E i \in Slots(list) : list[i].id = id

\* get_environment_for_branch: the first active environment that takes the
\* branch; production stands first.
EnvironmentFor(list, branch) ==
  LET takes == {i \in Active(list) : list[i].branch = branch}
  IN IF takes = {} THEN Null
     ELSE list[CHOOSE i \in takes : \A j \in takes : i <= j].id

\* update_traefik_config: the active domains whose environment has an alias.
Routes(p) ==
  {<<domain[i].host, domain[i].env>> :
     i \in {j \in Domains : /\ domain[j].project = p /\ domain[j].status = "active"
                            /\ domain[j].env \in live[p]}}

\* A column is updated when its value differs from the one loaded.
Written(stored, loaded, value) == IF value = loaded THEN stored ELSE value

---------------------------------------------------------------------------
(* A request                                                               *)

Load(r, p) ==
  /\ req[r].at = "idle"
  /\ req' = [req EXCEPT ![r] = [NoVisit EXCEPT !.at = "loaded", !.project = p,
               !.envs = envs[p], !.vars = vars[p], !.config = config[p]]]
  /\ UNCHANGED <<settings, routing>>

Loaded(r, fragment) == req[r].at = "loaded" /\ fragment \in Fragments
Done(r) == req' = [req EXCEPT ![r] = NoVisit]
Refresh(r) == req' = [req EXCEPT ![r] = [NoVisit EXCEPT !.at = "changed",
                                                      !.project = req[r].project]]

\* Nothing was submitted, or the request fails before its commit.
Leave(r) ==
  /\ req[r].at \in {"loaded", "valid", "checked"}
  /\ Done(r) /\ UNCHANGED <<settings, routing>>

CreateEnvironment(r, id, slug, branch) ==
  LET p == req[r].project
      list == req[r].envs IN
  /\ Loaded(r, "environment")
  /\ \A q \in Projects : ~Has(envs[q], id)
  /\ \A s \in Requests : ~Has(req[s].envs, id)
  /\ ~SlugTaken(list, slug, Null)
  /\ envs' = [envs EXCEPT ![p] = Append(list, Env(id, slug, branch))]
  /\ Done(r) /\ UNCHANGED <<vars, config, routing>>

Renamed(bound, old, slug) == {IF s = old THEN slug ELSE s : s \in bound}

\* Mutant: the slug of an edited environment is not compared with the others.
UpdateUnchecked(r, id, slug, branch) ==
  LET p == req[r].project
      list == req[r].envs
      i == IndexOf(list, id) IN
  /\ Loaded(r, "environment") /\ Has(list, id) /\ id # Prod
  /\ envs' = [envs EXCEPT ![p] = [list EXCEPT ![i].slug = slug, ![i].branch = branch]]
  /\ Done(r) /\ UNCHANGED <<vars, config, routing>>

\* Mutant: the variables stay with the old slug.
UpdateSlugOnly(r, id, slug, branch) ==
  LET p == req[r].project
      list == req[r].envs
      i == IndexOf(list, id) IN
  /\ Loaded(r, "environment") /\ Has(list, id) /\ ~SlugTaken(list, slug, id)
  /\ id = Prod => slug = list[i].slug
  /\ envs' = [envs EXCEPT ![p] = [list EXCEPT ![i].slug = slug, ![i].branch = branch]]
  /\ Done(r) /\ UNCHANGED <<vars, config, routing>>

\* The variables follow a slug that changes.
UpdateEnvironment(r, id, slug, branch) ==
  LET p == req[r].project
      list == req[r].envs
      i == IndexOf(list, id)
      old == list[i].slug IN
  /\ Loaded(r, "environment") /\ Has(list, id)
  /\ id = Prod => slug = old
  /\ slug # old => ~SlugTaken(list, slug, id)
  /\ envs' = [envs EXCEPT ![p] =
       Written(@, list, [list EXCEPT ![i].slug = slug, ![i].branch = branch])]
  /\ vars' = IF slug = old THEN vars
             ELSE [vars EXCEPT ![p] = Renamed(req[r].vars, old, slug)]
  /\ Done(r) /\ UNCHANGED <<config, routing>>

\* Mutant: production can be deleted, and the environment gets the status of a domain.
DeleteAnyEnvironment(r, id) ==
  LET p == req[r].project
      list == req[r].envs IN
  /\ Loaded(r, "delete_environment") /\ Has(list, id)
  /\ envs' = [envs EXCEPT ![p] = [list EXCEPT ![IndexOf(list, id)].status = "disabled"]]
  /\ Done(r) /\ UNCHANGED <<vars, config, routing>>

DeleteEnvironment(r, id) ==
  LET p == req[r].project
      list == req[r].envs
      i == IndexOf(list, id) IN
  /\ Loaded(r, "delete_environment") /\ Has(list, id) /\ id # Prod
  /\ envs' = [envs EXCEPT ![p] = Written(@, list, [list EXCEPT ![i].status = "deleted"])]
  /\ vars' = [vars EXCEPT ![p] = req[r].vars \ {list[i].slug}]
  /\ domain' = [d \in Domains |->
       IF domain[d].project = p /\ domain[d].env = id /\ domain[d].status = "active"
       THEN [domain[d] EXCEPT !.status = "disabled", !.env = Null] ELSE domain[d]]
  /\ IF domain' # domain THEN Refresh(r) ELSE Done(r)
  /\ UNCHANGED <<config, live, dns, file, verified, raced, edits>>

\* The form offers every environment of the list, deleted ones included.
SaveVars(r, bound) ==
  LET p == req[r].project IN
  /\ Loaded(r, "env_vars")
  /\ bound \subseteq {req[r].envs[i].slug : i \in Slots(req[r].envs)} \cup {Null}
  /\ vars' = [vars EXCEPT ![p] = bound]
  /\ Done(r) /\ UNCHANGED <<envs, config, routing>>

\* Mutant: the configuration is replaced by what the form submits.
SaveOnlyResources(r, v) ==
  /\ Loaded(r, "resources")
  /\ config' = [config EXCEPT ![req[r].project] = [build |-> 0, resources |-> v]]
  /\ Done(r) /\ UNCHANGED <<envs, vars, routing>>

SaveBuild(r, v) ==
  /\ Loaded(r, "build_and_deploy")
  /\ config' = [config EXCEPT ![req[r].project] =
                  Written(@, req[r].config, [req[r].config EXCEPT !.build = v])]
  /\ Done(r) /\ UNCHANGED <<envs, vars, routing>>

SaveResources(r, v) ==
  /\ Loaded(r, "resources")
  /\ config' = [config EXCEPT ![req[r].project] =
                  Written(@, req[r].config, [req[r].config EXCEPT !.resources = v])]
  /\ Done(r) /\ UNCHANGED <<envs, vars, routing>>

---------------------------------------------------------------------------
(* Domains                                                                 *)

Edit == edits < MaxDomainEdits /\ edits' = edits + 1
HostTaken(host, except) == \E i \in Domains \ {except} : domain[i].host = host

Verifying(i) == \E s \in Requests : req[s].at \in {"checking", "checked"} /\ req[s].domain = i

\* The validator looks for the host in a query of its own; the insert or
\* update follows.
CheckHost(r, i, host) ==
  /\ Loaded(r, "domain")
  /\ domain[i] = NoDomain \/ domain[i].project = req[r].project
  /\ ~HostTaken(host, i)
  /\ req' = [req EXCEPT ![r].at = "valid", ![r].domain = i, ![r].row = domain[i],
                        ![r].host = host]
  /\ UNCHANGED <<settings, routing>>

AddDomain(r, e) ==
  LET i == req[r].domain IN
  /\ req[r].at = "valid" /\ req[r].row = NoDomain /\ domain[i] = NoDomain
  /\ Edit
  /\ domain' = [domain EXCEPT ![i] = [project |-> req[r].project, host |-> req[r].host,
                                      env |-> e, status |-> "pending"]]
  /\ Done(r) /\ UNCHANGED <<settings, live, dns, file, verified, raced>>

\* Mutant: a domain that changes its hostname keeps its status.
EditKeepsStatus(r, e) ==
  LET i == req[r].domain IN
  /\ req[r].at = "valid" /\ domain[i].project # Null
  /\ Edit
  /\ domain' = [domain EXCEPT ![i].host = req[r].host, ![i].env = e]
  /\ Done(r) /\ UNCHANGED <<settings, live, dns, file, verified, raced>>

\* The hostname of a domain changes while a request verifies the one it had, or
\* the domain became active after this request had loaded it.
Races(i, seen, host) ==
  /\ host \notin {seen.host, domain[i].host}
  /\ Verifying(i) \/ (seen.status = "pending" /\ domain[i].status = "active")

\* A new hostname has to be verified again; the file is not rewritten.
EditDomain(r, e) ==
  LET i == req[r].domain
      host == req[r].host
      seen == req[r].row IN
  /\ req[r].at = "valid" /\ seen # NoDomain /\ domain[i].project # Null
  /\ Edit
  /\ domain' = [domain EXCEPT ![i].host = Written(@, seen.host, host),
                  ![i].env = Written(@, seen.env, e),
                  ![i].status = IF host = seen.host THEN @
                                ELSE Written(@, seen.status, "pending")]
  /\ raced' = IF Races(i, seen, host) THEN raced \cup {<<domain[i].project, host>>} ELSE raced
  /\ Done(r) /\ UNCHANGED <<settings, live, dns, file, verified>>

RemoveDomain(r, i) ==
  /\ Loaded(r, "remove_domain") /\ domain[i].project = req[r].project
  /\ domain' = [domain EXCEPT ![i] = Removed]
  /\ Refresh(r)
  /\ UNCHANGED <<settings, live, dns, file, verified, raced, edits>>

Verify(r, i) ==
  /\ Loaded(r, "verify_domain")
  /\ domain[i].project = req[r].project /\ domain[i].status # "active"
  /\ req' = [req EXCEPT ![r].at = "checking", ![r].domain = i, ![r].row = domain[i]]
  /\ UNCHANGED <<settings, routing>>

\* DomainService.verify_domain: a deployment of the environment has succeeded
\* and the records of the host loaded with the request point here.
VerifyDns(r) ==
  LET seen == req[r].row
      ok == seen.env \in live[req[r].project] /\ seen.host \in dns IN
  /\ req[r].at = "checking"
  /\ verified' = IF ok THEN verified \cup {<<req[r].project, seen.host>>} ELSE verified
  /\ req' = [req EXCEPT ![r].at = "checked", ![r].ok = ok]
  /\ UNCHANGED <<settings, domain, live, dns, file, raced, edits>>

\* Row locks make the two updates of a verification one step: the domain is
\* active, the other rows of its host are disabled, whoever owns them.
Disabled(row, host) ==
  IF row.host = host /\ row.status \in {"pending", "active", "failed"}
  THEN [row EXCEPT !.status = "disabled"] ELSE row

\* Mutant: the other rows of the host keep their status.
VerifyAlone(r) ==
  LET i == req[r].domain IN
  /\ req[r].at = "checked" /\ domain[i].project # Null
  /\ domain' = [domain EXCEPT ![i].status = IF req[r].ok THEN "active" ELSE "failed"]
  /\ Refresh(r)
  /\ UNCHANGED <<settings, live, dns, file, verified, raced, edits>>

VerifyCommit(r) ==
  LET i == req[r].domain IN
  /\ req[r].at = "checked"
  /\ IF domain[i] = Removed THEN UNCHANGED domain /\ Done(r)
     ELSE IF req[r].ok
     THEN /\ domain' = [d \in Domains |-> IF d = i THEN [domain[d] EXCEPT !.status = "active"]
                                          ELSE Disabled(domain[d], req[r].row.host)]
          /\ Refresh(r)
     ELSE /\ domain' = [domain EXCEPT ![i].status = Written(@, req[r].row.status, "failed")]
          /\ Done(r)
  /\ UNCHANGED <<settings, live, dns, file, verified, raced, edits>>

WriteFile(r) ==
  /\ req[r].at = "changed"
  /\ file' = [file EXCEPT ![req[r].project] = Routes(req[r].project)]
  /\ Done(r) /\ UNCHANGED <<settings, domain, live, dns, verified, raced, edits>>

---------------------------------------------------------------------------
(* A deployment of the branch succeeds: finalize gives its environment an  *)
(* alias and writes the file.                                              *)

DeploymentSucceeds(p, branch) ==
  LET e == EnvironmentFor(envs[p], branch) IN
  /\ e # Null
  /\ live' = [live EXCEPT ![p] = @ \cup {e}]
  /\ file' = [file EXCEPT ![p] =
       {<<domain[i].host, domain[i].env>> :
          i \in {j \in Domains : /\ domain[j].project = p /\ domain[j].status = "active"
                                 /\ domain[j].env \in live[p] \cup {e}}}]
  /\ UNCHANGED <<settings, domain, dns, verified, raced, edits, req>>

Records(host) ==
  /\ dns' = IF host \in dns THEN dns \ {host} ELSE dns \cup {host}
  /\ UNCHANGED <<settings, domain, live, file, verified, raced, edits, req>>

Submit(r) ==
  \/ \E p \in Projects : Load(r, p)
  \/ Leave(r)
  \/ \E id \in EnvIds, slug \in Slugs, b \in Branches :
        CreateEnvironment(r, id, slug, b) \/ UpdateEnvironment(r, id, slug, b)
  \/ \E id \in EnvIds : DeleteEnvironment(r, id)
  \/ \E bound \in SUBSET (Slugs \cup {Null}) : SaveVars(r, bound)
  \/ \E v \in {1, 2} : SaveBuild(r, v) \/ SaveResources(r, v)
  \/ \E i \in Domains : Verify(r, i) \/ RemoveDomain(r, i)
  \/ \E i \in Domains, h \in Hosts : CheckHost(r, i, h)
  \/ \E e \in {req[r].envs[k].id : k \in Active(req[r].envs)} :
        AddDomain(r, e) \/ EditDomain(r, e)
  \/ VerifyDns(r) \/ VerifyCommit(r) \/ WriteFile(r)

Next ==
  \/ \E r \in Requests : Submit(r)
  \/ \E p \in Projects, b \in Branches : "verify_domain" \in Fragments /\ DeploymentSucceeds(p, b)
  \/ \E h \in Hosts : "verify_domain" \in Fragments /\ Records(h)

Spec == Init /\ [][Next]_allvars

---------------------------------------------------------------------------
(* Properties                                                              *)

Environments == [id : EnvIds, slug : Slugs, branch : Branches, status : {"active", "deleted"}]
Bound == SUBSET (Slugs \cup {Null})
Configs == [build : 0..2, resources : 0..2]
DomainRows == [project : Projects \cup {Null}, host : Hosts \cup {Null},
               env : EnvIds \cup {Null},
               status : {"none", "removed", "pending", "active", "failed", "disabled"}]
Visits == [at : {"idle", "loaded", "valid", "checking", "checked", "changed"},
           project : Projects \cup {Null}, envs : Seq(Environments), vars : Bound,
           config : Configs, domain : Domains \cup {Null}, row : DomainRows,
           host : Hosts \cup {Null}, ok : BOOLEAN]

Looking == {"loaded", "valid", "checking", "checked"}

\* The environments, the domain rows and the requests keep the shape the
\* handlers give them.
SettingsTypeOK ==
  /\ envs \in [Projects -> Seq(Environments)]
  /\ vars \in [Projects -> Bound] /\ config \in [Projects -> Configs]
  /\ domain \in [Domains -> DomainRows] /\ dns \subseteq Hosts
  /\ live \in [Projects -> SUBSET EnvIds] /\ file \in [Projects -> SUBSET (Hosts \X EnvIds)]
  /\ verified \subseteq Projects \X Hosts /\ raced \subseteq Projects \X Hosts
  /\ edits \in 0..MaxDomainEdits
  /\ req \in [Requests -> Visits]

\* No two active environments of a project share a slug, whatever requests
\* overlap: a list that is written back was checked as a whole.  Variables,
\* aliases and subdomains are found by slug.
Distinct(list) == \A i, j \in Active(list) : list[i].slug = list[j].slug => i = j
SlugsUnique == \A p \in Projects : Distinct(envs[p])

\* Production stays first, active and under its name: a branch is matched
\* with environments[0] before any other.
ProductionStays ==
  \A p \in Projects : LET first == envs[p][1] IN
    first.id = Prod /\ first.slug = Production /\ first.status = "active"

\* A variable is bound to every environment or to the slug of one: a variable
\* bound to any other slug silently reaches no deployment.
VarsBound == \A p \in Projects : vars[p] \subseteq {envs[p][i].slug : i \in Slots(envs[p])} \cup {Null}

\* However requests overlap, no two active environments share a slug and
\* production stays what it is; and while they do not, a variable is bound to
\* environments there are (routers/project.py, forms/project.py).
OneRequest == \A r, s \in Requests : r = s
EnvironmentsConsistent ==
  /\ SlugsUnique /\ ProductionStays
  /\ OneRequest => VarsBound

\* The two forms that share the config column change their own half of it.
FormsKeepEachOther ==
  \A p \in Projects : config'[p].build = config[p].build
                       \/ config'[p].resources = config[p].resources

\* The settings are consistent at every moment, and while one request follows
\* the other, a form keeps the half of the configuration it does not show.
SettingsKept ==
  [](SettingsTypeOK /\ EnvironmentsConsistent) /\ [][OneRequest => FormsKeepEachOther]_allvars

\* Two projects (or two requests) that add one hostname at the same time both
\* get a row; only one of the rows can be verified at a time.
OneActivePerHost ==
  \A i, j \in {d \in Domains : /\ domain[d].status = "active"
                               /\ <<domain[d].project, domain[d].host>> \notin raced} :
    domain[i].host = domain[j].host => i = j

\* A hostname in the Traefik file of a project passed the DNS check for this
\* project, whatever was edited, removed or verified again since.
ServedWasVerified ==
  \A p \in Projects : \A route \in file[p] : <<p, route[1]>> \in verified \cup raced

\* However forms overlap, a hostname is active for one project, and what Traefik
\* routes passed the DNS check of the project, whatever was edited, removed or
\* verified again.  The one way around the check is to give a domain another
\* hostname between the load and the commit of its verification, or its
\* verification between the load and the commit of the edit (routers/project.py,
\* services/domain.py).
DomainsProven == OneActivePerHost /\ ServedWasVerified

\* A domain that is shown as disabled is not routed, once the requests that
\* rewrite the file of its project are done.
DisabledIsNotServed ==
  \A i \in {d \in Domains : domain[d].status = "disabled"} :
    LET p == domain[i].project
        others == {d \in Domains \ {i} : domain[d].project = p /\ domain[d].host = domain[i].host} IN
    (others = {} /\ \A r \in Requests : req[r].at # "changed")
       => \A route \in file[p] : route[1] # domain[i].host

\* An environment that was deleted stays deleted.
StatusOf(list, id) == IF Has(list, id) THEN list[IndexOf(list, id)].status ELSE "absent"
DeletedStaysDeleted ==
  [][\A p \in Projects, id \in EnvIds :
       StatusOf(envs[p], id) = "deleted" => StatusOf(envs'[p], id) = "deleted"]_allvars
---------------------------------------------------------------------------
(* What the properties rest on                                             *)

\* A list of environments starts with production, and neither an id nor, among
\* the active ones, a slug is there twice.
Sound(list) ==
  /\ list[1].id = Prod /\ list[1].slug = Production /\ list[1].status = "active"
  /\ \A i, j \in Slots(list) : list[i].id = list[j].id => i = j
  /\ Distinct(list)

Writable(list) == list # <<>> /\ Sound(list)

\* A row that is there, a row that was, or no row yet.
IsRow(row) ==
  \/ row \in {NoDomain, Removed}
  \/ row.project \in Projects /\ row.host \in Hosts /\ row.status \notin {"none", "removed"}

\* What a request knows, while the rows are these.
Visit(q, rows) ==
  /\ q \in Visits
  /\ q.at # "idle" => q.project \in Projects
  /\ q.at \in Looking => Writable(q.envs)
  /\ q.at \in {"valid", "checking", "checked"} => q.domain \in Domains
  /\ q.at = "valid" => q.host \in Hosts
  /\ q.at \in {"checking", "checked"} => q.row.host \in Hosts /\ rows[q.domain] # NoDomain

\* The lists that are stored, those that requests will write back, and the rows.
SettingsInv ==
  /\ SettingsTypeOK
  /\ \A p \in Projects : Writable(envs[p])
  /\ \A i \in Domains : IsRow(domain[i])
  /\ \A r \in Requests : Visit(req[r], domain)

\* What a request that verifies a domain knows of it is still so when it says what
\* came of it, unless it raced with an edit.
Knows(q, rows, proven, around) ==
  /\ q.at \in {"checking", "checked"} =>
       \/ rows[q.domain] = Removed
       \/ /\ rows[q.domain].project = q.project
          /\ rows[q.domain].host = q.row.host \/ <<q.project, rows[q.domain].host>> \in around
  /\ q.at = "checked" /\ q.ok => <<q.project, q.row.host>> \in proven

ActiveWasVerified ==
  \A i \in Domains : domain[i].status = "active" =>
    <<domain[i].project, domain[i].host>> \in verified \cup raced

\* What is active or routed was verified, or raced.
DomainsInv ==
  /\ SettingsInv
  /\ OneActivePerHost /\ ServedWasVerified /\ ActiveWasVerified
  /\ \A r \in Requests : Knows(req[r], domain, verified, raced)

\* While there is one request, what it loaded is what is stored.
LatestInv ==
  /\ SettingsInv /\ VarsBound
  /\ \A r \in Requests : LET q == req[r] IN
       q.at \in Looking => /\ q.envs = envs[q.project] /\ q.vars = vars[q.project]
                           /\ q.config = config[q.project]
=============================================================================
