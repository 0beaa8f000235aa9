---------------------------- MODULE SettingsProofs ----------------------------
(***************************************************************************)
(* Theorems about what people set in the FastAPI application: the          *)
(* environments, variables and domains of a project, the registry of       *)
(* runners, and the teams.                                                 *)
(*                                                                         *)
(* A list of environments that is stored or will be written back is sound  *)
(* whatever overlaps (SettingsInv): a save puts an entry in, changes one   *)
(* or takes one out of a list it checked as a whole.  Of domains,          *)
(* DomainsInv says what a request still knows of its row when it says what *)
(* came of the verification, and that an edit it raced with is on record;  *)
(* with one request at a time, what was loaded is what is stored           *)
(* (LatestInv).                                                            *)
(*                                                                         *)
(* Of the registry, for every catalog and every file of overrides: what    *)
(* pruning leaves of an entry enables what the entry did (PrunedEntry), so *)
(* that a toggle changes what it is about and nothing else.                *)
(*                                                                         *)
(* Of teams, that rows refer to rows there are whatever overlaps           *)
(* (MembersInv), and, when a request or a job begins after the last one,   *)
(* that nobody is a member twice and that a team loses its last owner only *)
(* when that member is removed: AloneInv says that what was checked still  *)
(* holds when it is acted upon.                                            *)
(***************************************************************************)
EXTENDS ProjectSettings, RunnerRegistry, Membership, SequenceTheorems, FiniteSetTheorems,
        WellFoundedInduction, TLAPS

-----------------------------------------------------------------------------
(* Lists of environments.                                                  *)

\* An environment that is in a list is found there.
LEMMA IndexOfHas ==
    ASSUME NEW list, NEW id, Has(list, id)
    PROVE  IndexOf(list, id) \in Slots(list) /\ list[IndexOf(list, id)].id = id
BY DEF Has, IndexOf

\* What a request may write back: a list that is sound.
IsList(list) == list \in Seq(Environments) /\ Writable(list)

\* A new environment has a new id and a slug no active one has.
LEMMA AppendSound ==
    ASSUME SettingsAssumption, NEW list, IsList(list),
           NEW id \in EnvIds, NEW slug \in Slugs, NEW branch \in Branches,
           ~Has(list, id), ~SlugTaken(list, slug, Null)
    PROVE  IsList(Append(list, Env(id, slug, branch)))
<1> DEFINE new == Append(list, Env(id, slug, branch))
<1>1. list \in Seq(Environments) /\ Len(list) \in Nat \ {0}
  BY EmptySeq, LenProperties DEF IsList, Writable
<1>2. Env(id, slug, branch) \in Environments BY DEF Env, Environments
<1>3. /\ new \in Seq(Environments) /\ Len(new) = Len(list) + 1
      /\ \A i \in 1..Len(list) : new[i] = list[i]
      /\ new[Len(list) + 1] = Env(id, slug, branch)
  BY <1>1, <1>2, AppendProperties
<1>4. new[1] = list[1] BY <1>1, <1>3
<1>5. \A i \in Slots(list) : list[i].id # id /\ list[i].id # Null
  <2>1. \A i \in Slots(list) : list[i] \in Environments BY <1>1, ElementOfSeq DEF Slots
  <2> QED BY <2>1 DEF Has, Environments, SettingsAssumption
<1>6. \A i \in Active(list) : list[i].slug # slug
  BY <1>5 DEF SlugTaken, Active
<1>7. \A i \in Slots(new) : (i \in Slots(list) /\ new[i] = list[i])
                             \/ (i = Len(list) + 1 /\ new[i] = Env(id, slug, branch))
  BY <1>1, <1>3 DEF Slots
<1>8. Env(id, slug, branch).id = id /\ Env(id, slug, branch).slug = slug BY DEF Env
<1> HIDE DEF new
<1>9. \A i, j \in Slots(new) : new[i].id = new[j].id => i = j
  <2> SUFFICES ASSUME NEW i \in Slots(new), NEW j \in Slots(new), new[i].id = new[j].id
               PROVE  i = j
    OBVIOUS
  <2> QED BY <1>5, <1>7, <1>8 DEF IsList, Writable, Sound
<1>10. Distinct(new)
  <2> SUFFICES ASSUME NEW i \in Active(new), NEW j \in Active(new), new[i].slug = new[j].slug
               PROVE  i = j
    BY DEF Distinct
  <2>1. i \in Slots(new) /\ j \in Slots(new) BY DEF Active
  <2>2. \A k \in {i, j} : k \in Active(list) \/ new[k] = Env(id, slug, branch)
    BY <1>7, <2>1 DEF Active
  <2> QED BY <1>6, <1>7, <1>8, <2>1, <2>2 DEF IsList, Writable, Sound, Distinct, Active
<1>11. new # <<>> BY <1>1, <1>3, EmptySeq
<1> QED BY <1>3, <1>4, <1>9, <1>10, <1>11 DEF IsList, Writable, Sound, new

\* An entry of a list that is replaced by one of its id, with a slug of its own.
LEMMA ReplaceSound ==
    ASSUME NEW list, IsList(list), NEW i \in Slots(list), NEW entry \in Environments,
           entry.id = list[i].id,
           i = 1 => entry.slug = list[1].slug /\ entry.status = "active",
           entry.status = "active" => \A j \in Active(list) \ {i} : list[j].slug # entry.slug
    PROVE  IsList([list EXCEPT ![i] = entry])
<1> DEFINE new == [list EXCEPT ![i] = entry]
<1>1. list \in Seq(Environments) /\ Len(list) \in Nat \ {0}
  BY EmptySeq, LenProperties DEF IsList, Writable
<1>2. /\ new \in Seq(Environments) /\ Len(new) = Len(list)
      /\ \A j \in 1..Len(list) : new[j] = IF j = i THEN entry ELSE list[j]
  BY <1>1, ExceptSeq DEF Slots
<1>3. new # <<>> BY <1>1, <1>2, EmptySeq
<1>4. 1 \in Slots(list) /\ Slots(new) = Slots(list) BY <1>1, <1>2 DEF Slots
<1>5. new[1].id = Prod /\ new[1].slug = Production /\ new[1].status = "active"
  BY <1>2, <1>4 DEF IsList, Writable, Sound, Slots
<1>6. \A j, k \in Slots(new) : new[j].id = new[k].id => j = k
  BY <1>2, <1>4 DEF IsList, Writable, Sound, Slots
<1>7. Distinct(new)
  BY <1>2, <1>4 DEF IsList, Writable, Sound, Slots, Distinct, Active
<1> QED BY <1>2, <1>3, <1>5, <1>6, <1>7 DEF IsList, Writable, Sound

\* UpdateEnvironment's list.
LEMMA UpdateSound ==
    ASSUME SettingsAssumption, NEW list, IsList(list),
           NEW id \in EnvIds, NEW slug \in Slugs, NEW branch \in Branches, Has(list, id),
           id = Prod => slug = list[IndexOf(list, id)].slug,
           slug # list[IndexOf(list, id)].slug => ~SlugTaken(list, slug, id)
    PROVE  LET i == IndexOf(list, id) IN
           IsList([list EXCEPT ![i].slug = slug, ![i].branch = branch])
<1> DEFINE i == IndexOf(list, id)
           entry == [list[i] EXCEPT !.slug = slug, !.branch = branch]
<1>1. i \in Slots(list) /\ list[i].id = id BY IndexOfHas
<1>2. list \in Seq(Environments) /\ \A j \in Slots(list) : list[j] \in Environments
  BY ElementOfSeq DEF IsList, Writable, Slots
<1>3. /\ entry \in Environments /\ entry.id = id /\ entry.slug = slug
      /\ entry.status = list[i].status
  BY <1>1, <1>2 DEF Environments
<1>4. i = 1 => id = Prod /\ entry.slug = list[1].slug /\ entry.status = "active"
  BY <1>1, <1>3 DEF IsList, Writable, Sound
<1>5. ASSUME entry.status = "active", NEW j \in Active(list) \ {i}
      PROVE  list[j].slug # entry.slug
  <2>1. j \in Slots(list) /\ list[j].id # id
    BY <1>1, <1>5 DEF IsList, Writable, Sound, Active
  <2>2. CASE slug = list[i].slug
    BY <1>1, <1>3, <1>5, <2>2 DEF IsList, Writable, Sound, Distinct, Active
  <2>3. CASE slug # list[i].slug
    BY <1>3, <2>1, <2>3 DEF SlugTaken
  <2> QED BY <2>2, <2>3
<1>6. IsList([list EXCEPT ![i] = entry])
  <2> HIDE DEF i, entry
  <2> QED BY <1>1, <1>3, <1>4, <1>5, ReplaceSound
<1>7. [list EXCEPT ![i].slug = slug, ![i].branch = branch] = [list EXCEPT ![i] = entry]
  BY <1>1, <1>2 DEF IsList, Writable, Slots
<1> QED BY <1>6, <1>7

\* DeleteEnvironment's list.
LEMMA DeleteSound ==
    ASSUME NEW list, IsList(list), NEW id, Has(list, id), id # Prod
    PROVE  IsList([list EXCEPT ![IndexOf(list, id)].status = "deleted"])
<1> DEFINE i == IndexOf(list, id)
           entry == [list[i] EXCEPT !.status = "deleted"]
<1>1. i \in Slots(list) /\ list[i].id = id BY IndexOfHas
<1>2. list \in Seq(Environments) /\ \A j \in Slots(list) : list[j] \in Environments
  BY ElementOfSeq DEF IsList, Writable, Slots
<1>3. entry \in Environments /\ entry.id = id /\ entry.status = "deleted"
  BY <1>1, <1>2 DEF Environments
<1>4. i # 1 BY <1>1 DEF IsList, Writable, Sound
<1>5. IsList([list EXCEPT ![i] = entry])
  <2> HIDE DEF i, entry
  <2> QED BY <1>1, <1>3, <1>4, ReplaceSound
<1> QED BY <1>5

\* The environment of a branch is one of the list.
LEMMA EnvironmentForHas ==
    ASSUME NEW list \in Seq(Environments), NEW branch, EnvironmentFor(list, branch) # Null
    PROVE  EnvironmentFor(list, branch) \in EnvIds
<1> DEFINE takes == {i \in Active(list) : list[i].branch = branch}
<1>0. takes \subseteq 1..Len(list) BY DEF Active, Slots
<1>1. takes # {} BY DEF EnvironmentFor
<1>2. takes \subseteq Nat BY DEF Active, Slots
<1> DEFINE Below == {ss \in Nat \X Nat : ss[1] < ss[2]}
<1>3. IsWellFoundedOn(Below, Nat) BY NatLessThanWellFounded DEF OpToRel
<1>4. PICK i \in takes : \A j \in takes : ~(<<j, i>> \in Below)
  BY <1>1, <1>2, <1>3, WFMin
<1>5. \A j \in takes : i <= j
  <2> HIDE DEF takes, Below
  <2> SUFFICES ASSUME NEW j \in takes PROVE i <= j OBVIOUS
  <2>1. j \in Nat /\ i \in Nat BY <1>2
  <2>2. ~(<<j, i>> \in Below) BY <1>4
  <2>3. ~(j < i) BY <2>1, <2>2 DEF Below
  <2> QED BY <2>1, <2>3
<1> DEFINE least == CHOOSE j \in takes : \A k \in takes : j <= k
<1>6. least \in takes
  <2>1. \E j \in takes : \A k \in takes : j <= k BY <1>4, <1>5
  <2> QED BY <2>1
<1>7. list[least] \in Environments BY <1>0, <1>6, ElementOfSeq
<1>8. EnvironmentFor(list, branch) = list[least].id BY <1>1 DEF EnvironmentFor
<1> QED BY <1>7, <1>8 DEF Environments

-----------------------------------------------------------------------------
(* Types, lists and rows, however requests overlap.                        *)

\* An empty visit and one that goes on to write the file.
LEMMA VisitsEnd ==
    ASSUME SettingsAssumption, NEW rows
    PROVE  /\ NoVisit \in Visits /\ Visit(NoVisit, rows)
           /\ \A p \in Projects : Visit([NoVisit EXCEPT !.at = "changed", !.project = p], rows)
<1>1. NoDomain \in DomainRows BY DEF NoDomain, DomainRows
<1>2. NoVisit \in Visits
  BY <1>1, EmptySeq DEF NoVisit, Visits, Bound, Configs
<1>3. \A p \in Projects : [NoVisit EXCEPT !.at = "changed", !.project = p] \in Visits
  BY <1>2 DEF Visits, NoVisit
<1> QED BY <1>2, <1>3 DEF Visit, NoVisit, Looking

\* A request that does something leaves the others what they know, as rows
\* that are there do not become rows that never were.
LEMMA VisitsGoOn ==
    ASSUME SettingsInv, NEW r \in Requests, NEW x, Visit(x, domain'),
           req' = [req EXCEPT ![r] = x],
           \A i \in Domains : domain[i] # NoDomain => domain'[i] # NoDomain
    PROVE  /\ req' \in [Requests -> Visits]
           /\ \A s \in Requests : Visit(req'[s], domain')
<1>1. req \in [Requests -> Visits] /\ \A s \in Requests : Visit(req[s], domain)
  BY DEF SettingsInv, SettingsTypeOK
<1>2. x \in Visits BY DEF Visit
<1>3. \A s \in Requests : req'[s] = IF s = r THEN x ELSE req[s] BY <1>1
<1>4. \A s \in Requests : Visit(req[s], domain')
  BY <1>1 DEF Visit
<1> QED BY <1>1, <1>2, <1>3, <1>4

\* Done and Refresh.
LEMMA VisitsDone ==
    ASSUME SettingsAssumption, SettingsInv, NEW r \in Requests,
           Done(r) \/ (req[r].project \in Projects /\ Refresh(r)),
           \A i \in Domains : domain[i] # NoDomain => domain'[i] # NoDomain
    PROVE  /\ req' \in [Requests -> Visits]
           /\ \A s \in Requests : Visit(req'[s], domain')
<1>1. CASE Done(r) BY <1>1, VisitsEnd, VisitsGoOn DEF Done
<1>2. CASE req[r].project \in Projects /\ Refresh(r)
  BY <1>2, VisitsEnd, VisitsGoOn DEF Refresh
<1> QED BY <1>1, <1>2

\* What is left alone.
LEMMA RoutingStays ==
    ASSUME SettingsInv, UNCHANGED routing,
           envs' \in [Projects -> Seq(Environments)], \A p \in Projects : Writable(envs'[p]),
           vars' \in [Projects -> Bound], config' \in [Projects -> Configs],
           req' \in [Requests -> Visits], \A s \in Requests : Visit(req'[s], domain')
    PROVE  SettingsInv'
BY DEF SettingsInv, SettingsTypeOK, routing, Visit, Visits, Writable, Sound, Slots, Distinct, Active,
       IsRow

LEMMA SettingsStay ==
    ASSUME SettingsInv, UNCHANGED settings,
           domain' \in [Domains -> DomainRows], \A i \in Domains : IsRow(domain'[i]),
           dns' \subseteq Hosts, live' \in [Projects -> SUBSET EnvIds],
           file' \in [Projects -> SUBSET (Hosts \X EnvIds)],
           verified' \subseteq Projects \X Hosts, raced' \subseteq Projects \X Hosts,
           edits' \in 0..MaxDomainEdits,
           req' \in [Requests -> Visits], \A s \in Requests : Visit(req'[s], domain')
    PROVE  SettingsInv'
BY DEF SettingsInv, SettingsTypeOK, settings

LEMMA LoadInv ==
    ASSUME SettingsAssumption, SettingsInv, NEW r \in Requests,
           (\E p \in Projects : Load(r, p)) \/ Leave(r)
    PROVE  SettingsInv'
<1>1. ASSUME NEW p \in Projects, Load(r, p) PROVE SettingsInv'
  <2> DEFINE x == [NoVisit EXCEPT !.at = "loaded", !.project = p,
                     !.envs = envs[p], !.vars = vars[p], !.config = config[p]]
  <2>1. /\ envs[p] \in Seq(Environments) /\ Writable(envs[p])
        /\ vars[p] \in Bound /\ config[p] \in Configs
    BY DEF SettingsInv, SettingsTypeOK
  <2>2. x \in Visits /\ x.at = "loaded" /\ x.project = p /\ x.envs = envs[p]
    BY <2>1, VisitsEnd DEF Visits
  <2>3. Visit(x, domain') BY <2>1, <2>2 DEF Visit
  <2>4. req' = [req EXCEPT ![r] = x] /\ UNCHANGED <<settings, routing>>
    BY <1>1 DEF Load
  <2> HIDE DEF x
  <2>5. /\ req' \in [Requests -> Visits]
        /\ \A s \in Requests : Visit(req'[s], domain')
    BY <2>3, <2>4, VisitsGoOn DEF routing
  <2> QED BY <2>4, <2>5, RoutingStays DEF settings, SettingsInv, SettingsTypeOK
<1>2. CASE Leave(r)
  <2>1. UNCHANGED <<settings, routing>> BY <1>2 DEF Leave
  <2>2. /\ req' \in [Requests -> Visits]
        /\ \A s \in Requests : Visit(req'[s], domain')
    BY <1>2, <2>1, VisitsDone DEF Leave, routing
  <2> QED BY <2>1, <2>2, RoutingStays DEF settings, SettingsInv, SettingsTypeOK
<1> QED BY <1>1, <1>2

\* What a request that has loaded a project holds.
LEMMA LoadedHolds ==
    ASSUME SettingsInv, NEW r \in Requests, req[r].at \in Looking
    PROVE  /\ req[r] \in Visits /\ req[r].project \in Projects /\ IsList(req[r].envs)
           /\ req[r].vars \in Bound /\ req[r].config \in Configs
<1>1. req[r] \in Visits /\ Visit(req[r], domain) BY DEF SettingsInv, SettingsTypeOK
<1> QED BY <1>1 DEF Visit, IsList, Visits, Looking

\* A form that writes the list of its project.
LEMMA ListWritten ==
    ASSUME SettingsAssumption, SettingsInv, NEW r \in Requests, req[r].at = "loaded",
           NEW list, IsList(list),
           NEW v, envs' = [envs EXCEPT ![req[r].project] = v], v \in {envs[req[r].project], list}
    PROVE  envs' \in [Projects -> Seq(Environments)] /\ \A p \in Projects : Writable(envs'[p])
<1> DEFINE p == req[r].project
<1>1. p \in Projects BY LoadedHolds DEF Looking
<1>2. envs \in [Projects -> Seq(Environments)] /\ \A q \in Projects : Writable(envs[q])
  BY DEF SettingsInv, SettingsTypeOK
<1>3. v \in Seq(Environments) /\ Writable(v) BY <1>1, <1>2 DEF IsList
<1> HIDE DEF p
<1> QED BY <1>1, <1>2, <1>3 DEF p

LEMMA CreateEnvironmentInv ==
    ASSUME SettingsAssumption, SettingsInv, NEW r \in Requests,
           NEW id \in EnvIds, NEW slug \in Slugs, NEW branch \in Branches,
           CreateEnvironment(r, id, slug, branch)
    PROVE  SettingsInv'
<1> DEFINE list == req[r].envs
           new == Append(list, Env(id, slug, branch))
<1>1. /\ req[r].at = "loaded" /\ ~Has(list, id) /\ ~SlugTaken(list, slug, Null)
      /\ envs' = [envs EXCEPT ![req[r].project] = new]
      /\ Done(r) /\ UNCHANGED <<vars, config, routing>>
  BY DEF CreateEnvironment, Loaded
<1>2. IsList(list) BY <1>1, LoadedHolds DEF Looking
<1>3. IsList(new) BY <1>1, <1>2, AppendSound
<1> HIDE DEF new
<1>4. envs' \in [Projects -> Seq(Environments)] /\ \A q \in Projects : Writable(envs'[q])
  BY <1>1, <1>3, ListWritten
<1>5. req' \in [Requests -> Visits] /\ \A s \in Requests : Visit(req'[s], domain')
  BY <1>1, VisitsDone DEF routing
<1> QED BY <1>1, <1>4, <1>5, RoutingStays DEF SettingsInv, SettingsTypeOK

LEMMA UpdateEnvironmentInv ==
    ASSUME SettingsAssumption, SettingsInv, NEW r \in Requests,
           NEW id \in EnvIds, NEW slug \in Slugs, NEW branch \in Branches,
           UpdateEnvironment(r, id, slug, branch)
    PROVE  SettingsInv'
<1> DEFINE p == req[r].project
           list == req[r].envs
           i == IndexOf(list, id)
           new == [list EXCEPT ![i].slug = slug, ![i].branch = branch]
           v == Written(envs[p], list, new)
<1>1. /\ req[r].at = "loaded" /\ Has(list, id)
      /\ id = Prod => slug = list[i].slug
      /\ slug # list[i].slug => ~SlugTaken(list, slug, id)
      /\ Done(r) /\ UNCHANGED <<config, routing>>
      /\ vars' = IF slug = list[i].slug THEN vars
                 ELSE [vars EXCEPT ![p] = Renamed(req[r].vars, list[i].slug, slug)]
  BY DEF UpdateEnvironment, Loaded
<1>2. p \in Projects /\ IsList(list) /\ req[r].vars \in Bound
  BY <1>1, LoadedHolds DEF Looking
<1>3. IsList(new) BY <1>1, <1>2, UpdateSound
<1>4. envs' = [envs EXCEPT ![p] = v]
  BY <1>2 DEF UpdateEnvironment, SettingsInv, SettingsTypeOK
<1>5. v \in {envs[p], new} BY DEF Written
<1>6. Renamed(req[r].vars, list[i].slug, slug) \in Bound BY <1>2 DEF Renamed, Bound
<1> HIDE DEF new, v, p, i, list
<1>7. envs' \in [Projects -> Seq(Environments)] /\ \A q \in Projects : Writable(envs'[q])
  BY <1>1, <1>3, <1>4, <1>5, ListWritten DEF p
<1>8. vars' \in [Projects -> Bound]
  BY <1>1, <1>2, <1>6 DEF SettingsInv, SettingsTypeOK
<1>9. req' \in [Requests -> Visits] /\ \A s \in Requests : Visit(req'[s], domain')
  BY <1>1, VisitsDone DEF routing
<1> QED BY <1>1, <1>7, <1>8, <1>9, RoutingStays DEF SettingsInv, SettingsTypeOK

\* The rows of an environment that is deleted are disabled.
LEMMA DisabledRows ==
    ASSUME SettingsInv, domain' = [d \in Domains |-> domain'[d]],
           \A d \in Domains :
             \/ domain'[d] = domain[d]
             \/ /\ domain[d].status = "active"
                /\ domain'[d] = [domain[d] EXCEPT !.status = "disabled", !.env = Null]
    PROVE  /\ domain' \in [Domains -> DomainRows]
           /\ \A d \in Domains : /\ IsRow(domain'[d])
                                 /\ domain[d] # NoDomain => domain'[d] # NoDomain
<1> SUFFICES ASSUME NEW d \in Domains
             PROVE  /\ domain'[d] \in DomainRows /\ IsRow(domain'[d])
                    /\ domain[d] # NoDomain => domain'[d] # NoDomain
  OBVIOUS
<1>1. domain[d] \in DomainRows /\ IsRow(domain[d]) BY DEF SettingsInv, SettingsTypeOK
<1>2. CASE domain'[d] = domain[d] BY <1>1, <1>2
<1>3. CASE domain'[d] = [domain[d] EXCEPT !.status = "disabled", !.env = Null]
           /\ domain[d].status = "active"
  <2>1. NoDomain.status = "none" /\ Removed.status = "removed" BY DEF NoDomain, Removed
  <2>2. domain[d].project \in Projects /\ domain[d].host \in Hosts BY <1>1, <1>3, <2>1 DEF IsRow
  <2>3. /\ domain'[d] \in DomainRows /\ domain'[d].status = "disabled"
        /\ domain'[d].project = domain[d].project /\ domain'[d].host = domain[d].host
    BY <1>1, <1>3 DEF DomainRows
  <2> QED BY <2>1, <2>2, <2>3 DEF IsRow
<1> QED BY <1>2, <1>3

LEMMA DeleteEnvironmentInv ==
    ASSUME SettingsAssumption, SettingsInv, NEW r \in Requests, NEW id \in EnvIds,
           DeleteEnvironment(r, id)
    PROVE  SettingsInv'
<1> DEFINE p == req[r].project
           list == req[r].envs
           i == IndexOf(list, id)
           new == [list EXCEPT ![i].status = "deleted"]
           v == Written(envs[p], list, new)
<1>1. /\ req[r].at = "loaded" /\ Has(list, id) /\ id # Prod
      /\ Done(r) \/ Refresh(r)
      /\ vars' = [vars EXCEPT ![p] = req[r].vars \ {list[i].slug}]
      /\ UNCHANGED <<config, live, dns, file, verified, raced, edits>>
  BY DEF DeleteEnvironment, Loaded
<1>2. p \in Projects /\ IsList(list) /\ req[r].vars \in Bound
  BY <1>1, LoadedHolds DEF Looking
<1>3. IsList(new) BY <1>1, <1>2, DeleteSound
<1>4. envs' = [envs EXCEPT ![p] = v]
  BY <1>2 DEF DeleteEnvironment, SettingsInv, SettingsTypeOK
<1>5. v \in {envs[p], new} BY SMTT(40) DEF Written
<1>6. /\ domain' \in [Domains -> DomainRows]
      /\ \A d \in Domains : /\ IsRow(domain'[d])
                            /\ domain[d] # NoDomain => domain'[d] # NoDomain
  <2>1. domain' = [d \in Domains |->
          IF domain[d].project = p /\ domain[d].env = id /\ domain[d].status = "active"
          THEN [domain[d] EXCEPT !.status = "disabled", !.env = Null] ELSE domain[d]]
    BY DEF DeleteEnvironment
  <2> QED BY <2>1, DisabledRows
<1> HIDE DEF new, v, i, list
<1>7. envs' \in [Projects -> Seq(Environments)] /\ \A q \in Projects : Writable(envs'[q])
  BY <1>1, <1>3, <1>4, <1>5, ListWritten
<1>8. vars' \in [Projects -> Bound]
  BY <1>1, <1>2 DEF SettingsInv, SettingsTypeOK, Bound
<1>9. req' \in [Requests -> Visits] /\ \A s \in Requests : Visit(req'[s], domain')
  BY <1>1, <1>2, <1>6, VisitsDone
<1> QED BY <1>1, <1>6, <1>7, <1>8, <1>9 DEF SettingsInv, SettingsTypeOK

\* The forms for variables and for the two halves of the configuration.
LEMMA SaveInv ==
    ASSUME SettingsAssumption, SettingsInv, NEW r \in Requests,
           \/ \E bound \in SUBSET (Slugs \cup {Null}) : SaveVars(r, bound)
           \/ \E v \in {1, 2} : SaveBuild(r, v) \/ SaveResources(r, v)
    PROVE  SettingsInv'
<1> DEFINE p == req[r].project
<1>1. req[r].at = "loaded" /\ Done(r) /\ UNCHANGED <<envs, routing>>
  BY DEF SaveVars, SaveBuild, SaveResources, Loaded
<1>2. p \in Projects /\ req[r].config \in Configs BY <1>1, LoadedHolds DEF Looking
<1>3. vars' \in [Projects -> Bound] /\ config' \in [Projects -> Configs]
  <2>1. CASE \E bound \in SUBSET (Slugs \cup {Null}) : SaveVars(r, bound)
    BY <2>1 DEF SaveVars, SettingsInv, SettingsTypeOK, Bound
  <2>2. CASE \E v \in {1, 2} : SaveBuild(r, v)
    <3>1. PICK v \in {1, 2} : SaveBuild(r, v) BY <2>2
    <3>2. [req[r].config EXCEPT !.build = v] \in Configs BY <1>2 DEF Configs
    <3> QED BY <1>2, <3>1, <3>2 DEF SaveBuild, Written, SettingsInv, SettingsTypeOK
  <2>3. CASE \E v \in {1, 2} : SaveResources(r, v)
    <3>1. PICK v \in {1, 2} : SaveResources(r, v) BY <2>3
    <3>2. [req[r].config EXCEPT !.resources = v] \in Configs BY <1>2 DEF Configs
    <3> QED BY <1>2, <3>1, <3>2 DEF SaveResources, Written, SettingsInv, SettingsTypeOK
  <2> QED BY <2>1, <2>2, <2>3
<1>4. req' \in [Requests -> Visits] /\ \A s \in Requests : Visit(req'[s], domain')
  BY <1>1, VisitsDone DEF routing
<1> QED BY <1>1, <1>3, <1>4, RoutingStays DEF SettingsInv, SettingsTypeOK

\* The form of a domain, and the button that verifies it.
LEMMA LookInv ==
    ASSUME SettingsAssumption, SettingsInv, NEW r \in Requests, NEW i \in Domains,
           (\E h \in Hosts : CheckHost(r, i, h)) \/ Verify(r, i)
    PROVE  SettingsInv'
<1>1. req[r].at = "loaded" /\ UNCHANGED <<settings, routing>>
  BY DEF CheckHost, Verify, Loaded
<1>2. req[r] \in Visits /\ req[r].project \in Projects /\ Writable(req[r].envs)
  BY <1>1, LoadedHolds DEF Looking, IsList
<1>3. domain[i] \in DomainRows /\ IsRow(domain[i]) BY DEF SettingsInv, SettingsTypeOK
<1>4. PICK x : Visit(x, domain') /\ req' = [req EXCEPT ![r] = x]
  <2>1. ASSUME NEW h \in Hosts, CheckHost(r, i, h)
        PROVE  \E x : Visit(x, domain') /\ req' = [req EXCEPT ![r] = x]
    <3> DEFINE x == [req[r] EXCEPT !.at = "valid", !.domain = i, !.row = domain[i], !.host = h]
    <3>1. /\ x \in Visits /\ x.at = "valid" /\ x.domain = i /\ x.host = h
          /\ x.project = req[r].project /\ x.envs = req[r].envs
      BY <1>2, <1>3 DEF Visits
    <3>2. Visit(x, domain') BY <1>2, <3>1 DEF Visit
    <3>3. req' = [req EXCEPT ![r] = x] BY <2>1 DEF CheckHost, SettingsInv, SettingsTypeOK
    <3> QED BY <3>2, <3>3
  <2>2. CASE Verify(r, i)
    <3> DEFINE x == [req[r] EXCEPT !.at = "checking", !.domain = i, !.row = domain[i]]
    <3>1. /\ x \in Visits /\ x.at = "checking" /\ x.domain = i /\ x.row = domain[i]
          /\ x.project = req[r].project /\ x.envs = req[r].envs
      BY <1>2, <1>3 DEF Visits
    <3>2. domain[i].project \in Projects BY <1>2, <2>2 DEF Verify
    <3>3. domain[i] # NoDomain /\ domain[i].host \in Hosts
      BY <1>3, <3>2 DEF IsRow, NoDomain, Removed, SettingsAssumption
    <3>4. Visit(x, domain') BY <1>1, <1>2, <3>1, <3>3 DEF Visit, routing
    <3>5. req' = [req EXCEPT ![r] = x] BY <2>2 DEF Verify, SettingsInv, SettingsTypeOK
    <3> QED BY <3>4, <3>5
  <2> QED BY <2>1, <2>2
<1>5. req' \in [Requests -> Visits] /\ \A s \in Requests : Visit(req'[s], domain')
  BY <1>1, <1>4, VisitsGoOn DEF routing
<1> QED BY <1>1, <1>5, RoutingStays DEF settings, SettingsInv, SettingsTypeOK

\* A row that is written is a row of a project.
LEMMA RowWritten ==
    ASSUME SettingsInv, NEW i \in Domains, NEW row \in DomainRows, IsRow(row), row # NoDomain,
           domain' = [domain EXCEPT ![i] = row]
    PROVE  /\ domain' \in [Domains -> DomainRows]
           /\ \A d \in Domains : /\ IsRow(domain'[d])
                                 /\ domain[d] # NoDomain => domain'[d] # NoDomain
BY DEF SettingsInv, SettingsTypeOK

LEMMA AddDomainInv ==
    ASSUME SettingsAssumption, SettingsInv, NEW r \in Requests, NEW e \in EnvIds, AddDomain(r, e)
    PROVE  SettingsInv'
<1> DEFINE i == req[r].domain
           row == [project |-> req[r].project, host |-> req[r].host, env |-> e,
                   status |-> "pending"]
<1>1. /\ req[r].at = "valid" /\ Edit /\ domain' = [domain EXCEPT ![i] = row]
      /\ Done(r) /\ UNCHANGED <<settings, live, dns, file, verified, raced>>
  BY DEF AddDomain
<1>2. Visit(req[r], domain) BY DEF SettingsInv
<1>3. i \in Domains /\ req[r].project \in Projects /\ req[r].host \in Hosts
  BY <1>1, <1>2 DEF Visit
<1>4. row \in DomainRows /\ IsRow(row) /\ row.status = "pending"
  BY <1>3 DEF DomainRows, IsRow
<1>5. row # NoDomain BY <1>4 DEF NoDomain
<1> HIDE DEF row, i
<1>6. /\ domain' \in [Domains -> DomainRows]
      /\ \A d \in Domains : /\ IsRow(domain'[d])
                            /\ domain[d] # NoDomain => domain'[d] # NoDomain
  BY <1>1, <1>3, <1>4, <1>5, RowWritten
<1>7. req' \in [Requests -> Visits] /\ \A s \in Requests : Visit(req'[s], domain')
  BY <1>1, <1>6, VisitsDone
<1>8. edits' \in 0..MaxDomainEdits
  BY <1>1 DEF Edit, SettingsInv, SettingsTypeOK, SettingsAssumption
<1> QED BY <1>1, <1>6, <1>7, <1>8, SettingsStay DEF SettingsInv, SettingsTypeOK

LEMMA EditDomainInv ==
    ASSUME SettingsAssumption, SettingsInv, NEW r \in Requests, NEW e \in EnvIds, EditDomain(r, e)
    PROVE  SettingsInv'
<1> DEFINE i == req[r].domain
           host == req[r].host
           seen == req[r].row
           row == [domain[i] EXCEPT !.host = Written(@, seen.host, host),
                     !.env = Written(@, seen.env, e),
                     !.status = IF host = seen.host THEN @ ELSE Written(@, seen.status, "pending")]
<1>1. /\ req[r].at = "valid" /\ domain[i].project # Null /\ Edit
      /\ Done(r) /\ UNCHANGED <<settings, live, dns, file, verified>>
  BY DEF EditDomain
<1>2. Visit(req[r], domain) BY DEF SettingsInv
<1>3. i \in Domains /\ host \in Hosts BY <1>1, <1>2 DEF Visit
<1>4. domain \in [Domains -> DomainRows] /\ domain[i] \in DomainRows /\ IsRow(domain[i])
  BY <1>3 DEF SettingsInv, SettingsTypeOK
<1>5. NoDomain.status = "none" /\ NoDomain.project = Null /\ Removed.project = Null
  BY DEF NoDomain, Removed
<1>6. /\ domain[i].project \in Projects /\ domain[i].host \in Hosts
      /\ domain[i].status \notin {"none", "removed"}
  BY <1>1, <1>4, <1>5 DEF IsRow
<1>7. /\ row \in DomainRows /\ row.project = domain[i].project
      /\ row.host \in Hosts /\ row.status \in {"pending", domain[i].status}
  BY <1>3, <1>4, <1>6 DEF DomainRows, Written
<1>8. IsRow(row) /\ row # NoDomain BY <1>5, <1>6, <1>7 DEF IsRow
<1>9. domain' = [domain EXCEPT ![i] = row] BY <1>3, <1>4 DEF EditDomain
<1> HIDE DEF row, i
<1>10. /\ domain' \in [Domains -> DomainRows]
       /\ \A d \in Domains : /\ IsRow(domain'[d])
                             /\ domain[d] # NoDomain => domain'[d] # NoDomain
  BY <1>3, <1>7, <1>8, <1>9, RowWritten
<1>11. req' \in [Requests -> Visits] /\ \A s \in Requests : Visit(req'[s], domain')
  BY <1>1, <1>10, VisitsDone
<1>12. edits' \in 0..MaxDomainEdits
  BY <1>1 DEF Edit, SettingsInv, SettingsTypeOK, SettingsAssumption
<1>13. raced' = raced \/ raced' = raced \cup {<<domain[i].project, host>>}
  BY DEF EditDomain, i
<1>14. raced' \subseteq Projects \X Hosts
  BY <1>3, <1>6, <1>13 DEF SettingsInv, SettingsTypeOK
<1> QED BY <1>1, <1>10, <1>11, <1>12, <1>14, SettingsStay DEF SettingsInv, SettingsTypeOK

LEMMA RemoveDomainInv ==
    ASSUME SettingsAssumption, SettingsInv, NEW r \in Requests, NEW i \in Domains,
           RemoveDomain(r, i)
    PROVE  SettingsInv'
<1>1. /\ req[r].at = "loaded" /\ domain' = [domain EXCEPT ![i] = Removed] /\ Refresh(r)
      /\ UNCHANGED <<settings, live, dns, file, verified, raced, edits>>
  BY DEF RemoveDomain, Loaded
<1>2. Removed \in DomainRows /\ Removed # NoDomain /\ IsRow(Removed)
  <2>1. NoDomain.status = "none" /\ Removed.status = "removed" BY DEF NoDomain, Removed
  <2> QED BY <2>1 DEF DomainRows, Removed, NoDomain, IsRow
<1>3. /\ domain' \in [Domains -> DomainRows]
      /\ \A d \in Domains : /\ IsRow(domain'[d])
                            /\ domain[d] # NoDomain => domain'[d] # NoDomain
  BY <1>1, <1>2, RowWritten
<1>4. req' \in [Requests -> Visits] /\ \A s \in Requests : Visit(req'[s], domain')
  BY <1>1, <1>3, VisitsDone, LoadedHolds DEF Looking
<1> QED BY <1>1, <1>3, <1>4, SettingsStay DEF SettingsInv, SettingsTypeOK

LEMMA VerifyDnsInv ==
    ASSUME SettingsAssumption, SettingsInv, NEW r \in Requests, VerifyDns(r)
    PROVE  SettingsInv'
<1> DEFINE seen == req[r].row
           good == seen.env \in live[req[r].project] /\ seen.host \in dns
           x == [req[r] EXCEPT !.at = "checked", !.ok = good]
<1>1. /\ req[r].at = "checking"
      /\ verified' = IF good THEN verified \cup {<<req[r].project, seen.host>>} ELSE verified
      /\ UNCHANGED <<settings, domain, live, dns, file, raced, edits>>
  BY DEF VerifyDns
<1>2. Visit(req[r], domain) /\ req[r] \in Visits BY DEF SettingsInv, SettingsTypeOK
<1>3. req[r].project \in Projects /\ seen.host \in Hosts BY <1>1, <1>2 DEF Visit
<1>4. good \in BOOLEAN OBVIOUS
<1>5. /\ x \in Visits /\ x.at = "checked" /\ x.domain = req[r].domain /\ x.row = seen
      /\ x.project = req[r].project /\ x.envs = req[r].envs
  <2> HIDE DEF good
  <2> QED BY <1>2, <1>4 DEF Visits
<1>6. Visit(x, domain')
  <2> HIDE DEF x
  <2> QED BY <1>1, <1>2, <1>5 DEF Visit, Looking
<1>7. req' = [req EXCEPT ![r] = x] BY DEF VerifyDns, SettingsInv, SettingsTypeOK
<1> HIDE DEF x, good
<1>8. req' \in [Requests -> Visits] /\ \A s \in Requests : Visit(req'[s], domain')
  BY <1>1, <1>6, <1>7, VisitsGoOn
<1>9. verified' \subseteq Projects \X Hosts
  BY <1>1, <1>3 DEF SettingsInv, SettingsTypeOK
<1> QED BY <1>1, <1>8, <1>9, SettingsStay DEF SettingsInv, SettingsTypeOK

\* A verification changes the status of rows that are there, and nothing else.
LEMMA VerifyCommitRows ==
    ASSUME SettingsAssumption, SettingsInv, NEW r \in Requests, VerifyCommit(r)
    PROVE  /\ domain' = [d \in Domains |-> domain'[d]]
           /\ \A d \in Domains :
                \/ domain'[d] = domain[d]
                \/ /\ domain[d].status \notin {"none", "removed"}
                   /\ \E s \in {"active", "failed", "disabled"} :
                        domain'[d] = [domain[d] EXCEPT !.status = s]
<1> DEFINE i == req[r].domain
<1>1. Visit(req[r], domain) /\ req[r].at = "checked" BY DEF SettingsInv, VerifyCommit
<1>2. i \in Domains /\ domain[i] # NoDomain BY <1>1 DEF Visit
<1>3. domain \in [Domains -> DomainRows] /\ IsRow(domain[i])
  BY <1>2 DEF SettingsInv, SettingsTypeOK
<1>4. CASE domain[i] = Removed BY <1>1, <1>3, <1>4 DEF VerifyCommit
<1>5. CASE domain[i] # Removed /\ req[r].ok
  <2>1. domain[i].status \notin {"none", "removed"} BY <1>2, <1>3, <1>5 DEF IsRow
  <2>2. domain' = [d \in Domains |-> IF d = i THEN [domain[d] EXCEPT !.status = "active"]
                                     ELSE Disabled(domain[d], req[r].row.host)]
    BY <1>5 DEF VerifyCommit
  <2>3. \A d \in Domains :
          \/ Disabled(domain[d], req[r].row.host) = domain[d]
          \/ /\ domain[d].status \notin {"none", "removed"}
             /\ Disabled(domain[d], req[r].row.host) = [domain[d] EXCEPT !.status = "disabled"]
    BY DEF Disabled
  <2> HIDE DEF i
  <2> QED BY <2>1, <2>2, <2>3
<1>6. CASE domain[i] # Removed /\ ~req[r].ok
  <2>1. domain[i].status \notin {"none", "removed"} BY <1>2, <1>3, <1>6 DEF IsRow
  <2>2. PICK s : s \in {domain[i].status, "failed"}
                 /\ domain' = [domain EXCEPT ![i] = [domain[i] EXCEPT !.status = s]]
    BY <1>2, <1>3, <1>6 DEF VerifyCommit, Written
  <2>3. s = domain[i].status => [domain[i] EXCEPT !.status = s] = domain[i]
    BY <1>2, <1>3 DEF DomainRows
  <2> HIDE DEF i
  <2> QED BY <1>2, <1>3, <2>1, <2>2, <2>3
<1> QED BY <1>4, <1>5, <1>6

LEMMA VerifyCommitInv ==
    ASSUME SettingsAssumption, SettingsInv, NEW r \in Requests, VerifyCommit(r)
    PROVE  SettingsInv'
<1>1. Visit(req[r], domain) /\ req[r].at = "checked" BY DEF SettingsInv, VerifyCommit
<1>2. req[r].project \in Projects BY <1>1 DEF Visit
<1>3. domain' \in [Domains -> DomainRows]
      /\ \A d \in Domains : /\ IsRow(domain'[d])
                            /\ domain[d] # NoDomain => domain'[d] # NoDomain
  <2> SUFFICES ASSUME NEW d \in Domains
               PROVE  /\ domain'[d] \in DomainRows /\ IsRow(domain'[d])
                      /\ domain[d] # NoDomain => domain'[d] # NoDomain
    BY VerifyCommitRows
  <2>1. domain[d] \in DomainRows /\ IsRow(domain[d]) BY DEF SettingsInv, SettingsTypeOK
  <2>2. CASE domain'[d] = domain[d] BY <2>1, <2>2
  <2>3. CASE domain[d].status \notin {"none", "removed"} /\ domain'[d] # domain[d]
    <3>1. PICK s \in {"active", "failed", "disabled"} :
                domain'[d] = [domain[d] EXCEPT !.status = s]
      BY <2>3, VerifyCommitRows
    <3>2. NoDomain.status = "none" /\ Removed.status = "removed" BY DEF NoDomain, Removed
    <3>3. domain[d].project \in Projects /\ domain[d].host \in Hosts BY <2>1, <2>3, <3>2 DEF IsRow
    <3>4. /\ domain'[d] \in DomainRows /\ domain'[d].status = s
          /\ domain'[d].project = domain[d].project /\ domain'[d].host = domain[d].host
      BY <2>1, <3>1 DEF DomainRows
    <3> QED BY <3>2, <3>3, <3>4 DEF IsRow
  <2> QED BY <2>2, <2>3, VerifyCommitRows
<1>4. (Done(r) \/ Refresh(r)) /\ UNCHANGED <<settings, live, dns, file, verified, raced, edits>>
  BY DEF VerifyCommit
<1>5. req' \in [Requests -> Visits] /\ \A s \in Requests : Visit(req'[s], domain')
  BY <1>2, <1>3, <1>4, VisitsDone
<1> QED BY <1>3, <1>4, <1>5, SettingsStay DEF SettingsInv, SettingsTypeOK

\* What is active has a hostname, and is routed to an environment that is live.
LEMMA RoutesType ==
    ASSUME SettingsInv, NEW p \in Projects, NEW alive \in SUBSET EnvIds
    PROVE  {<<domain[i].host, domain[i].env>> :
              i \in {j \in Domains : /\ domain[j].project = p /\ domain[j].status = "active"
                                     /\ domain[j].env \in alive}} \in SUBSET (Hosts \X EnvIds)
<1>1. \A i \in Domains : domain[i].status = "active" => domain[i].host \in Hosts
  BY DEF SettingsInv, IsRow, NoDomain, Removed
<1> QED BY <1>1

LEMMA FileInv ==
    ASSUME SettingsAssumption, SettingsInv,
           \/ \E r \in Requests : WriteFile(r)
           \/ \E p \in Projects, b \in Branches : DeploymentSucceeds(p, b)
           \/ \E h \in Hosts : Records(h)
    PROVE  SettingsInv'
<1>1. ASSUME NEW r \in Requests, WriteFile(r) PROVE SettingsInv'
  <2>1. /\ req[r].at = "changed" /\ Done(r)
        /\ file' = [file EXCEPT ![req[r].project] = Routes(req[r].project)]
        /\ UNCHANGED <<settings, domain, live, dns, verified, raced, edits>>
    BY <1>1 DEF WriteFile
  <2>2. Visit(req[r], domain) BY DEF SettingsInv
  <2>3. PICK p \in Projects : p = req[r].project BY <2>1, <2>2 DEF Visit
  <2>4. Routes(p) \in SUBSET (Hosts \X EnvIds)
    <3>1. live[p] \in SUBSET EnvIds BY DEF SettingsInv, SettingsTypeOK
    <3> QED BY <3>1, RoutesType DEF Routes
  <2>5. file' \in [Projects -> SUBSET (Hosts \X EnvIds)]
    BY <2>1, <2>3, <2>4 DEF SettingsInv, SettingsTypeOK
  <2>6. req' \in [Requests -> Visits] /\ \A s \in Requests : Visit(req'[s], domain')
    BY <2>1, VisitsDone
  <2> QED BY <2>1, <2>5, <2>6, SettingsStay DEF SettingsInv, SettingsTypeOK
<1>2. ASSUME NEW p \in Projects, NEW b \in Branches, DeploymentSucceeds(p, b)
      PROVE  SettingsInv'
  <2> DEFINE e == EnvironmentFor(envs[p], b)
             routes == {<<domain[i].host, domain[i].env>> :
                         i \in {j \in Domains : /\ domain[j].project = p
                                                /\ domain[j].status = "active"
                                                /\ domain[j].env \in live[p] \cup {e}}}
  <2>1. /\ e # Null /\ live' = [live EXCEPT ![p] = live[p] \cup {e}]
        /\ file' = [file EXCEPT ![p] = routes]
        /\ UNCHANGED <<settings, domain, dns, verified, raced, edits, req>>
    BY <1>2 DEF DeploymentSucceeds, SettingsInv, SettingsTypeOK
  <2>2. e \in EnvIds BY <2>1, EnvironmentForHas DEF SettingsInv, SettingsTypeOK
  <2>3. live[p] \cup {e} \in SUBSET EnvIds BY <2>2 DEF SettingsInv, SettingsTypeOK
  <2> HIDE DEF e
  <2>4. routes \in SUBSET (Hosts \X EnvIds) BY <2>3, RoutesType
  <2> HIDE DEF routes
  <2>5. /\ live' \in [Projects -> SUBSET EnvIds]
        /\ file' \in [Projects -> SUBSET (Hosts \X EnvIds)]
    BY <2>1, <2>3, <2>4 DEF SettingsInv, SettingsTypeOK
  <2> QED BY <2>1, <2>5, SettingsStay DEF SettingsInv, SettingsTypeOK
<1>3. ASSUME NEW h \in Hosts, Records(h) PROVE SettingsInv'
  BY <1>3, SettingsStay DEF Records, SettingsInv, SettingsTypeOK
<1> QED BY <1>1, <1>2, <1>3

\* A new project has its production environment.
LEMMA SettingsInit ==
    ASSUME SettingsAssumption, Init
    PROVE  SettingsInv
<1>1. PICK b \in Branches : envs = [p \in Projects |-> FirstEnvironments(b)] BY DEF Init
<1> DEFINE list == FirstEnvironments(b)
<1>2. list \in Seq(Environments) /\ list # <<>> /\ Len(list) = 1 /\ list[1] = Env(Prod, Production, b)
  BY DEF FirstEnvironments, Env, Environments, SettingsAssumption
<1>3. Slots(list) = {1} BY <1>2 DEF Slots
<1>4. Writable(list)
  BY <1>2, <1>3 DEF Writable, Sound, Distinct, Active, Env
<1>5. NoDomain \in DomainRows /\ IsRow(NoDomain) BY DEF NoDomain, DomainRows, IsRow
<1>6. \A p \in Projects : envs[p] = list BY <1>1
<1> HIDE DEF list
<1>7. envs \in [Projects -> Seq(Environments)] /\ \A p \in Projects : Writable(envs[p])
  BY <1>1, <1>2, <1>4, <1>6
<1>8. domain \in [Domains -> DomainRows] /\ \A i \in Domains : IsRow(domain[i])
  BY <1>5 DEF Init
<1>9. req \in [Requests -> Visits] /\ \A r \in Requests : Visit(req[r], domain)
  BY VisitsEnd DEF Init
<1>10. vars \in [Projects -> Bound] /\ config \in [Projects -> Configs]
  BY DEF Init, Bound, Configs
<1>11. /\ live \in [Projects -> SUBSET EnvIds] /\ file \in [Projects -> SUBSET (Hosts \X EnvIds)]
       /\ dns \subseteq Hosts /\ verified \subseteq Projects \X Hosts
       /\ raced \subseteq Projects \X Hosts /\ edits \in 0..MaxDomainEdits
  BY DEF Init, SettingsAssumption
<1> QED BY <1>7, <1>8, <1>9, <1>10, <1>11 DEF SettingsInv, SettingsTypeOK

\* The environments a domain is offered are those of the list.
LEMMA OfferedIds ==
    ASSUME SettingsInv, NEW r \in Requests, req[r].at = "valid",
           NEW e \in {req[r].envs[k].id : k \in Active(req[r].envs)}
    PROVE  e \in EnvIds
<1>1. PICK k \in Active(req[r].envs) : e = req[r].envs[k].id OBVIOUS
<1>2. req[r].envs \in Seq(Environments) BY LoadedHolds DEF Looking, IsList
<1>3. k \in 1..Len(req[r].envs) BY DEF Active, Slots
<1>4. req[r].envs[k] \in Environments BY <1>2, <1>3, ElementOfSeq
<1> QED BY <1>1, <1>4 DEF Environments

LEMMA SubmitInv ==
    ASSUME SettingsAssumption, SettingsInv, NEW r \in Requests, Submit(r)
    PROVE  SettingsInv'
<1>1. CASE (\E p \in Projects : Load(r, p)) \/ Leave(r) BY <1>1, LoadInv
<1>2. CASE \E id \in EnvIds, slug \in Slugs, b \in Branches :
             CreateEnvironment(r, id, slug, b) \/ UpdateEnvironment(r, id, slug, b)
  BY <1>2, CreateEnvironmentInv, UpdateEnvironmentInv
<1>3. CASE \E id \in EnvIds : DeleteEnvironment(r, id) BY <1>3, DeleteEnvironmentInv
<1>4. CASE \/ \E bound \in SUBSET (Slugs \cup {Null}) : SaveVars(r, bound)
           \/ \E v \in {1, 2} : SaveBuild(r, v) \/ SaveResources(r, v)
  BY <1>4, SaveInv
<1>5. CASE \/ \E i \in Domains : Verify(r, i)
           \/ \E i \in Domains, h \in Hosts : CheckHost(r, i, h)
  BY <1>5, LookInv
<1>6. CASE \E i \in Domains : RemoveDomain(r, i) BY <1>6, RemoveDomainInv
<1>7. CASE \E e \in {req[r].envs[k].id : k \in Active(req[r].envs)} :
             AddDomain(r, e) \/ EditDomain(r, e)
  <2>1. PICK e \in {req[r].envs[k].id : k \in Active(req[r].envs)} :
               AddDomain(r, e) \/ EditDomain(r, e)
    BY <1>7
  <2>2. req[r].at = "valid" BY <2>1 DEF AddDomain, EditDomain
  <2>3. e \in EnvIds BY <2>2, OfferedIds
  <2> QED BY <2>1, <2>3, AddDomainInv, EditDomainInv
<1>8. CASE VerifyDns(r) BY <1>8, VerifyDnsInv
<1>9. CASE VerifyCommit(r) BY <1>9, VerifyCommitInv
<1>10. CASE WriteFile(r) BY <1>10, FileInv
<1> QED BY <1>1, <1>2, <1>3, <1>4, <1>5, <1>6, <1>7, <1>8, <1>9, <1>10 DEF Submit

LEMMA SettingsNext ==
    ASSUME SettingsAssumption, SettingsInv, [Next]_allvars
    PROVE  SettingsInv'
<1>1. ASSUME NEW r \in Requests, Submit(r) PROVE SettingsInv' BY <1>1, SubmitInv
<1>2. CASE \/ \E p \in Projects, b \in Branches : DeploymentSucceeds(p, b)
           \/ \E h \in Hosts : Records(h)
  BY <1>2, FileInv
<1>3. CASE UNCHANGED allvars
  BY <1>3 DEF allvars, SettingsInv, SettingsTypeOK
<1> QED BY <1>1, <1>2, <1>3 DEF Next

\* Whatever overlaps, what is stored and what requests know has its shape, and
\* every list that is stored or written back is sound.
THEOREM SettingsInvariant == SettingsAssumption => (Spec => []SettingsInv)
<1> SUFFICES ASSUME SettingsAssumption PROVE Spec => []SettingsInv
  OBVIOUS
<1>1. Init => SettingsInv BY SettingsInit
<1>2. SettingsInv /\ [Next]_allvars => SettingsInv' BY SettingsNext
<1> QED BY <1>1, <1>2, PTL DEF Spec

-----------------------------------------------------------------------------
(* Domains, and the verifications that race with an edit.                   *)

\* Every row that is active was active before, and is the row it was.
Fades ==
  \A i \in Domains : domain'[i].status = "active" =>
    /\ domain[i].status = "active"
    /\ domain'[i].host = domain[i].host /\ domain'[i].project = domain[i].project

LEMMA FadesProven ==
    ASSUME DomainsInv, Fades, verified \subseteq verified', raced \subseteq raced'
    PROVE  OneActivePerHost' /\ ActiveWasVerified'
BY DEF DomainsInv, Fades, OneActivePerHost, ActiveWasVerified

\* What a request knows of a row stands while the row does what it may.
LEMMA KnowsStill ==
    ASSUME DomainsInv, NEW s \in Requests, verified \subseteq verified', raced \subseteq raced',
           LET d == req[s].domain IN
             req[s].at \in {"checking", "checked"} =>
               \/ domain'[d] = Removed
               \/ /\ domain[d] # Removed /\ domain'[d].project = domain[d].project
                  /\ \/ domain'[d].host = domain[d].host
                     \/ <<req[s].project, domain'[d].host>> \in raced'
    PROVE  Knows(req[s], domain', verified', raced')
BY DEF DomainsInv, Knows

\* A request that does not verify has nothing to know.
LEMMA KnowsEnd ==
    ASSUME DomainsInv, NEW r \in Requests, NEW x,
           x.at \notin {"checking", "checked"}, req' = [req EXCEPT ![r] = x],
           \A s \in Requests \ {r} : Knows(req[s], domain', verified', raced')
    PROVE  \A s \in Requests : Knows(req'[s], domain', verified', raced')
<1>1. \A s \in Requests : req'[s] = IF s = r THEN x ELSE req[s]
  BY DEF DomainsInv, SettingsInv, SettingsTypeOK
<1>2. Knows(x, domain', verified', raced') BY DEF Knows
<1> QED BY <1>1, <1>2

LEMMA KnowsDone ==
    ASSUME DomainsInv, NEW r \in Requests, Done(r) \/ Refresh(r),
           \A s \in Requests \ {r} : Knows(req[s], domain', verified', raced')
    PROVE  \A s \in Requests : Knows(req'[s], domain', verified', raced')
<1>1. NoVisit.at = "idle" /\ [NoVisit EXCEPT !.at = "changed", !.project = req[r].project].at = "changed"
  BY DEF NoVisit
<1>2. CASE Done(r) BY <1>1, <1>2, KnowsEnd DEF Done
<1>3. CASE Refresh(r)
  <2>1. PICK x : x.at = "changed" /\ req' = [req EXCEPT ![r] = x] BY <1>1, <1>3 DEF Refresh
  <2> QED BY <2>1, KnowsEnd
<1> QED BY <1>2, <1>3

\* What a request knows of rows that stay as they are.
LEMMA KnowsSame ==
    ASSUME DomainsInv, UNCHANGED domain, verified \subseteq verified', raced \subseteq raced'
    PROVE  \A s \in Requests : Knows(req[s], domain', verified', raced')
BY DEF DomainsInv, Knows

LEMMA FadesSame == ASSUME UNCHANGED domain PROVE Fades
BY DEF Fades

\* Rows of one environment that are disabled, or one that is removed.
LEMMA KnowsDisabled ==
    ASSUME DomainsInv, NEW s \in Requests, verified \subseteq verified', raced \subseteq raced',
           \A d \in Domains :
             \/ domain'[d] = domain[d]
             \/ domain'[d] = Removed
             \/ /\ domain[d].status = "active" /\ domain'[d].status = "disabled"
                /\ domain'[d].host = domain[d].host /\ domain'[d].project = domain[d].project
    PROVE  Knows(req[s], domain', verified', raced') /\ Fades
<1>1. Removed.status = "removed" BY DEF Removed
<1>2. Visit(req[s], domain) BY DEF DomainsInv, SettingsInv
<1>3. req[s].at \in {"valid", "checking", "checked"} => req[s].domain \in Domains
  BY <1>2 DEF Visit
<1>4. Fades BY <1>1 DEF Fades
<1>5. Knows(req[s], domain', verified', raced') BY <1>1, <1>3, KnowsStill
<1> QED BY <1>4, <1>5

\* Pages that are loaded and left, and the forms that are not about domains.
LEMMA QuietDomains ==
    ASSUME DomainsInv, SettingsInv', NEW r \in Requests,
           \/ \E p \in Projects : Load(r, p)
           \/ Leave(r)
           \/ \E id \in EnvIds, slug \in Slugs, b \in Branches :
                CreateEnvironment(r, id, slug, b) \/ UpdateEnvironment(r, id, slug, b)
           \/ \E bound \in SUBSET (Slugs \cup {Null}) : SaveVars(r, bound)
           \/ \E v \in {1, 2} : SaveBuild(r, v) \/ SaveResources(r, v)
    PROVE  DomainsInv'
<1>1. UNCHANGED routing
  BY ZenonT(60)
     DEF Load, Leave, CreateEnvironment, UpdateEnvironment, SaveVars, SaveBuild, SaveResources
<1>2. Done(r) \/ \E x : x.at = "loaded" /\ req' = [req EXCEPT ![r] = x]
  <2>1. ASSUME NEW p \in Projects, Load(r, p)
        PROVE  \E x : x.at = "loaded" /\ req' = [req EXCEPT ![r] = x]
    <3> DEFINE x == [NoVisit EXCEPT !.at = "loaded", !.project = p,
                       !.envs = envs[p], !.vars = vars[p], !.config = config[p]]
    <3>1. x.at = "loaded" BY DEF NoVisit
    <3> QED BY <2>1, <3>1 DEF Load
  <2> QED
    BY <2>1 DEF Leave, CreateEnvironment, UpdateEnvironment, SaveVars, SaveBuild, SaveResources
<1>3. \A s \in Requests : Knows(req[s], domain', verified', raced') BY <1>1, KnowsSame DEF routing
<1>4. \A s \in Requests : Knows(req'[s], domain', verified', raced')
  BY <1>2, <1>3, KnowsDone, KnowsEnd
<1> QED BY <1>1, <1>4, SMTT(40)
           DEF DomainsInv, routing, OneActivePerHost, ServedWasVerified, ActiveWasVerified

\* A request looks at a domain.
LEMMA LookDomains ==
    ASSUME SettingsAssumption, DomainsInv, SettingsInv',
           NEW r \in Requests, NEW i \in Domains,
           (\E h \in Hosts : CheckHost(r, i, h)) \/ Verify(r, i)
    PROVE  DomainsInv'
<1>1. UNCHANGED <<settings, routing>> BY DEF CheckHost, Verify
<1>2. \A s \in Requests : Knows(req[s], domain', verified', raced')
  BY <1>1, KnowsSame DEF routing
<1>3. req[r] \in Visits /\ req[r].project \in Projects /\ req \in [Requests -> Visits]
  BY LoadedHolds DEF Looking, CheckHost, Verify, Loaded, DomainsInv, SettingsInv, SettingsTypeOK
<1>4. domain[i] \in DomainRows BY DEF DomainsInv, SettingsInv, SettingsTypeOK
<1>5. \A s \in Requests : Knows(req'[s], domain', verified', raced')
  <2>1. CASE \E h \in Hosts : CheckHost(r, i, h)
    <3>1. PICK h \in Hosts : CheckHost(r, i, h) BY <2>1
    <3> DEFINE x == [req[r] EXCEPT !.at = "valid", !.domain = i, !.row = domain[i], !.host = h]
    <3>2. req' = [req EXCEPT ![r] = x] BY <3>1, <1>3 DEF CheckHost
    <3>3. x.at = "valid" BY <1>3 DEF Visits
    <3> HIDE DEF x
    <3> QED BY <1>2, <3>2, <3>3, KnowsEnd
  <2>2. CASE Verify(r, i)
    <3> DEFINE x == [req[r] EXCEPT !.at = "checking", !.domain = i, !.row = domain[i]]
    <3>1. req' = [req EXCEPT ![r] = x] BY <2>2, <1>3 DEF Verify
    <3>2. x.at = "checking" /\ x.domain = i /\ x.row = domain[i] /\ x.project = req[r].project
      BY <1>3, <1>4 DEF Visits
    <3> HIDE DEF x
    <3>3. \A s \in Requests : req'[s] = IF s = r THEN x ELSE req[s] BY <1>3, <3>1
    <3>4. Knows(x, domain', verified', raced') BY <1>1, <2>2, <3>2 DEF Knows, routing, Verify
    <3> QED BY <1>2, <3>3, <3>4
  <2> QED BY <2>1, <2>2
<1> QED BY <1>1, <1>5
        DEF DomainsInv, routing, OneActivePerHost, ServedWasVerified, ActiveWasVerified

\* An environment is deleted, or a domain is removed.
LEMMA GoneDomains ==
    ASSUME DomainsInv, SettingsInv', NEW r \in Requests,
           \/ \E id \in EnvIds : DeleteEnvironment(r, id)
           \/ \E i \in Domains : RemoveDomain(r, i)
    PROVE  DomainsInv'
<1>1. \A d \in Domains : domain[d] \in DomainRows /\ domain \in [Domains -> DomainRows]
  BY DEF DomainsInv, SettingsInv, SettingsTypeOK
<1>2. \A d \in Domains :
        \/ domain'[d] = domain[d]
        \/ domain'[d] = Removed
        \/ /\ domain[d].status = "active" /\ domain'[d].status = "disabled"
           /\ domain'[d].host = domain[d].host /\ domain'[d].project = domain[d].project
  <2>1. ASSUME NEW id \in EnvIds, DeleteEnvironment(r, id), NEW d \in Domains,
               domain'[d] # domain[d]
        PROVE  /\ domain[d].status = "active" /\ domain'[d].status = "disabled"
               /\ domain'[d].host = domain[d].host /\ domain'[d].project = domain[d].project
    <3>1. domain[d].status = "active"
          /\ domain'[d] = [domain[d] EXCEPT !.status = "disabled", !.env = Null]
      BY <2>1 DEF DeleteEnvironment
    <3> QED BY <1>1, <3>1, SMTT(40) DEF DomainRows
  <2>2. ASSUME NEW i \in Domains, RemoveDomain(r, i), NEW d \in Domains,
               domain'[d] # domain[d]
        PROVE  domain'[d] = Removed
    BY <1>1, <2>2, SMTT(40) DEF RemoveDomain
  <2> QED BY <2>1, <2>2
<1>3. (Done(r) \/ Refresh(r)) /\ UNCHANGED <<file, verified, raced>>
  BY DEF DeleteEnvironment, RemoveDomain
<1>4. Fades /\ \A s \in Requests : Knows(req[s], domain', verified', raced')
  BY <1>2, <1>3, KnowsDisabled
<1>5. \A s \in Requests : Knows(req'[s], domain', verified', raced')
  BY <1>3, <1>4, KnowsDone
<1> QED BY <1>3, <1>4, <1>5, FadesProven DEF DomainsInv, ServedWasVerified

\* A row that is added, or edited, is not active and its hostname is what another
\* request verifies, unless it keeps the hostname or raced.
LEMMA EditedRow ==
    ASSUME DomainsInv, SettingsInv', NEW r \in Requests, NEW row,
           req[r].at = "valid", domain' = [domain EXCEPT ![req[r].domain] = row],
           Done(r), UNCHANGED <<file, verified>>, raced \subseteq raced',
           row.status = "active" =>
             /\ domain[req[r].domain].status = "active"
             /\ row.project = domain[req[r].domain].project
             /\ \/ row.host = domain[req[r].domain].host
                \/ <<row.project, row.host>> \in raced',
           (\E s \in Requests : req[s].at \in {"checking", "checked"}
                                /\ req[s].domain = req[r].domain) =>
             /\ domain[req[r].domain] # Removed
             /\ row.project = domain[req[r].domain].project
             /\ \/ row.host = domain[req[r].domain].host
                \/ <<row.project, row.host>> \in raced'
    PROVE  DomainsInv'
<1> DEFINE i == req[r].domain
<1>1. i \in Domains /\ domain \in [Domains -> DomainRows]
  BY DEF DomainsInv, SettingsInv, SettingsTypeOK, Visit
<1>2. \A d \in Domains : domain'[d] = IF d = i THEN row ELSE domain[d] BY <1>1
<1>3. row.status = "active" =>
        /\ domain[i].status = "active" /\ row.project = domain[i].project
        /\ row.host = domain[i].host \/ <<row.project, row.host>> \in raced'
  OBVIOUS
<1>4. ActiveWasVerified'
  BY <1>2, <1>3 DEF DomainsInv, ActiveWasVerified
<1>5. OneActivePerHost'
  <2> SUFFICES ASSUME NEW d \in Domains, NEW f \in Domains,
                      domain'[d].status = "active", domain'[f].status = "active",
                      <<domain'[d].project, domain'[d].host>> \notin raced',
                      <<domain'[f].project, domain'[f].host>> \notin raced',
                      domain'[d].host = domain'[f].host
               PROVE  d = f
    BY DEF OneActivePerHost
  <2>1. /\ domain[d].status = "active" /\ domain'[d].host = domain[d].host
        /\ domain'[d].project = domain[d].project
    BY <1>2, <1>3
  <2>2. /\ domain[f].status = "active" /\ domain'[f].host = domain[f].host
        /\ domain'[f].project = domain[f].project
    BY <1>2, <1>3
  <2> QED BY <2>1, <2>2 DEF DomainsInv, OneActivePerHost
<1>6. ASSUME NEW s \in Requests PROVE Knows(req[s], domain', verified', raced')
  <2>1. Visit(req[s], domain) /\ Knows(req[s], domain, verified, raced)
    BY DEF DomainsInv, SettingsInv
  <2>2. req[s].at \in {"checking", "checked"} => req[s].domain \in Domains
    BY <2>1 DEF Visit
  <2>3. CASE req[s].at \in {"checking", "checked"} /\ req[s].domain = i
    <3>1. /\ domain[i] # Removed /\ row.project = domain[i].project /\ domain'[i] = row
          /\ row.host = domain[i].host \/ <<row.project, row.host>> \in raced'
      BY <1>1, <1>2, <2>3
    <3>2. domain[i].project = req[s].project BY <2>1, <2>3, <3>1 DEF Knows
    <3> HIDE DEF i
    <3> QED BY <2>3, <3>1, <3>2, KnowsStill
  <2>4. CASE req[s].at \in {"checking", "checked"} /\ req[s].domain # i
    <3>1. domain'[req[s].domain] = domain[req[s].domain] BY <1>2, <2>2, <2>4
    <3> QED BY <2>1, <2>4, <3>1 DEF Knows
  <2>5. CASE req[s].at \notin {"checking", "checked"} BY <2>5 DEF Knows
  <2> QED BY <2>3, <2>4, <2>5
<1>7. \A s \in Requests : Knows(req'[s], domain', verified', raced') BY <1>6, KnowsDone
<1> QED BY <1>4, <1>5, <1>7 DEF DomainsInv, ServedWasVerified

LEMMA EditDomains ==
    ASSUME SettingsAssumption, DomainsInv, SettingsInv', NEW r \in Requests, NEW e,
           AddDomain(r, e) \/ EditDomain(r, e)
    PROVE  DomainsInv'
<1> DEFINE i == req[r].domain
           seen == req[r].row
<1>1. /\ req[r].at = "valid" /\ Done(r) /\ UNCHANGED <<file, verified>>
      /\ raced \subseteq raced'
  BY DEF AddDomain, EditDomain
<1>2. i \in Domains /\ domain \in [Domains -> DomainRows]
  BY <1>1 DEF DomainsInv, SettingsInv, SettingsTypeOK, Visit
<1>3. CASE AddDomain(r, e)
  <2>1. PICK row : row.status = "pending" /\ domain' = [domain EXCEPT ![i] = row]
    BY <1>3 DEF AddDomain
  <2>2. ~\E s \in Requests : req[s].at \in {"checking", "checked"} /\ req[s].domain = i
    BY <1>3 DEF AddDomain, DomainsInv, SettingsInv, Visit
  <2> QED BY <1>1, <2>1, <2>2, EditedRow
<1>4. CASE EditDomain(r, e)
  <2> DEFINE row == [domain[i] EXCEPT !.host = Written(@, seen.host, req[r].host),
                       !.env = Written(@, seen.env, e),
                       !.status = IF req[r].host = seen.host THEN @
                                  ELSE Written(@, seen.status, "pending")]
  <2>1. domain[i] # Removed BY <1>4 DEF EditDomain, Removed, NoDomain
  <2>2. domain' = [domain EXCEPT ![i] = row] BY <1>2, <1>4 DEF EditDomain
  <2>3. /\ row.project = domain[i].project
        /\ row.host = Written(domain[i].host, seen.host, req[r].host)
        /\ row.status = IF req[r].host = seen.host THEN domain[i].status
                        ELSE Written(domain[i].status, seen.status, "pending")
    BY <1>2 DEF DomainRows
  <2>4. Races(i, seen, req[r].host) => <<domain[i].project, req[r].host>> \in raced'
    BY <1>4 DEF EditDomain
  <2> HIDE DEF row, i, seen
  <2>5. row.status = "active" =>
          /\ domain[i].status = "active"
          /\ row.host = domain[i].host \/ <<row.project, row.host>> \in raced'
    BY <2>3, <2>4 DEF Written, Races
  <2>6. (\E s \in Requests : req[s].at \in {"checking", "checked"} /\ req[s].domain = i) =>
          row.host = domain[i].host \/ <<row.project, row.host>> \in raced'
    BY <2>3, <2>4 DEF Written, Races, Verifying
  <2> QED BY <1>1, <2>1, <2>2, <2>3, <2>5, <2>6, EditedRow DEF i
<1> QED BY <1>3, <1>4

\* A verification remembers what it found.
LEMMA VerifyDnsDomains ==
    ASSUME DomainsInv, SettingsInv', NEW r \in Requests, VerifyDns(r)
    PROVE  DomainsInv'
<1> DEFINE seen == req[r].row
           good == seen.env \in live[req[r].project] /\ seen.host \in dns
           x == [req[r] EXCEPT !.at = "checked", !.ok = good]
<1>1. /\ req[r].at = "checking" /\ req[r] \in Visits /\ req \in [Requests -> Visits]
      /\ verified' = IF good THEN verified \cup {<<req[r].project, seen.host>>} ELSE verified
      /\ UNCHANGED <<domain, file, raced>> /\ req' = [req EXCEPT ![r] = x]
  BY DEF VerifyDns, DomainsInv, SettingsInv, SettingsTypeOK
<1>2. /\ x.at = "checked" /\ x.domain = req[r].domain /\ x.row = seen
      /\ x.project = req[r].project /\ x.ok = good
  BY <1>1 DEF Visits
<1>3. verified \subseteq verified' /\ raced \subseteq raced' BY <1>1
<1>4. good => <<req[r].project, seen.host>> \in verified' BY <1>1
<1> HIDE DEF x, good
<1>5. \A s \in Requests : req'[s] = IF s = r THEN x ELSE req[s] BY <1>1
<1>6. \A s \in Requests : Knows(req[s], domain', verified', raced') BY <1>1, <1>3, KnowsSame
<1>7. Knows(x, domain', verified', raced') BY <1>1, <1>2, <1>4, <1>6 DEF Knows
<1>8. \A s \in Requests : Knows(req'[s], domain', verified', raced') BY <1>5, <1>6, <1>7
<1>9. OneActivePerHost' /\ ActiveWasVerified'
  BY <1>1, <1>3, FadesProven, FadesSame
<1> QED BY <1>1, <1>3, <1>8, <1>9 DEF DomainsInv, ServedWasVerified

\* The domain that becomes active has the hostname that was verified, and no
\* other active row has it, or it raced.
LEMMA VerifyCommitDomains ==
    ASSUME SettingsAssumption, DomainsInv, SettingsInv', NEW r \in Requests, VerifyCommit(r)
    PROVE  DomainsInv'
<1> DEFINE i == req[r].domain
           host == req[r].row.host
<1>1. /\ req[r].at = "checked" /\ i \in Domains /\ domain \in [Domains -> DomainRows]
      /\ domain' \in [Domains -> DomainRows]
      /\ Knows(req[r], domain, verified, raced) /\ SettingsInv
  BY DEF VerifyCommit, DomainsInv, SettingsInv, SettingsTypeOK, Visit
<1>2. (Done(r) \/ Refresh(r)) /\ UNCHANGED <<file, verified, raced>> BY DEF VerifyCommit
<1>3. Removed.status = "removed" BY DEF Removed
<1>4. \A d \in Domains :
        /\ domain'[d].host = domain[d].host /\ domain'[d].project = domain[d].project
        /\ domain[d] = Removed => domain'[d] = Removed
  <2> SUFFICES ASSUME NEW d \in Domains
               PROVE  /\ domain'[d].host = domain[d].host /\ domain'[d].project = domain[d].project
                      /\ domain[d] = Removed => domain'[d] = Removed
    OBVIOUS
  <2>1. CASE domain'[d] = domain[d] BY <2>1
  <2>2. CASE domain'[d] # domain[d]
    <3>1. PICK s : domain'[d] = [domain[d] EXCEPT !.status = s]
                   /\ domain[d].status \notin {"none", "removed"}
      BY <1>1, <2>2, VerifyCommitRows
    <3> QED BY <1>1, <1>3, <3>1 DEF DomainRows
  <2> QED BY <2>1, <2>2
<1>5. \A d \in Domains : domain'[d].status = "active"
        => \/ domain[d].status = "active" /\ ~(d # i /\ req[r].ok /\ domain[i] # Removed
                                                /\ domain[d].host = host)
           \/ d = i /\ req[r].ok /\ domain[i] # Removed
  <2> SUFFICES ASSUME NEW d \in Domains, domain'[d].status = "active"
               PROVE  \/ domain[d].status = "active" /\ ~(d # i /\ req[r].ok /\ domain[i] # Removed
                                                           /\ domain[d].host = host)
                      \/ d = i /\ req[r].ok /\ domain[i] # Removed
    OBVIOUS
  <2>1. CASE domain[i] = Removed BY <2>1 DEF VerifyCommit
  <2>2. CASE domain[i] # Removed /\ req[r].ok
    <3>1. CASE d = i BY <2>2, <3>1
    <3>2. CASE d # i
      <4>1. domain'[d] = Disabled(domain[d], host) BY <2>2, <3>2 DEF VerifyCommit
      <4>2. [domain[d] EXCEPT !.status = "disabled"].status = "disabled" BY <1>1 DEF DomainRows
      <4> QED BY <4>1, <4>2 DEF Disabled
    <3> QED BY <3>1, <3>2
  <2>3. CASE domain[i] # Removed /\ ~req[r].ok
    <3>1. domain' = [domain EXCEPT ![i].status = Written(@, req[r].row.status, "failed")]
      BY <2>3 DEF VerifyCommit
    <3>2. CASE d = i
      <4>1. domain'[i].status = Written(domain[i].status, req[r].row.status, "failed")
        BY <1>1, <3>1 DEF DomainRows
      <4> QED BY <2>3, <3>2, <4>1 DEF Written
    <3>3. CASE d # i BY <1>1, <2>3, <3>1, <3>3
    <3> QED BY <3>2, <3>3
  <2> QED BY <2>1, <2>2, <2>3
<1>6. req[r].ok /\ domain[i] # Removed
        => /\ domain[i].project = req[r].project
           /\ \/ domain[i].host = host /\ <<req[r].project, host>> \in verified
              \/ <<domain[i].project, domain[i].host>> \in raced
  BY <1>1 DEF Knows
<1> HIDE DEF i, host
<1>7. OneActivePerHost'
  <2> SUFFICES ASSUME NEW d \in Domains, NEW f \in Domains, domain'[d].status = "active",
                      domain'[f].status = "active", domain'[d].host = domain'[f].host,
                      <<domain'[d].project, domain'[d].host>> \notin raced',
                      <<domain'[f].project, domain'[f].host>> \notin raced'
               PROVE  d = f
    BY DEF OneActivePerHost
  <2>1. /\ domain[d].host = domain[f].host
        /\ <<domain[d].project, domain[d].host>> \notin raced
        /\ <<domain[f].project, domain[f].host>> \notin raced
    BY <1>2, <1>4
  <2>2. CASE domain[d].status = "active" /\ domain[f].status = "active"
    BY <2>1, <2>2 DEF DomainsInv, OneActivePerHost
  <2>3. CASE domain[d].status # "active" \/ domain[f].status # "active"
    BY <1>5, <1>6, <2>1, <2>3
  <2> QED BY <2>2, <2>3
<1>8. ActiveWasVerified'
  BY <1>2, <1>4, <1>5, <1>6 DEF DomainsInv, ActiveWasVerified
<1>9. ASSUME NEW s \in Requests PROVE Knows(req[s], domain', verified', raced')
  <2>1. Visit(req[s], domain) /\ Knows(req[s], domain, verified, raced)
    BY DEF DomainsInv, SettingsInv
  <2>2. req[s].at \in {"checking", "checked"} => req[s].domain \in Domains
    BY <2>1 DEF Visit
  <2> QED BY <1>2, <1>4, <2>1, <2>2 DEF Knows
<1>10. \A s \in Requests : Knows(req'[s], domain', verified', raced')
  BY <1>2, <1>9, KnowsDone
<1> QED BY <1>2, <1>7, <1>8, <1>10 DEF DomainsInv, ServedWasVerified

\* The file of a project is made of its active rows.
LEMMA FileDomains ==
    ASSUME DomainsInv, SettingsInv',
           \/ \E r \in Requests : WriteFile(r)
           \/ \E p \in Projects, b \in Branches : DeploymentSucceeds(p, b)
           \/ \E h \in Hosts : Records(h)
    PROVE  DomainsInv'
<1>1. UNCHANGED <<domain, verified, raced>> BY DEF WriteFile, DeploymentSucceeds, Records
<1>2. OneActivePerHost' /\ ActiveWasVerified' BY <1>1, FadesProven, FadesSame
<1>3. \A s \in Requests : Knows(req[s], domain', verified', raced') BY <1>1, KnowsSame
<1>4. \A s \in Requests : Knows(req'[s], domain', verified', raced')
  <2>1. CASE \E r \in Requests : WriteFile(r) BY <1>3, <2>1, KnowsDone DEF WriteFile
  <2>2. CASE UNCHANGED req BY <1>3, <2>2 DEF DomainsInv
  <2> QED BY <2>1, <2>2 DEF DeploymentSucceeds, Records
<1>5. file \in [Projects -> SUBSET (Hosts \X EnvIds)] /\ \A p \in Projects : \A route \in file[p] :
        <<p, route[1]>> \in verified \cup raced
  BY DEF DomainsInv, SettingsInv, SettingsTypeOK, ServedWasVerified
<1>6. ServedWasVerified'
  <2>1. ASSUME NEW r \in Requests, WriteFile(r) PROVE ServedWasVerified'
    <3>1. file' = [file EXCEPT ![req[r].project] = Routes(req[r].project)]
      BY <2>1 DEF WriteFile
    <3>2. \A p : \A route \in Routes(p) : <<p, route[1]>> \in verified \cup raced
      BY DEF Routes, DomainsInv, ActiveWasVerified
    <3> QED BY <1>1, <1>5, <3>1, <3>2 DEF ServedWasVerified
  <2>2. ASSUME NEW p \in Projects, NEW b \in Branches, DeploymentSucceeds(p, b)
        PROVE  ServedWasVerified'
    <3> DEFINE e == EnvironmentFor(envs[p], b)
               routes == {<<domain[i].host, domain[i].env>> :
                            i \in {j \in Domains : /\ domain[j].project = p
                                                   /\ domain[j].status = "active"
                                                   /\ domain[j].env \in live[p] \cup {e}}}
    <3>1. file' = [file EXCEPT ![p] = routes] BY <2>2 DEF DeploymentSucceeds
    <3>2. \A route \in routes : <<p, route[1]>> \in verified \cup raced
      BY DEF DomainsInv, ActiveWasVerified
    <3> HIDE DEF routes
    <3> QED BY <1>1, <1>5, <3>1, <3>2 DEF ServedWasVerified
  <2>3. CASE UNCHANGED file BY <1>1, <1>5, <2>3 DEF ServedWasVerified
  <2> QED BY <2>1, <2>2, <2>3 DEF Records
<1> QED BY <1>2, <1>4, <1>6 DEF DomainsInv

LEMMA DomainsInit ==
    ASSUME SettingsAssumption, Init
    PROVE  DomainsInv
<1>1. SettingsInv BY SettingsInit
<1>2. NoDomain.status = "none" /\ NoVisit.at = "idle" BY DEF NoDomain, NoVisit
<1>3. \A i \in Domains : domain[i] = NoDomain BY DEF Init
<1>4. \A r \in Requests : req[r] = NoVisit BY DEF Init
<1>5. ServedWasVerified BY DEF Init, ServedWasVerified
<1> QED BY <1>1, <1>2, <1>3, <1>4, <1>5 DEF DomainsInv, Knows, OneActivePerHost, ActiveWasVerified

LEMMA DomainsNext ==
    ASSUME SettingsAssumption, DomainsInv, [Next]_allvars
    PROVE  DomainsInv'
<1>1. SettingsInv' BY SettingsNext DEF DomainsInv
<1>2. ASSUME NEW r \in Requests, Submit(r) PROVE DomainsInv'
  <2>1. CASE \/ \E p \in Projects : Load(r, p)
             \/ Leave(r)
             \/ \E id \in EnvIds, slug \in Slugs, b \in Branches :
                  CreateEnvironment(r, id, slug, b) \/ UpdateEnvironment(r, id, slug, b)
             \/ \E bound \in SUBSET (Slugs \cup {Null}) : SaveVars(r, bound)
             \/ \E v \in {1, 2} : SaveBuild(r, v) \/ SaveResources(r, v)
    BY <1>1, <2>1, QuietDomains
  <2>2. CASE \/ \E i \in Domains : Verify(r, i)
             \/ \E i \in Domains, h \in Hosts : CheckHost(r, i, h)
    BY <1>1, <2>2, LookDomains
  <2>3. CASE \/ \E id \in EnvIds : DeleteEnvironment(r, id)
             \/ \E i \in Domains : RemoveDomain(r, i)
    BY <1>1, <2>3, GoneDomains
  <2>4. CASE \E e \in {req[r].envs[k].id : k \in Active(req[r].envs)} :
               AddDomain(r, e) \/ EditDomain(r, e)
    BY <1>1, <2>4, EditDomains
  <2>5. CASE VerifyDns(r) BY <1>1, <2>5, VerifyDnsDomains
  <2>6. CASE VerifyCommit(r) BY <1>1, <2>6, VerifyCommitDomains
  <2>7. CASE WriteFile(r) BY <1>1, <2>7, FileDomains
  <2> QED BY <1>2, <2>1, <2>2, <2>3, <2>4, <2>5, <2>6, <2>7 DEF Submit
<1>3. CASE \/ \E p \in Projects, b \in Branches : DeploymentSucceeds(p, b)
           \/ \E h \in Hosts : Records(h)
  BY <1>1, <1>3, FileDomains
<1>4. CASE UNCHANGED allvars
  BY <1>1, <1>4 DEF allvars, DomainsInv, OneActivePerHost, ServedWasVerified, ActiveWasVerified
<1> QED BY <1>2, <1>3, <1>4 DEF Next

\* However requests overlap, a hostname is active for one project, and what Traefik
\* routes passed the DNS check of the project, but for a hostname that a domain got
\* while it was being verified.
THEOREM DomainsStayProven == SettingsAssumption => (Spec => []DomainsProven)
<1> SUFFICES ASSUME SettingsAssumption PROVE Spec => []DomainsProven
  OBVIOUS
<1>1. Init => DomainsInv BY DomainsInit
<1>2. DomainsInv /\ [Next]_allvars => DomainsInv' BY DomainsNext
<1>3. DomainsInv => DomainsProven BY DEF DomainsInv, DomainsProven
<1> QED BY <1>1, <1>2, <1>3, PTL DEF Spec

-----------------------------------------------------------------------------
(* Variables and configuration, while there is one request.                *)

\* A variable is bound to every environment or to one of the list.
IsBound(bound, list) == bound \subseteq {list[i].slug : i \in Slots(list)} \cup {Null}

\* The new environment leaves the others their slugs.
LEMMA AppendBound ==
    ASSUME NEW list, IsList(list), NEW bound, IsBound(bound, list),
           NEW id \in EnvIds, NEW slug \in Slugs, NEW branch \in Branches
    PROVE  IsBound(bound, Append(list, Env(id, slug, branch)))
<1> DEFINE new == Append(list, Env(id, slug, branch))
<1>1. list \in Seq(Environments) /\ Env(id, slug, branch) \in Environments
  BY DEF IsList, Env, Environments
<1>2. Len(new) = Len(list) + 1 /\ \A i \in 1..Len(list) : new[i] = list[i]
  BY <1>1, AppendProperties
<1>3. \A i \in Slots(list) : i \in Slots(new) /\ new[i] = list[i]
  BY <1>1, <1>2, LenProperties DEF Slots
<1> HIDE DEF new
<1> QED BY <1>3 DEF IsBound, new

\* The variables follow the slug of an environment that is edited.
LEMMA UpdateBound ==
    ASSUME NEW list, IsList(list), NEW bound, IsBound(bound, list),
           NEW id \in EnvIds, NEW slug \in Slugs, NEW branch \in Branches, Has(list, id)
    PROVE  LET i == IndexOf(list, id)
               new == [list EXCEPT ![i].slug = slug, ![i].branch = branch] IN
           /\ slug = list[i].slug => IsBound(bound, new)
           /\ slug # list[i].slug => IsBound(Renamed(bound, list[i].slug, slug), new)
<1> DEFINE i == IndexOf(list, id)
           new == [list EXCEPT ![i].slug = slug, ![i].branch = branch]
<1>1. i \in Slots(list) BY IndexOfHas
<1>2. list \in Seq(Environments) /\ \A j \in Slots(list) : list[j] \in Environments
  BY ElementOfSeq DEF IsList, Slots
<1>3. /\ Len(new) = Len(list) /\ new[i].slug = slug
      /\ \A j \in Slots(list) : j # i => new[j] = list[j]
  BY <1>1, <1>2 DEF Slots, Environments
<1>4. Slots(new) = Slots(list) BY <1>3 DEF Slots
<1> HIDE DEF new, i
<1>5. CASE slug = list[i].slug
  <2>1. \A j \in Slots(list) : new[j].slug = list[j].slug BY <1>3, <1>5
  <2> QED BY <1>4, <1>5, <2>1 DEF IsBound, new, i
<1>6. CASE slug # list[i].slug
  <2>1. ASSUME NEW s \in bound
        PROVE  (IF s = list[i].slug THEN slug ELSE s) \in {new[j].slug : j \in Slots(new)} \cup {Null}
    <3>1. CASE s = list[i].slug BY <1>1, <1>3, <1>4, <3>1
    <3>2. CASE s # list[i].slug /\ s = Null BY <3>2
    <3>3. CASE s # list[i].slug /\ s # Null
      <4>1. PICK j \in Slots(list) : s = list[j].slug BY <3>3 DEF IsBound
      <4>2. j # i /\ new[j] = list[j] BY <1>3, <3>3, <4>1
      <4> QED BY <1>4, <3>3, <4>1, <4>2
    <3> QED BY <3>1, <3>2, <3>3
  <2>2. IsBound(Renamed(bound, list[i].slug, slug), new) BY <2>1 DEF IsBound, Renamed
  <2> QED BY <1>6, <2>2 DEF new, i
<1> QED BY <1>5, <1>6

\* An environment that is deleted keeps its slug.
LEMMA DeleteBound ==
    ASSUME NEW list, IsList(list), NEW bound, IsBound(bound, list), NEW id, Has(list, id)
    PROVE  IsBound(bound, [list EXCEPT ![IndexOf(list, id)].status = "deleted"])
<1> DEFINE i == IndexOf(list, id)
           new == [list EXCEPT ![i].status = "deleted"]
<1>1. i \in Slots(list) BY IndexOfHas
<1>2. list \in Seq(Environments) /\ \A j \in Slots(list) : list[j] \in Environments
  BY ElementOfSeq DEF IsList, Slots
<1>3. Len(new) = Len(list) /\ \A j \in Slots(list) : new[j].slug = list[j].slug
  BY <1>1, <1>2 DEF Slots, Environments
<1>4. Slots(new) = Slots(list) BY <1>3 DEF Slots
<1> HIDE DEF new, i
<1>5. IsBound(bound, new) BY <1>3, <1>4 DEF IsBound
<1> QED BY <1>5 DEF new, i

\* A request that ends, or goes on to write the file, has loaded nothing.
LEMMA LatestDone ==
    ASSUME OneRequest, SettingsInv', NEW r \in Requests, Done(r) \/ Refresh(r),
           req \in [Requests -> Visits], VarsBound'
    PROVE  LatestInv'
<1>1. \A s \in Requests : s = r BY DEF OneRequest
<1>2. req'[r].at \in {"idle", "changed"}
  <2>1. /\ NoVisit.at = "idle"
        /\ [NoVisit EXCEPT !.at = "changed", !.project = req[r].project].at = "changed"
    BY DEF NoVisit
  <2> QED BY <2>1 DEF Done, Refresh
<1> QED BY <1>1, <1>2 DEF LatestInv, Looking

\* A step that leaves the settings of the projects and what the request loaded.
LEMMA LatestStays ==
    ASSUME OneRequest, LatestInv, SettingsInv', UNCHANGED settings, NEW r \in Requests,
           req'[r].at \in Looking => req[r].at \in Looking,
           /\ req'[r].project = req[r].project /\ req'[r].envs = req[r].envs
           /\ req'[r].vars = req[r].vars /\ req'[r].config = req[r].config
    PROVE  LatestInv'
<1>1. \A s \in Requests : s = r BY DEF OneRequest
<1> QED BY <1>1 DEF LatestInv, VarsBound, settings

\* What is stored is what the request loaded.
LEMMA LatestLoaded ==
    ASSUME LatestInv, NEW r \in Requests, req[r].at = "loaded"
    PROVE  /\ req[r].project \in Projects /\ IsList(req[r].envs)
           /\ req[r].envs = envs[req[r].project] /\ req[r].vars = vars[req[r].project]
           /\ req[r].config = config[req[r].project]
           /\ IsBound(req[r].vars, req[r].envs)
<1>1. SettingsInv /\ req[r].at \in Looking BY DEF LatestInv, Looking
<1>2. req[r].project \in Projects /\ IsList(req[r].envs) BY <1>1, LoadedHolds
<1> QED BY <1>1, <1>2 DEF LatestInv, VarsBound, IsBound

\* The variables of a project are written with its list.
LEMMA BoundWritten ==
    ASSUME SettingsInv, VarsBound, NEW p \in Projects, NEW list, NEW bound, IsBound(bound, list),
           envs' = [envs EXCEPT ![p] = list],
           vars' = [vars EXCEPT ![p] = bound]
    PROVE  VarsBound'
<1>1. envs \in [Projects -> Seq(Environments)] /\ vars \in [Projects -> Bound]
  BY DEF SettingsInv, SettingsTypeOK
<1>2. \A q \in Projects : IsBound(vars'[q], envs'[q])
  BY <1>1 DEF VarsBound, IsBound
<1> QED BY <1>2 DEF VarsBound, IsBound

\* A form that writes environments, variables or configuration.
LEMMA FormsLatest ==
    ASSUME SettingsAssumption, OneRequest, LatestInv, SettingsInv', NEW r \in Requests,
           \/ \E id \in EnvIds, slug \in Slugs, b \in Branches :
                CreateEnvironment(r, id, slug, b) \/ UpdateEnvironment(r, id, slug, b)
           \/ \E id \in EnvIds : DeleteEnvironment(r, id)
           \/ \E bound \in SUBSET (Slugs \cup {Null}) : SaveVars(r, bound)
           \/ \E v \in {1, 2} : SaveBuild(r, v) \/ SaveResources(r, v)
    PROVE  LatestInv'
<1> DEFINE p == req[r].project
           list == req[r].envs
<1>1. req[r].at = "loaded" /\ (Done(r) \/ Refresh(r))
  BY DEF CreateEnvironment, UpdateEnvironment, DeleteEnvironment, SaveVars, SaveBuild,
         SaveResources, Loaded
<1>2. /\ p \in Projects /\ IsList(list) /\ list = envs[p] /\ req[r].vars = vars[p]
      /\ req[r].config = config[p] /\ IsBound(vars[p], list)
  BY <1>1, LatestLoaded
<1>3. SettingsInv /\ VarsBound /\ req \in [Requests -> Visits]
      /\ vars \in [Projects -> Bound] /\ envs \in [Projects -> Seq(Environments)]
  BY DEF LatestInv, SettingsInv, SettingsTypeOK
<1>4. vars = [vars EXCEPT ![p] = vars[p]] /\ envs = [envs EXCEPT ![p] = envs[p]]
  BY <1>2, <1>3
<1> HIDE DEF p, list
<1>5. VarsBound'
  <2>1. ASSUME NEW id \in EnvIds, NEW slug \in Slugs, NEW b \in Branches,
               CreateEnvironment(r, id, slug, b)
        PROVE  VarsBound'
    <3> DEFINE new == Append(list, Env(id, slug, b))
    <3>1. envs' = [envs EXCEPT ![p] = new] /\ vars' = vars
      BY <2>1 DEF CreateEnvironment, p, list
    <3>2. IsBound(vars[p], new) BY <1>2, AppendBound
    <3> HIDE DEF new
    <3> QED BY <1>2, <1>3, <1>4, <3>1, <3>2, BoundWritten
  <2>2. ASSUME NEW id \in EnvIds, NEW slug \in Slugs, NEW b \in Branches,
               UpdateEnvironment(r, id, slug, b)
        PROVE  VarsBound'
    <3> DEFINE i == IndexOf(list, id)
               new == [list EXCEPT ![i].slug = slug, ![i].branch = b]
               bound == IF slug = list[i].slug THEN vars[p] ELSE Renamed(vars[p], list[i].slug, slug)
    <3>1. /\ Has(list, id) /\ envs' = [envs EXCEPT ![p] = Written(@, list, new)]
          /\ vars' = IF slug = list[i].slug THEN vars
                     ELSE [vars EXCEPT ![p] = Renamed(req[r].vars, list[i].slug, slug)]
      BY <2>2 DEF UpdateEnvironment, p, list
    <3>2. IsBound(bound, new) BY <1>2, <3>1, UpdateBound
    <3>3. Written(envs[p], list, new) = new BY <1>2 DEF Written
    <3> HIDE DEF i, new
    <3>4. vars' = [vars EXCEPT ![p] = bound] BY <1>2, <1>4, <3>1
    <3> HIDE DEF bound
    <3> QED BY <1>2, <1>3, <3>1, <3>2, <3>3, <3>4, BoundWritten
  <2>3. ASSUME NEW id \in EnvIds, DeleteEnvironment(r, id) PROVE VarsBound'
    <3> DEFINE new == [list EXCEPT ![IndexOf(list, id)].status = "deleted"]
    <3>1. /\ Has(list, id) /\ envs' = [envs EXCEPT ![p] = Written(@, list, new)]
          /\ vars' = [vars EXCEPT ![p] = req[r].vars \ {list[IndexOf(list, id)].slug}]
      BY <2>3 DEF DeleteEnvironment, p, list
    <3>2. IsBound(vars[p], new) BY <1>2, <3>1, DeleteBound
    <3>3. IsBound(vars[p] \ {list[IndexOf(list, id)].slug}, new) BY <3>2 DEF IsBound
    <3>4. Written(envs[p], list, new) = new BY <1>2 DEF Written
    <3> HIDE DEF new
    <3> QED BY <1>2, <1>3, <3>1, <3>3, <3>4, BoundWritten
  <2>4. ASSUME NEW bound, SaveVars(r, bound) PROVE VarsBound'
    <3>1. IsBound(bound, envs[p]) /\ vars' = [vars EXCEPT ![p] = bound] /\ envs' = envs
      BY <1>2, <2>4 DEF SaveVars, IsBound, p, list
    <3> QED BY <1>2, <1>3, <1>4, <3>1, BoundWritten
  <2>5. CASE UNCHANGED <<envs, vars>> BY <1>3, <2>5 DEF VarsBound
  <2> QED BY <2>1, <2>2, <2>3, <2>4, <2>5 DEF SaveBuild, SaveResources
<1> QED BY <1>1, <1>3, <1>5, LatestDone, SMTT(40)

LEMMA LatestInit == ASSUME SettingsAssumption, Init PROVE LatestInv
<1>1. SettingsInv BY SettingsInit
<1>2. VarsBound BY DEF Init, VarsBound
<1>3. \A r \in Requests : req[r].at = "idle" BY DEF Init, NoVisit
<1> QED BY <1>1, <1>2, <1>3 DEF LatestInv, Looking

LEMMA LatestNext ==
    ASSUME SettingsAssumption, OneRequest, LatestInv, [Next]_allvars
    PROVE  LatestInv'
<1>1. SettingsInv' BY SettingsNext DEF LatestInv
<1>2. SettingsInv /\ req \in [Requests -> Visits] /\ VarsBound
  BY SMTT(40) DEF LatestInv, SettingsInv, SettingsTypeOK
<1>3. ASSUME NEW r \in Requests, Submit(r) PROVE LatestInv'
  <2>0. \A s \in Requests : s = r BY DEF OneRequest
  <2>1. ASSUME NEW p \in Projects, Load(r, p) PROVE LatestInv'
    <3> DEFINE x == [NoVisit EXCEPT !.at = "loaded", !.project = p,
                       !.envs = envs[p], !.vars = vars[p], !.config = config[p]]
    <3>1. /\ x.project = p /\ x.envs = envs[p] /\ x.vars = vars[p] /\ x.config = config[p]
      BY DEF NoVisit
    <3> HIDE DEF x
    <3>2. req'[r] = x /\ UNCHANGED settings BY <1>2, <2>1 DEF Load, x
    <3> QED BY <1>1, <1>2, <2>0, <3>1, <3>2 DEF LatestInv, VarsBound, settings
  <2>2. CASE \/ \E id \in EnvIds, slug \in Slugs, b \in Branches :
                  CreateEnvironment(r, id, slug, b) \/ UpdateEnvironment(r, id, slug, b)
             \/ \E id \in EnvIds : DeleteEnvironment(r, id)
             \/ \E bound \in SUBSET (Slugs \cup {Null}) : SaveVars(r, bound)
             \/ \E v \in {1, 2} : SaveBuild(r, v) \/ SaveResources(r, v)
    BY <1>1, <2>2, FormsLatest
  <2>3. CASE UNCHANGED settings /\ (Done(r) \/ Refresh(r))
    BY <1>1, <1>2, <2>3, LatestDone DEF VarsBound, settings
  <2>4. CASE \/ \E i \in Domains : Verify(r, i)
             \/ \E i \in Domains, h \in Hosts : CheckHost(r, i, h)
             \/ VerifyDns(r)
    <3>1. req[r] \in Visits /\ req[r].at \in Looking /\ UNCHANGED settings
      BY <1>2, <2>4 DEF Verify, CheckHost, VerifyDns, Loaded, Looking
    <3>2. /\ req'[r].project = req[r].project /\ req'[r].envs = req[r].envs
          /\ req'[r].vars = req[r].vars /\ req'[r].config = req[r].config
      <4>1. CASE \E i \in Domains : Verify(r, i)
        BY <1>2, <3>1, <4>1 DEF Verify, Visits
      <4>2. CASE \E i \in Domains, h \in Hosts : CheckHost(r, i, h)
        BY <1>2, <3>1, <4>2 DEF CheckHost, Visits
      <4>3. CASE VerifyDns(r)
        <5>1. PICK good : req' = [req EXCEPT ![r].at = "checked", ![r].ok = good]
          BY <4>3 DEF VerifyDns
        <5> QED BY <1>2, <3>1, <5>1 DEF Visits
      <4> QED BY <2>4, <4>1, <4>2, <4>3
    <3> QED BY <1>1, <3>1, <3>2, LatestStays
  <2> QED
    BY <1>3, <2>1, <2>2, <2>3, <2>4
       DEF Submit, Leave, AddDomain, EditDomain, RemoveDomain, VerifyCommit, WriteFile
<1>4. CASE \/ \E p \in Projects, b \in Branches : DeploymentSucceeds(p, b)
           \/ \E h \in Hosts : Records(h)
  BY <1>1, <1>4 DEF DeploymentSucceeds, Records, LatestInv, VarsBound, settings
<1>5. CASE UNCHANGED allvars
  BY <1>1, <1>5 DEF allvars, LatestInv, VarsBound
<1> QED BY <1>3, <1>4, <1>5 DEF Next

\* With one request at a time, what a form writes back was not changed since it
\* was loaded.
THEOREM LatestIsLoaded == SettingsAssumption /\ OneRequest => (Spec => []LatestInv)
<1> SUFFICES ASSUME SettingsAssumption, OneRequest PROVE Spec => []LatestInv
  OBVIOUS
<1>1. Init => LatestInv BY LatestInit
<1>2. LatestInv /\ [Next]_allvars => LatestInv' BY LatestNext
<1> QED BY <1>1, <1>2, PTL DEF Spec

\* No two active environments of a project share a slug, and production stays
\* first, active and under its name, however requests overlap; with one request
\* at a time, a variable is bound to environments there are.
THEOREM EnvironmentsStayConsistent ==
    SettingsAssumption => (Spec => [](SettingsTypeOK /\ EnvironmentsConsistent))
<1> SUFFICES ASSUME SettingsAssumption
             PROVE  Spec => [](SettingsTypeOK /\ EnvironmentsConsistent)
  OBVIOUS
<1>1. SettingsInv => SettingsTypeOK /\ SlugsUnique /\ ProductionStays
  BY DEF SettingsInv, SlugsUnique, ProductionStays, Writable, Sound
<1>2. CASE OneRequest
  <2>1. Spec => []LatestInv BY <1>2, LatestIsLoaded
  <2>2. LatestInv => SettingsTypeOK /\ EnvironmentsConsistent
    BY <1>1 DEF LatestInv, EnvironmentsConsistent
  <2> QED BY <2>1, <2>2, PTL
<1>3. CASE ~OneRequest
  <2>1. SettingsInv => SettingsTypeOK /\ EnvironmentsConsistent
    BY <1>1, <1>3 DEF EnvironmentsConsistent
  <2> QED BY <2>1, SettingsInvariant, PTL
<1> QED BY <1>2, <1>3

\* One request after the other, the form of a half of the configuration keeps
\* the other half.
THEOREM HalvesAreKept ==
    SettingsAssumption /\ OneRequest => (Spec => [][FormsKeepEachOther]_allvars)
<1> SUFFICES ASSUME SettingsAssumption, OneRequest PROVE Spec => [][FormsKeepEachOther]_allvars
  OBVIOUS
<1>1. LatestInv /\ [Next]_allvars => [FormsKeepEachOther]_allvars
  <2> SUFFICES ASSUME LatestInv, Next PROVE FormsKeepEachOther
    OBVIOUS
  <2>1. ASSUME NEW r \in Requests, NEW v \in {1, 2}, SaveBuild(r, v) \/ SaveResources(r, v)
        PROVE  FormsKeepEachOther
    <3>1. req[r].config = config[req[r].project] /\ req[r].project \in Projects
      BY <2>1, LatestLoaded DEF SaveBuild, SaveResources, Loaded
    <3>2. config \in [Projects -> Configs] BY DEF LatestInv, SettingsInv, SettingsTypeOK
    <3> DEFINE p == req[r].project
               half == IF SaveBuild(r, v) THEN [config[p] EXCEPT !.build = v]
                       ELSE [config[p] EXCEPT !.resources = v]
    <3>3. config' = [config EXCEPT ![p] = half]
      BY <2>1, <3>1, <3>2 DEF SaveBuild, SaveResources, Written
    <3>4. half.build = config[p].build \/ half.resources = config[p].resources
      BY <3>1, <3>2 DEF Configs
    <3> HIDE DEF p, half
    <3> QED BY <3>2, <3>3, <3>4 DEF FormsKeepEachOther
  <2>2. CASE UNCHANGED config BY <2>2 DEF FormsKeepEachOther
  <2>3. ASSUME NEW r \in Requests, Submit(r) PROVE FormsKeepEachOther
    <3>1. CASE \/ \E p \in Projects : Load(r, p)
               \/ Leave(r)
      BY <2>2, <3>1, ZenonT(60) DEF Load, Leave, settings
    <3>2. CASE \/ \E id \in EnvIds, slug \in Slugs, b \in Branches :
                    CreateEnvironment(r, id, slug, b) \/ UpdateEnvironment(r, id, slug, b)
               \/ \E id \in EnvIds : DeleteEnvironment(r, id)
               \/ \E bound \in SUBSET (Slugs \cup {Null}) : SaveVars(r, bound)
      BY <2>2, <3>2, ZenonT(60)
         DEF CreateEnvironment, UpdateEnvironment, DeleteEnvironment, SaveVars
    <3>3. CASE \E v \in {1, 2} : SaveBuild(r, v) \/ SaveResources(r, v)
      BY <2>1, <3>3
    <3>4. CASE \/ \E i \in Domains : Verify(r, i) \/ RemoveDomain(r, i)
               \/ \E i \in Domains, h \in Hosts : CheckHost(r, i, h)
               \/ \E e \in {req[r].envs[k].id : k \in Active(req[r].envs)} :
                    AddDomain(r, e) \/ EditDomain(r, e)
      BY <2>2, <3>4 DEF Verify, RemoveDomain, CheckHost, AddDomain, EditDomain, settings
    <3>5. CASE VerifyDns(r) \/ VerifyCommit(r) \/ WriteFile(r)
      BY <2>2, <3>5 DEF VerifyDns, VerifyCommit, WriteFile, settings
    <3> QED BY <2>3, <3>1, <3>2, <3>3, <3>4, <3>5 DEF Submit
  <2>4. CASE \/ \E p \in Projects, b \in Branches : DeploymentSucceeds(p, b)
             \/ \E h \in Hosts : Records(h)
    BY <2>2, <2>4 DEF DeploymentSucceeds, Records, settings
  <2> QED BY <2>3, <2>4 DEF Next
<1>2. Spec => []LatestInv
  BY LatestIsLoaded
<1> QED BY <1>1, <1>2, PTL DEF Spec

\* SettingsKept: however requests overlap the environments stay consistent, and
\* one request after the other keeps what it is not about.
THEOREM SettingsAreKept == SettingsAssumption => (Spec => SettingsKept)
<1> SUFFICES ASSUME SettingsAssumption PROVE Spec => SettingsKept
  OBVIOUS
<1>1. Spec => [][OneRequest => FormsKeepEachOther]_allvars
  <2>1. CASE OneRequest
    <3>1. [FormsKeepEachOther]_allvars => [OneRequest => FormsKeepEachOther]_allvars
      OBVIOUS
    <3> QED BY <2>1, <3>1, HalvesAreKept, PTL
  <2>2. CASE ~OneRequest
    <3>1. [OneRequest => FormsKeepEachOther]_allvars
      BY <2>2
    <3> QED BY <3>1, PTL
  <2> QED BY <2>1, <2>2
<1> QED BY <1>1, EnvironmentsStayConsistent, PTL DEF SettingsKept

-----------------------------------------------------------------------------
(***************************************************************************)
(* The registry of runners.                                                *)
(***************************************************************************)
\* Two ways to say what the file of overrides holds.
LEMMA OverridesAre ==
    ASSUME NEW ov
    PROVE  IsOverrides(ov) <=> ov \in Overrides
  BY DEF IsOverrides, Overrides

\* What an overrides file is, entry by entry.
LEMMA OverridesByEntry ==
    ASSUME NEW D \in SUBSET EntrySlugs, NEW ov \in [D -> [enabled : Says, own : BOOLEAN]]
    PROVE  ov \in Overrides
  BY DEF Overrides

LEMMA OverridesFacts ==
    ASSUME NEW ov \in Overrides
    PROVE  /\ DOMAIN ov \subseteq EntrySlugs
           /\ \A s \in DOMAIN ov : ov[s] \in [enabled : Says, own : BOOLEAN]
  BY DEF Overrides

\* Pruning an entry.
LEMMA PruneFacts ==
    ASSUME NEW c, NEW ov \in Overrides
    PROVE  /\ Prune(c, ov) \in Overrides
           /\ DOMAIN Prune(c, ov) = {s \in DOMAIN ov : Stays(c, s, ov[s])}
           /\ \A s \in DOMAIN Prune(c, ov) :
                /\ Prune(c, ov)[s].enabled = PrunedEnabled(c, s, ov[s])
                /\ Prune(c, ov)[s].own = ov[s].own
                /\ Prune(c, ov)[s].enabled # "off"
<1> DEFINE D == {s \in DOMAIN ov : Stays(c, s, ov[s])}
           P(s) == [ov[s] EXCEPT !.enabled = PrunedEnabled(c, s, ov[s])]
<1>1. D \in SUBSET EntrySlugs
  BY OverridesFacts
<1>2. \A s \in D : /\ ov[s] \in [enabled : Says, own : BOOLEAN]
                   /\ PrunedEnabled(c, s, ov[s]) \in {"on", "unset"}
  BY OverridesFacts DEF PrunedEnabled, Says
<1>3. \A s \in D : /\ P(s) \in [enabled : Says, own : BOOLEAN]
                   /\ P(s).enabled = PrunedEnabled(c, s, ov[s]) /\ P(s).own = ov[s].own
  BY <1>2 DEF Says
<1>4. Prune(c, ov) = [s \in D |-> P(s)]
  BY DEF Prune
<1>5. Prune(c, ov) \in Overrides
  <2> HIDE DEF D, P
  <2>1. Prune(c, ov) \in [D -> [enabled : Says, own : BOOLEAN]]
    BY <1>3, <1>4
  <2> QED BY <1>1, <2>1, OverridesByEntry
<1> QED BY <1>2, <1>3, <1>4, <1>5

\* What pruned overrides and the catalog say together: an override enables if
\* its entry is complete, and nothing else than the catalog does otherwise.
LEMMA PrunedEntry ==
    ASSUME RegistryAssumption, NEW c \in Catalogs, NEW ov \in Overrides, NEW s
    PROVE  EntryEnabled(c, Prune(c, ov), s) <=>
             \/ s \in DOMAIN ov /\ (s \in DOMAIN c \/ ov[s].own) /\ ov[s].enabled = "on"
             \/ s \in DOMAIN c /\ c[s] = "on"
<1>1. s \in DOMAIN c => c[s] \in Says
  BY DEF RegistryAssumption
<1>2. s \in DOMAIN ov => ov[s].enabled \in Says /\ ov[s].own \in BOOLEAN
  BY OverridesFacts
<1>3. /\ s \in DOMAIN Prune(c, ov) <=> s \in DOMAIN ov /\ Stays(c, s, ov[s])
      /\ s \in DOMAIN Prune(c, ov) => Prune(c, ov)[s].enabled = PrunedEnabled(c, s, ov[s])
  BY PruneFacts, ZenonT(60)
<1>4. CASE s \notin DOMAIN ov
  BY <1>3, <1>4 DEF EntryEnabled
<1>5. CASE s \in DOMAIN ov /\ s \notin DOMAIN c
  BY <1>2, <1>3, <1>5 DEF EntryEnabled, Stays, PrunedEnabled, Says
<1>6. CASE s \in DOMAIN ov /\ s \in DOMAIN c
  <2>1. CASE ov[s].enabled = "on" /\ c[s] # "on"
    BY <1>3, <1>6, <2>1 DEF EntryEnabled, Stays, PrunedEnabled
  <2>2. CASE ov[s].enabled = "on" /\ c[s] = "on"
    BY <1>3, <1>6, <2>2 DEF EntryEnabled, PrunedEnabled
  <2>3. CASE ov[s].enabled # "on"
    <3>1. PrunedEnabled(c, s, ov[s]) = "unset"
      BY <1>2, <1>6, <2>3 DEF PrunedEnabled, Says
    <3> QED BY <1>3, <1>6, <2>3, <3>1 DEF EntryEnabled
  <2> QED BY <2>1, <2>2, <2>3
<1> QED BY <1>4, <1>5, <1>6

\* What a toggle makes of the overrides.
Asked(b) == IF b THEN "on" ELSE "off"

\* The overrides a toggle writes differ from those it read in one entry.
SetsEntry(ov, s, b) ==
    /\ Set(ov, s, b) \in Overrides
    /\ DOMAIN Set(ov, s, b) = DOMAIN ov \cup {s}
    /\ \A r \in DOMAIN ov : r # s => Set(ov, s, b)[r] = ov[r]
    /\ Set(ov, s, b)[s].enabled = Asked(b)
    /\ s \in DOMAIN ov => Set(ov, s, b)[s].own = ov[s].own

LEMMA SetFacts ==
    ASSUME NEW ov \in Overrides, NEW s \in EntrySlugs, NEW b, b \in BOOLEAN
    PROVE  SetsEntry(ov, s, b)
<1> DEFINE D == DOMAIN ov \cup {s}
           P(r) == IF r # s THEN ov[r]
                   ELSE [enabled |-> IF b THEN "on" ELSE "off",
                         own |-> IF s \in DOMAIN ov THEN ov[s].own ELSE FALSE]
<1>1. D \in SUBSET EntrySlugs /\ \A r \in D : P(r) \in [enabled : Says, own : BOOLEAN]
  BY OverridesFacts DEF Says
<1>2. Set(ov, s, b) = [r \in D |-> P(r)]
  BY DEF Set
<1>3. Set(ov, s, b) \in Overrides
  <2> HIDE DEF D, P
  <2>1. Set(ov, s, b) \in [D -> [enabled : Says, own : BOOLEAN]]
    BY <1>1, <1>2
  <2> QED BY <1>1, <2>1, OverridesByEntry
<1>4. Set(ov, s, b)[s] = [enabled |-> IF b THEN "on" ELSE "off",
                          own |-> IF s \in DOMAIN ov THEN ov[s].own ELSE FALSE]
  BY <1>2
<1>5. s \in DOMAIN ov => Set(ov, s, b)[s].own = ov[s].own
  BY <1>4
<1>6. Set(ov, s, b)[s].enabled = Asked(b)
  BY <1>4 DEF Asked
<1> QED BY <1>2, <1>3, <1>5, <1>6 DEF SetsEntry

\* The entries after a toggle: the one that was toggled is as asked, if the
\* catalog does not enable it and the registry lists it, and all others are as
\* before, whatever the toggle prunes.
LEMMA ToggledEntries ==
    ASSUME RegistryAssumption, NEW c \in Catalogs, NEW ov \in Overrides,
           NEW s \in EntrySlugs, NEW b, b \in BOOLEAN,
           NEW r, r \in DOMAIN c \cup DOMAIN Prune(c, ov),
           r \in DOMAIN c => c[r] # "on"
    PROVE  EntryEnabled(c, Prune(c, Prune(c, Set(Prune(c, ov), s, b))), r)
             <=> IF r = s THEN b ELSE EntryEnabled(c, Prune(c, ov), r)
<1> DEFINE P == Prune(c, ov)
           S == Set(P, s, b)
           F == Prune(c, S)
<1>1. /\ P \in Overrides /\ DOMAIN P = {q \in DOMAIN ov : Stays(c, q, ov[q])}
      /\ \A q \in DOMAIN P : /\ P[q].enabled = PrunedEnabled(c, q, ov[q])
                             /\ P[q].own = ov[q].own /\ P[q].enabled # "off"
  BY PruneFacts
<1>2. /\ S \in Overrides /\ DOMAIN S = DOMAIN P \cup {s}
      /\ \A q \in DOMAIN P : q # s => S[q] = P[q]
      /\ S[s].enabled = Asked(b)
      /\ s \in DOMAIN P => S[s].own = P[s].own
  <2>1. P \in Overrides
    BY <1>1
  <2> HIDE DEF P
  <2>2. SetsEntry(P, s, b)
    BY <2>1, SetFacts
  <2> QED BY <2>2 DEF SetsEntry
<1>3. F \in Overrides
  BY <1>2, PruneFacts
<1>4. /\ DOMAIN F = {q \in DOMAIN S : Stays(c, q, S[q])}
      /\ \A q \in DOMAIN F : F[q].enabled = PrunedEnabled(c, q, S[q]) /\ F[q].own = S[q].own
  <2>1. S \in Overrides
    BY <1>2
  <2> HIDE DEF S
  <2> QED BY <2>1, PruneFacts
<1>5. EntryEnabled(c, P, r) <=>
        r \in DOMAIN ov /\ (r \in DOMAIN c \/ ov[r].own) /\ ov[r].enabled = "on"
  BY PrunedEntry
<1>6. EntryEnabled(c, Prune(c, F), r) <=>
        r \in DOMAIN F /\ (r \in DOMAIN c \/ F[r].own) /\ F[r].enabled = "on"
  <2> HIDE DEF F
  <2> QED BY <1>3, PrunedEntry
\* An entry that the registry lists and the catalog does not have is complete.
<1>7. r \notin DOMAIN c => r \in DOMAIN P /\ P[r].own
  BY <1>1 DEF Stays
<1>8. CASE r = s
  <2>1. r \in DOMAIN S /\ (r \in DOMAIN c \/ S[r].own) /\ S[r].enabled = Asked(b)
    BY <1>2, <1>7, <1>8
  <2>2. CASE b
    <3>1. PrunedEnabled(c, r, S[r]) = "on" /\ Stays(c, r, S[r])
      BY <2>1, <2>2 DEF PrunedEnabled, Stays, Asked
    <3> QED BY <1>4, <1>6, <1>8, <2>1, <2>2, <3>1
  <2>3. CASE ~b
    <3>1. PrunedEnabled(c, r, S[r]) # "on"
      BY <2>1, <2>3 DEF PrunedEnabled, Asked
    <3> QED BY <1>4, <1>6, <1>8, <2>3, <3>1
  <2> QED BY <2>2, <2>3
<1>9. CASE r # s
  <2>1. r \in DOMAIN S <=> r \in DOMAIN P
    BY <1>2, <1>9
  <2>2. CASE r \in DOMAIN P
    <3>1. S[r] = P[r] /\ P[r].enabled = PrunedEnabled(c, r, ov[r]) /\ P[r].own = ov[r].own
          /\ r \in DOMAIN ov
      BY <1>1, <1>2, <1>9, <2>2
    <3>2. ov[r].enabled \in Says /\ ov[r].own \in BOOLEAN
      BY <3>1, OverridesFacts
    <3>3. CASE ov[r].enabled = "on"
      <4>1. P[r].enabled = "on" /\ PrunedEnabled(c, r, P[r]) = "on" /\ Stays(c, r, P[r])
        BY <3>1, <3>3, <1>7 DEF PrunedEnabled, Stays
      <4> QED BY <1>4, <1>5, <1>6, <1>7, <1>9, <2>1, <2>2, <3>1, <3>3, <4>1
    <3>4. CASE ov[r].enabled # "on"
      <4>1. P[r].enabled # "on" /\ PrunedEnabled(c, r, P[r]) # "on"
        BY <3>1, <3>2, <3>4 DEF PrunedEnabled, Says
      <4> QED BY <1>4, <1>5, <1>6, <1>9, <3>1, <3>4, <4>1
    <3> QED BY <3>3, <3>4
  <2>3. CASE r \notin DOMAIN P
    <3>1. r \notin DOMAIN F
      BY <1>4, <2>1, <2>3
    <3>2. ~(r \in DOMAIN ov /\ r \in DOMAIN c /\ ov[r].enabled = "on")
      BY <1>1, <2>3 DEF Stays, PrunedEnabled
    <3> QED BY <1>5, <1>6, <1>7, <1>9, <2>3, <3>1, <3>2
  <2> QED BY <2>2, <2>3
<1> QED BY <1>8, <1>9

-----------------------------------------------------------------------------
LEMMA RunnersInitInv ==
    ASSUME RegistryAssumption, RunnersInit
    PROVE  RunnersInv
  BY OverridesAre DEF RegistryAssumption, RunnersInit, RunnersInv, RegTypeOK, HoldsKnown, HoldsFresh, Idle

\* What no request is told of does not change what it holds.
LEMMA OthersHold ==
    ASSUME NEW a, HoldsKnown(a), admin'[a] = admin[a]
    PROVE  HoldsKnown(a)'
  BY DEF HoldsKnown

LEMMA ConstructStep ==
    ASSUME RegistryAssumption, RunnersInv, NEW a \in Admins,
           \/ \E s \in EntrySlugs, b \in BOOLEAN : AskToggle(a, s, b)
           \/ AskUpdate(a)
    PROVE  RunnersInv'
<1>1. /\ UNCHANGED <<catalog, overrides, torn>> /\ overrides \in Overrides /\ catalog \in Catalogs
      /\ admin = [b \in Admins |-> admin[b]]
  BY OverridesAre DEF AskToggle, AskUpdate, Construct, RunnersInv, RegTypeOK
<1>2. PICK next :
        /\ admin' = [admin EXCEPT ![a] = next]
        /\ next.pc \in {"toggle", "fetch"}
        /\ next.pc = "toggle" =>
             /\ next.slug \in EntrySlugs /\ next.on \in BOOLEAN
             /\ next.catalog = catalog /\ next.overrides = Prune(catalog, overrides)
  <2>1. CASE AskUpdate(a)
    <3>1. [pc |-> "fetch"].pc = "fetch"
      OBVIOUS
    <3> QED BY <2>1, <3>1 DEF AskUpdate, Construct
  <2>2. ASSUME NEW s \in EntrySlugs, NEW b \in BOOLEAN, AskToggle(a, s, b)
        PROVE  \E next : /\ admin' = [admin EXCEPT ![a] = next]
                         /\ next.pc = "toggle" /\ next.slug \in EntrySlugs /\ next.on \in BOOLEAN
                         /\ next.catalog = catalog /\ next.overrides = Prune(catalog, overrides)
    <3> DEFINE n == [pc |-> "toggle", slug |-> s, on |-> b,
                     catalog |-> catalog, overrides |-> Prune(catalog, overrides)]
    <3>1. admin' = [admin EXCEPT ![a] = n]
      BY <2>2 DEF AskToggle, Construct
    <3>2. n.pc = "toggle" /\ n.slug \in EntrySlugs /\ n.on \in BOOLEAN
          /\ n.catalog = catalog /\ n.overrides = Prune(catalog, overrides)
      OBVIOUS
    <3> HIDE DEF n
    <3> QED BY <3>1, <3>2
  <2> QED BY <2>1, <2>2
<1>3. /\ admin' = [b \in Admins |-> admin'[b]]
      /\ admin'[a] = next /\ \A b \in Admins : b # a => admin'[b] = admin[b]
  BY <1>1, <1>2
<1>4. RegTypeOK'
  BY <1>1, <1>2, <1>3, OverridesAre DEF RunnersInv, RegTypeOK
<1>5. HoldsKnown(a)'
  <2>1. Prune(catalog, overrides) \in Overrides
    BY <1>1, PruneFacts
  <2> QED BY <1>1, <1>2, <1>3, <2>1 DEF HoldsKnown
<1>6. ASSUME OneAtATime, NEW b \in Admins PROVE HoldsFresh(b)'
  BY <1>1, <1>2, <1>3, <1>6 DEF OneAtATime, HoldsFresh
<1> QED BY <1>3, <1>4, <1>5, <1>6, OthersHold DEF RunnersInv, OneAtATime

LEMMA OpenStep ==
    ASSUME RegistryAssumption, RunnersInv, NEW a \in Admins, Open(a)
    PROVE  RunnersInv'
<1> DEFINE w == Prune(admin[a].catalog, Set(admin[a].overrides, admin[a].slug, admin[a].on))
           n == [pc |-> "write", slug |-> admin[a].slug, on |-> admin[a].on, over |-> FALSE,
                 overrides |-> w]
<1>1. /\ UNCHANGED <<catalog, overrides>> /\ torn' = TRUE /\ admin[a].pc = "toggle"
      /\ admin = [b \in Admins |-> admin[b]] /\ admin' = [admin EXCEPT ![a] = n]
      /\ HoldsKnown(a)
  BY OverridesAre DEF Open, RunnersInv, RegTypeOK
<1>2. /\ admin[a].overrides \in Overrides /\ admin[a].slug \in EntrySlugs /\ admin[a].on \in BOOLEAN
  BY <1>1 DEF HoldsKnown
<1>3. Set(admin[a].overrides, admin[a].slug, admin[a].on) \in Overrides
  BY <1>2, SetFacts DEF SetsEntry
<1>4. w \in Overrides /\ \A s \in DOMAIN w : w[s].enabled # "off"
  BY <1>3, PruneFacts
<1>5. /\ n.pc = "write" /\ n.slug = admin[a].slug /\ n.on = admin[a].on
      /\ n.overrides = w /\ n.over = FALSE
  OBVIOUS
<1>6. w = Prune(admin[a].catalog, Set(admin[a].overrides, admin[a].slug, admin[a].on))
  OBVIOUS
<1> HIDE DEF w, n
<1>7. /\ admin' = [b \in Admins |-> admin'[b]]
      /\ admin'[a] = n /\ \A b \in Admins : b # a => admin'[b] = admin[b]
  BY <1>1
<1>8. RegTypeOK'
  BY <1>1, <1>5, <1>7, OverridesAre DEF RunnersInv, RegTypeOK
<1>9. HoldsKnown(a)'
  BY <1>2, <1>4, <1>5, <1>7 DEF HoldsKnown
<1>10. ASSUME OneAtATime, NEW b \in Admins PROVE HoldsFresh(b)'
  <2>1. b = a /\ HoldsFresh(a)
    BY <1>10 DEF OneAtATime, RunnersInv
  <2>2. admin[a].catalog = catalog /\ admin[a].overrides = Prune(catalog, overrides)
    BY <1>1, <2>1 DEF HoldsFresh
  <2> QED BY <1>1, <1>5, <1>6, <1>7, <2>1, <2>2 DEF HoldsFresh
<1> QED BY <1>7, <1>8, <1>9, <1>10, OthersHold DEF RunnersInv, OneAtATime

LEMMA WriteStep ==
    ASSUME RegistryAssumption, RunnersInv, NEW a \in Admins, Write(a)
    PROVE  RunnersInv'
<1>1. /\ catalog' = catalog /\ overrides' = admin[a].overrides /\ admin[a].pc = "write"
      /\ torn' \in {FALSE, admin[a].over} /\ admin' = [b \in Admins |-> admin'[b]]
      /\ admin'[a] = Idle /\ HoldsKnown(a)
  BY DEF Write, RunnersInv
<1>2. \A b \in Admins : b # a =>
        /\ admin[b].pc # "write" => admin'[b] = admin[b]
        /\ admin[b].pc = "write" => /\ admin'[b].pc = "write" /\ admin'[b].slug = admin[b].slug
                                    /\ admin'[b].on = admin[b].on
                                    /\ admin'[b].overrides = admin[b].overrides
                                    /\ admin'[b].over \in BOOLEAN
  <2> SUFFICES ASSUME NEW b \in Admins, b # a, admin[b].pc = "write"
               PROVE  /\ admin'[b].pc = "write" /\ admin'[b].slug = admin[b].slug
                      /\ admin'[b].on = admin[b].on
                      /\ admin'[b].overrides = admin[b].overrides
                      /\ admin'[b].over \in BOOLEAN
    BY DEF Write
  <2>1. admin'[b] = [admin[b] EXCEPT !.over = TRUE]
    BY DEF Write
  <2> QED BY <2>1
<1>3. \A b \in Admins : HoldsKnown(b)'
  BY <1>1, <1>2 DEF RunnersInv, HoldsKnown, Idle
<1>4. OneAtATime => \A b \in Admins : HoldsFresh(b)'
  BY <1>1 DEF OneAtATime, HoldsFresh, Idle
<1>5. RegTypeOK'
  <2>1. /\ overrides' \in Overrides /\ catalog' \in Catalogs
        /\ \A s \in DOMAIN overrides' : overrides'[s].enabled # "off"
    BY <1>1, OverridesAre DEF HoldsKnown, RunnersInv, RegTypeOK
  <2>2. torn' \in BOOLEAN
    BY <1>1 DEF HoldsKnown
  <2>3. \A b \in Admins : admin'[b].pc \in {"idle", "toggle", "fetch", "write"}
    BY <1>1, <1>2, OverridesAre DEF RunnersInv, RegTypeOK, Idle
  <2> QED BY <1>1, <2>1, <2>2, <2>3, OverridesAre DEF RegTypeOK
<1> QED BY <1>3, <1>4, <1>5 DEF RunnersInv, OneAtATime

LEMMA UpdateStep ==
    ASSUME RegistryAssumption, RunnersInv, NEW a \in Admins, Update(a) \/ Dies(a)
    PROVE  RunnersInv'
<1>1. /\ admin' = [admin EXCEPT ![a] = Idle] /\ admin = [b \in Admins |-> admin[b]]
      /\ UNCHANGED <<overrides, torn>> /\ catalog' \in Catalogs
  BY OverridesAre DEF Update, Dies, RunnersInv, RegTypeOK
<1>2. /\ admin' = [b \in Admins |-> admin'[b]] /\ Idle.pc = "idle"
      /\ admin'[a] = Idle /\ \A b \in Admins : b # a => admin'[b] = admin[b]
  BY <1>1 DEF Idle
<1>3. RegTypeOK'
  BY <1>1, <1>2, OverridesAre DEF RunnersInv, RegTypeOK
<1>4. HoldsKnown(a)'
  BY <1>2 DEF HoldsKnown
<1>5. ASSUME OneAtATime, NEW b \in Admins PROVE HoldsFresh(b)'
  BY <1>2, <1>5 DEF OneAtATime, HoldsFresh
<1> QED BY <1>2, <1>3, <1>4, <1>5, OthersHold DEF RunnersInv, OneAtATime

\* The inductive invariant of the registry.
THEOREM RunnersInvariant == RegistryAssumption => (RunnersSpec => []RunnersInv)
<1> SUFFICES ASSUME RegistryAssumption PROVE RunnersSpec => []RunnersInv
  OBVIOUS
<1>1. RunnersInit => RunnersInv
  BY RunnersInitInv
<1>2. RunnersInv /\ [RunnersNext]_runnerVars => RunnersInv'
  <2>1. ASSUME UNCHANGED runnerVars, RunnersInv PROVE RunnersInv'
    BY <2>1, OverridesAre DEF runnerVars, RunnersInv, RegTypeOK, HoldsKnown, HoldsFresh, OneAtATime
  <2> QED BY <2>1, ConstructStep, OpenStep, WriteStep, UpdateStep DEF RunnersNext
<1> QED BY <1>1, <1>2, PTL DEF RunnersSpec

\* A preset that is offered has a runner that is, whatever overrides and
\* catalogs say (RegistryService._resolve_entries).
THEOREM PresetsHaveRunners ==
    RegistryAssumption => (RunnersSpec => [](RegTypeOK /\ PresetHasRunner))
<1> SUFFICES ASSUME RegistryAssumption PROVE RunnersSpec => [](RegTypeOK /\ PresetHasRunner)
  OBVIOUS
<1>1. RunnersInv => RegTypeOK
  BY DEF RunnersInv
<1>2. PresetHasRunner
  BY DEF RegistryAssumption, PresetHasRunner, Offered, Resolved, Usable, EntrySlugs
<1> QED BY <1>1, <1>2, RunnersInvariant, PTL

\* While requests come one after the other and catalogs enable nothing, a toggle
\* does what it says and nothing else, whatever was edited by hand, whatever
\* pruning drops, and whatever catalogs were fetched in between.
THEOREM TogglesAreExact ==
    RegistryAssumption /\ OneAtATime /\ CatalogsEnableNothing
      => (RunnersSpec => [][ToggleIsExact]_runnerVars)
<1> SUFFICES ASSUME RegistryAssumption, OneAtATime, CatalogsEnableNothing
             PROVE  RunnersSpec => [][ToggleIsExact]_runnerVars
  OBVIOUS
<1>1. RunnersInv => ToggleIsExact
  <2> SUFFICES ASSUME RunnersInv, NEW a \in Admins, Write(a), NEW r \in Runners, r \in Listed
               PROVE  (r \in Offered') <=> IF r = admin[a].slug THEN admin[a].on ELSE r \in Offered
    BY DEF ToggleIsExact
  <2>1. /\ HoldsKnown(a) /\ HoldsFresh(a) /\ admin[a].pc = "write"
        /\ catalog \in Catalogs /\ overrides \in Overrides /\ catalog' = catalog
        /\ overrides' = admin[a].overrides
    BY OverridesAre DEF RunnersInv, RegTypeOK, Write
  <2>2. /\ admin[a].slug \in EntrySlugs /\ admin[a].on \in BOOLEAN
        /\ overrides' = Prune(catalog, Set(Prune(catalog, overrides), admin[a].slug, admin[a].on))
    BY <2>1 DEF HoldsKnown, HoldsFresh
  <2>3. EntryEnabled(catalog, Prune(catalog, overrides'), r)
          <=> IF r = admin[a].slug THEN admin[a].on
              ELSE EntryEnabled(catalog, Prune(catalog, overrides), r)
    BY <2>1, <2>2, ToggledEntries DEF Listed, CatalogsEnableNothing
  <2>4. r \in EntrySlugs /\ r \notin Presets
    BY DEF RegistryAssumption, EntrySlugs
  <2>5. r \in Offered <=> EntryEnabled(catalog, Prune(catalog, overrides), r)
    BY <2>4 DEF Offered, Resolved
  <2>6. r \in Offered' <=> EntryEnabled(catalog, Prune(catalog, overrides'), r)
    BY <2>1, <2>4 DEF Offered, Resolved
  <2> QED BY <2>3, <2>5, <2>6
<1> QED BY <1>1, RunnersInvariant, PTL DEF RunnersSpec

\* RunnersOffered: presets keep their runners, and toggles are exact.
THEOREM RunnersStayOffered == RegistryAssumption => (RunnersSpec => RunnersOffered)
<1> SUFFICES ASSUME RegistryAssumption PROVE RunnersSpec => RunnersOffered
  OBVIOUS
<1> DEFINE Apart == OneAtATime /\ CatalogsEnableNothing
<1>1. RunnersSpec => [][Apart => ToggleIsExact]_runnerVars
  <2>1. CASE Apart
    <3>1. [ToggleIsExact]_runnerVars => [Apart => ToggleIsExact]_runnerVars
      OBVIOUS
    <3> QED BY <2>1, <3>1, TogglesAreExact, PTL
  <2>2. CASE ~Apart
    <3>1. [Apart => ToggleIsExact]_runnerVars
      BY <2>2
    <3> QED BY <3>1, PTL
  <2> QED BY <2>1, <2>2
<1> QED BY <1>1, PresetsHaveRunners, PTL DEF RunnersOffered

-----------------------------------------------------------------------------
(* Teams and their members.                                                *)

LEMMA AppendNotEmpty ==
    ASSUME NEW S, NEW s \in Seq(S), NEW x \in S
    PROVE  /\ Append(s, x) # <<>> /\ Append(s, x) \in Seq(S)
           /\ Len(Append(s, x)) = Len(s) + 1
<1>1. Append(s, x) \in Seq(S) /\ Len(Append(s, x)) = Len(s) + 1
  OBVIOUS
<1>2. Len(<<>>) = 0 /\ Len(s) \in Nat
  OBVIOUS
<1> QED BY <1>1, <1>2

LEMMA MembersInitially == ASSUME MembershipAssumption, MembersInit PROVE MembersInv
<1>1. RowsShaped
  BY DEF MembersInit, RowsShaped, MembershipAssumption, NoUser, NoInvite, NoRequest, UserRows,
         InviteRows, RequestRecords, JobRecords, Roles
<1>2. MembershipTypeOK
  BY DEF MembersInit, MembershipTypeOK, MembershipAssumption, NoUser, NoInvite, NoRequest, IsMember
<1>3. \A r \in TeamRequests : RequestShaped(r)
  BY DEF MembersInit, RequestShaped, NoRequest
<1>4. \A j \in DOMAIN jobs : JobShaped(j)
  BY DEF MembersInit
<1> QED BY <1>1, <1>2, <1>3, <1>4 DEF MembersInv

-----------------------------------------------------------------------------
\* Rows refer to rows that exist as long as nothing that is referred to goes.
LEMMA RefsKept ==
    ASSUME MembersInv, RowsShaped',
           \A t \in Teams : team[t] = "active" => team'[t] = "active",
           \A u \in Users : /\ Present(u) => Present(u)'
                            /\ \/ user'[u].home = user[u].home
                               \/ user'[u].home # Nobody /\ team'[user'[u].home] = "active",
           \A t \in Teams, u \in Users : IsMember(t, u)' =>
               IsMember(t, u) \/ (team'[t] = "active" /\ Present(u)'),
           \A i \in Invites : invite'[i].status \in {"pending", "accepted"} =>
               \/ /\ invite[i].status \in {"pending", "accepted"}
                  /\ invite'[i].team = invite[i].team /\ invite'[i].by = invite[i].by
               \/ team'[invite'[i].team] = "active" /\ user'[invite'[i].by].status # "none",
           \A p \in TeamProjects :
               \/ project'[p] = project[p] \/ project'[p] = "gone"
               \/ project'[p] \in Teams /\ team'[project'[p]] = "active",
           MembershipAssumption
    PROVE  MembershipTypeOK'
<1>1. MembershipTypeOK /\ RowsShaped
  BY DEF MembersInv
<1>2. \A u \in Users : /\ user'[u].status \in {"none", "active", "deleted"}
                       /\ user'[u].home # Nobody => team'[user'[u].home] = "active"
  <2> TAKE u \in Users
  <2>1. user'[u] \in UserRows /\ user[u] \in UserRows
    BY <1>1 DEF RowsShaped
  <2>2. user[u].home # Nobody => user[u].home \in Teams /\ team[user[u].home] = "active"
    BY <1>1, <2>1 DEF MembershipTypeOK, UserRows
  <2> QED BY <2>1, <2>2 DEF UserRows
<1>3. ASSUME NEW t \in Teams, NEW u \in Users, IsMember(t, u)'
      PROVE  /\ team'[t] = "active" /\ Present(u)'
             /\ \A n \in DOMAIN members'[t][u] : members'[t][u][n] \in Roles
  <2>1. IsMember(t, u) => team[t] = "active" /\ Present(u)
    BY <1>1 DEF MembershipTypeOK
  <2>2. members'[t][u] \in Seq(Roles)
    BY DEF RowsShaped
  <2>3. \A n \in DOMAIN members'[t][u] : members'[t][u][n] \in Roles
    BY <2>2
  <2> QED BY <1>3, <2>1, <2>3
<1>4. ASSUME NEW i \in Invites, invite'[i].status \in {"pending", "accepted"}
      PROVE  team'[invite'[i].team] = "active" /\ user'[invite'[i].by].status # "none"
  <2>1. CASE /\ invite[i].status \in {"pending", "accepted"}
             /\ invite'[i].team = invite[i].team /\ invite'[i].by = invite[i].by
    <3>1. /\ team[invite[i].team] = "active" /\ Present(invite[i].by)
          /\ invite[i].team \in Teams /\ invite[i].by \in Users
      BY <1>1, <2>1 DEF MembershipTypeOK, RowsShaped
    <3> QED BY <2>1, <3>1 DEF Present
  <2> QED BY <1>4, <2>1
<1>5. ASSUME NEW p \in TeamProjects, project'[p] \in Teams
      PROVE  team'[project'[p]] = "active"
  BY <1>1, <1>5 DEF MembershipTypeOK, MembershipAssumption
<1>6. \A r \in TeamRequests : request'[r].team \in Teams \cup {Nobody}
  BY DEF RowsShaped, RequestRecords
<1>7. \A t \in Teams, u \in Users : IsMember(t, u)' =>
        /\ team'[t] = "active" /\ Present(u)'
        /\ \A n \in DOMAIN members'[t][u] : members'[t][u][n] \in Roles
  BY <1>3
<1> QED BY <1>2, <1>4, <1>5, <1>6, <1>7 DEF MembershipTypeOK, Present

\* TeamRequests keep their shape while invitations keep whom they are for.
InvitesStand ==
    \A i \in Invites : invite[i].status # "none" =>
        invite'[i].status # "none" /\ invite'[i].to = invite[i].to

LEMMA RequestsKept ==
    ASSUME MembersInv, InvitesStand,
           \A r \in TeamRequests : request'[r] = request[r] \/ RequestShaped(r)'
    PROVE  \A r \in TeamRequests : RequestShaped(r)'
<1> SUFFICES ASSUME NEW r \in TeamRequests, request'[r] = request[r]
             PROVE  RequestShaped(r)'
  OBVIOUS
<1>1. RequestShaped(r)
  BY DEF MembersInv
<1> QED BY <1>1 DEF RequestShaped, InvitesStand

LEMMA JobsKept ==
    ASSUME MembersInv, jobs' = jobs,
           \A u \in Users : user[u].status = "deleted" => user'[u].status = "deleted"
    PROVE  \A j \in DOMAIN jobs' : JobShaped(j)'
<1> SUFFICES ASSUME NEW j \in DOMAIN jobs PROVE JobShaped(j)'
  OBVIOUS
<1>1. JobShaped(j)
  BY DEF MembersInv
<1> QED BY <1>1 DEF JobShaped, Unfinished

\* An idle request has any shape.
LEMMA IdleShaped ==
    ASSUME NEW r \in TeamRequests, request'[r] = NoRequest
    PROVE  RequestShaped(r)'
  BY DEF RequestShaped, NoRequest

LEMMA EndKeeps ==
    ASSUME MembersInv, NEW r \in TeamRequests, End(r), MembershipAssumption
    PROVE  /\ request' \in [TeamRequests -> RequestRecords]
           /\ \A q \in TeamRequests : request'[q] = request[q] \/ RequestShaped(q)'
<1>1. NoRequest \in RequestRecords
  BY DEF NoRequest, RequestRecords
<1>2. request \in [TeamRequests -> RequestRecords]
  BY DEF MembersInv, RowsShaped
<1> QED BY <1>1, <1>2, IdleShaped DEF End

-----------------------------------------------------------------------------
\* A form that was checked: nothing changes but its request.
LEMMA BeginKeeps ==
    ASSUME MembersInv, MembershipAssumption, NEW r \in TeamRequests, NEW what \in RequestRecords,
           request' = [request EXCEPT ![r] = what], RequestShaped(r)',
           UNCHANGED <<user, team, members, project, invite, jobs>>
    PROVE  MembersInv'
<1>1. /\ request' \in [TeamRequests -> RequestRecords]
      /\ \A q \in TeamRequests : request'[q] = request[q] \/ q = r
  BY DEF MembersInv, RowsShaped
<1>2. RowsShaped'
  BY <1>1 DEF MembersInv, RowsShaped
<1>3. MembershipTypeOK'
  BY <1>2, RefsKept DEF IsMember, Present
<1>4. \A q \in TeamRequests : RequestShaped(q)'
  BY <1>1, RequestsKept DEF InvitesStand
<1>5. \A j \in DOMAIN jobs' : JobShaped(j)'
  BY JobsKept
<1> QED BY <1>2, <1>3, <1>4, <1>5 DEF MembersInv

LEMMA BeginSteps ==
    ASSUME MembersInv, MembershipAssumption, NEW r \in TeamRequests,
           \/ \E u \in Users : BeginSignUp(r, u)
           \/ \E i \in Invites : AcceptNotified(r, i) \/ \E in \in BOOLEAN : AcceptLink(r, i, in)
           \/ \E a, u \in Users, t \in Teams :
                \/ BeginRemove(r, a, t, u)
                \/ a = u /\ BeginLeave(r, u, t)
                \/ \E role \in Roles : BeginRole(r, a, t, u, role)
                \/ \E role \in {"admin", "member"} : BeginInvite(r, a, t, u, role)
    PROVE  MembersInv'
<1>1. CASE \E u \in Users : BeginSignUp(r, u)
  <2> PICK u \in Users : BeginSignUp(r, u)
    BY <1>1
  <2> DEFINE what == [NoRequest EXCEPT !.op = "sign_up", !.user = u]
  <2>1. what \in RequestRecords
    BY DEF NoRequest, RequestRecords
  <2>2. request' = [request EXCEPT ![r] = what] /\ request \in [TeamRequests -> RequestRecords]
    BY DEF BeginSignUp, Begin, MembersInv, RowsShaped
  <2>3. RequestShaped(r)'
    BY <2>2 DEF RequestShaped, NoRequest
  <2> HIDE DEF what
  <2> QED BY <2>1, <2>2, <2>3, BeginKeeps DEF BeginSignUp
<1>2. CASE \E i \in Invites : BeginAccept(r, i)
  <2> PICK i \in Invites : BeginAccept(r, i)
    BY <1>2
  <2> DEFINE what == [NoRequest EXCEPT !.op = "accept", !.user = invite[i].to, !.invite = i]
  <2>1. what \in RequestRecords /\ invite[i].to \in Users
    BY DEF NoRequest, RequestRecords, BeginAccept, MembersInv, RowsShaped
  <2>2. /\ request' = [request EXCEPT ![r] = what] /\ request \in [TeamRequests -> RequestRecords]
        /\ invite' = invite /\ invite[i].status = "pending"
    BY DEF BeginAccept, Begin, MembersInv, RowsShaped
  <2>3. RequestShaped(r)'
    BY <2>2 DEF RequestShaped, NoRequest
  <2> HIDE DEF what
  <2> QED BY <2>1, <2>2, <2>3, BeginKeeps DEF BeginAccept
<1>3. ASSUME NEW a \in Users, NEW u \in Users, NEW t \in Teams, BeginRemove(r, a, t, u)
      PROVE  MembersInv'
  <2> DEFINE what == [NoRequest EXCEPT !.op = "delete_member", !.team = t, !.user = u]
  <2>1. what \in RequestRecords
    BY DEF NoRequest, RequestRecords
  <2>2. request' = [request EXCEPT ![r] = what] /\ request \in [TeamRequests -> RequestRecords]
    BY <1>3 DEF BeginRemove, Begin, MembersInv, RowsShaped
  <2>3. RequestShaped(r)'
    BY <2>2 DEF RequestShaped, NoRequest
  <2> HIDE DEF what
  <2> QED BY <1>3, <2>1, <2>2, <2>3, BeginKeeps DEF BeginRemove
<1>4. ASSUME NEW a \in Users, NEW u \in Users, NEW t \in Teams, NEW role \in Roles,
             BeginRole(r, a, t, u, role)
      PROVE  MembersInv'
  <2> DEFINE what == [NoRequest EXCEPT !.op = "member_role", !.team = t, !.user = u, !.role = role]
  <2>1. what \in RequestRecords
    BY DEF NoRequest, RequestRecords
  <2>2. request' = [request EXCEPT ![r] = what] /\ request \in [TeamRequests -> RequestRecords]
    BY <1>4 DEF BeginRole, Begin, MembersInv, RowsShaped
  <2>3. RequestShaped(r)'
    BY <2>2 DEF RequestShaped, NoRequest
  <2> HIDE DEF what
  <2> QED BY <1>4, <2>1, <2>2, <2>3, BeginKeeps DEF BeginRole
<1>5. ASSUME NEW a \in Users, NEW u \in Users, NEW t \in Teams, NEW role \in {"admin", "member"},
             BeginInvite(r, a, t, u, role)
      PROVE  MembersInv'
  <2> DEFINE what == [NoRequest EXCEPT !.op = "add_member", !.actor = a, !.team = t, !.user = u,
                                   !.role = role]
  <2>1. what \in RequestRecords
    BY DEF NoRequest, RequestRecords, Roles
  <2>2. request' = [request EXCEPT ![r] = what] /\ request \in [TeamRequests -> RequestRecords]
    BY <1>5 DEF BeginInvite, Begin, MembersInv, RowsShaped
  <2>3. RequestShaped(r)'
    BY <2>2 DEF RequestShaped, NoRequest
  <2> HIDE DEF what
  <2> QED BY <1>5, <2>1, <2>2, <2>3, BeginKeeps DEF BeginInvite
<1>6. ASSUME NEW u \in Users, NEW t \in Teams, BeginLeave(r, u, t) PROVE MembersInv'
  <2> DEFINE what == [NoRequest EXCEPT !.op = "leave_team", !.team = t, !.user = u]
  <2>1. what \in RequestRecords
    BY DEF NoRequest, RequestRecords
  <2>2. request' = [request EXCEPT ![r] = what] /\ request \in [TeamRequests -> RequestRecords]
    BY <1>6 DEF BeginLeave, Begin, MembersInv, RowsShaped
  <2>3. RequestShaped(r)'
    BY <2>2 DEF RequestShaped, NoRequest
  <2> HIDE DEF what
  <2> QED BY <1>6, <2>1, <2>2, <2>3, BeginKeeps DEF BeginLeave
<1> QED BY <1>1, <1>2, <1>3, <1>4, <1>5, <1>6 DEF AcceptNotified, AcceptLink

-----------------------------------------------------------------------------
\* A form is answered.
LEMMA SignUpKeeps ==
    ASSUME MembersInv, MembershipAssumption, NEW r \in TeamRequests, SignUp(r)
    PROVE  MembersInv'
<1> DEFINE u == request[r].user
<1>1. /\ u \in Users /\ End(r) /\ UNCHANGED <<project, invite, jobs>>
      /\ RowsShaped /\ MembershipTypeOK
  BY DEF SignUp, Checked, MembersInv, RequestShaped
<1>2. /\ request' \in [TeamRequests -> RequestRecords]
      /\ \A q \in TeamRequests : request'[q] = request[q] \/ RequestShaped(q)'
  BY <1>1, EndKeeps
<1>3. \A q \in TeamRequests : RequestShaped(q)'
  BY <1>1, <1>2, RequestsKept DEF InvitesStand
<1>4. CASE Present(u)
  <2>1. UNCHANGED <<user, team, members>>
    BY <1>4 DEF SignUp
  <2>2. RowsShaped'
    BY <1>1, <1>2, <2>1 DEF RowsShaped
  <2>3. MembershipTypeOK'
    BY <1>1, <2>1, <2>2, RefsKept DEF IsMember, Present
  <2> QED BY <1>1, <1>3, <2>1, <2>2, <2>3, JobsKept DEF MembersInv
<1>5. CASE ~Present(u)
  <2> PICK t \in Teams : WithUser(u, t) /\ members' = Join(members, t, u, "owner")
    BY <1>5 DEF SignUp
  <2>0. members \in [Teams -> [Users -> Seq(Roles)]] /\ "owner" \in Roles
    BY <1>1 DEF RowsShaped, Roles
  <2>6. WithUser(u, t)
    OBVIOUS
  <2> HIDE DEF u
  <2>1. /\ members' \in [Teams -> [Users -> Seq(Roles)]]
        /\ \A x \in Teams, v \in Users : (x # t \/ v # u) => members'[x][v] = members[x][v]
    BY <1>1, <2>0 DEF Join
  <2>2. /\ user' \in [Users -> UserRows] /\ user'[u].status = "active" /\ user'[u].home = t
        /\ team' \in [Teams -> {"none", "active", "gone"}] /\ team'[t] = "active"
        /\ \A v \in Users : v # u => user'[v] = user[v]
        /\ \A x \in Teams : x # t => team'[x] = team[x]
    BY <1>1, <2>6 DEF WithUser, RowsShaped, UserRows
  <2>3. RowsShaped'
    BY <1>1, <1>2, <2>1, <2>2 DEF RowsShaped
  <2>7. \A x \in Teams, v \in Users : IsMember(x, v)' =>
             IsMember(x, v) \/ (team'[x] = "active" /\ Present(v)')
    BY <2>1, <2>2 DEF IsMember, Present
  <2>8. t # Nobody
    BY DEF MembershipAssumption
  <2>4. MembershipTypeOK'
    BY <1>1, <1>5, <2>2, <2>3, <2>7, <2>8, RefsKept DEF Present
  <2>5. \A j \in DOMAIN jobs' : JobShaped(j)'
    BY <1>1, <1>5, <2>2, JobsKept DEF Present
  <2> QED BY <1>3, <2>3, <2>4, <2>5 DEF MembersInv
<1> QED BY <1>4, <1>5

LEMMA InviteKeeps ==
    ASSUME MembersInv, MembershipAssumption, NEW r \in TeamRequests, Invite(r)
    PROVE  MembersInv'
<1> DEFINE q == request[r]
<1>1. /\ q.actor \in Users /\ q.team \in Teams /\ q.user \in Users /\ q.role \in {"admin", "member"}
      /\ End(r) /\ UNCHANGED <<user, team, members, project, jobs>>
      /\ RowsShaped /\ MembershipTypeOK
  BY DEF Invite, Checked, MembersInv, RequestShaped
<1>2. /\ request' \in [TeamRequests -> RequestRecords]
      /\ \A s \in TeamRequests : request'[s] = request[s] \/ RequestShaped(s)'
  BY <1>1, EndKeeps
<1>3. CASE invite' = invite
  <2>1. RowsShaped'
    BY <1>1, <1>2, <1>3 DEF RowsShaped
  <2>2. MembershipTypeOK'
    BY <1>1, <1>3, <2>1, RefsKept DEF IsMember, Present
  <2>3. \A s \in TeamRequests : RequestShaped(s)'
    BY <1>2, <1>3, RequestsKept DEF InvitesStand
  <2> QED BY <1>1, <2>1, <2>2, <2>3, JobsKept DEF MembersInv
<1>4. CASE team[q.team] = "active" /\ Present(q.actor) /\ invite' # invite
  <2> DEFINE fresh == [team |-> q.team, to |-> q.user, role |-> q.role,
                     by |-> q.actor, status |-> "pending", expired |-> FALSE]
  <2> PICK i \in Invites : invite[i].status = "none" /\ invite' = [invite EXCEPT ![i] = fresh]
    BY <1>4 DEF Invite
  <2>1. /\ fresh \in InviteRows /\ fresh.team = q.team /\ fresh.to = q.user /\ fresh.by = q.actor
        /\ fresh.role = q.role /\ fresh.status = "pending"
    BY <1>1 DEF InviteRows
  <2> HIDE DEF fresh
  <2>2. /\ invite' \in [Invites -> InviteRows] /\ invite'[i] = fresh
        /\ \A k \in Invites : k # i => invite'[k] = invite[k]
    BY <1>1, <2>1 DEF RowsShaped
  <2>3. RowsShaped'
    BY <1>1, <1>2, <2>1, <2>2 DEF RowsShaped
  <2>4. MembershipTypeOK'
    BY <1>1, <1>4, <2>1, <2>2, <2>3, RefsKept DEF IsMember, Present
  <2>5. \A s \in TeamRequests : RequestShaped(s)'
    BY <1>2, <2>2, RequestsKept DEF InvitesStand
  <2> QED BY <1>1, <2>3, <2>4, <2>5, JobsKept DEF MembersInv
<1> QED BY <1>3, <1>4 DEF Invite

LEMMA AcceptKeeps ==
    ASSUME MembersInv, MembershipAssumption, NEW r \in TeamRequests, Accept(r)
    PROVE  MembersInv'
<1>7. PICK i \in Invites, u \in Users, t \in Teams, role \in Roles :
        /\ i = request[r].invite /\ u = request[r].user /\ t = invite[i].team
        /\ role = invite[i].role
  BY DEF Accept, Checked, MembersInv, RequestShaped, RowsShaped, Roles
<1>8. i \in Invites /\ u \in Users /\ t \in Teams /\ role \in Roles
  BY <1>7
<1>1. /\ invite[i].status # "none" /\ End(r) /\ UNCHANGED <<project, jobs>>
      /\ RowsShaped /\ MembershipTypeOK
  BY <1>7 DEF Accept, Checked, MembersInv, RequestShaped
<1>2. /\ request' \in [TeamRequests -> RequestRecords]
      /\ \A s \in TeamRequests : request'[s] = request[s] \/ RequestShaped(s)'
  BY <1>1, EndKeeps
<1>5. \/ invite[i].status = "gone" \/ team[t] # "active"
      \/ /\ invite' = [invite EXCEPT ![i].status = "accepted"]
         /\ IF Present(u)
            THEN members' = Join(members, t, u, role) /\ UNCHANGED <<user, team>>
            ELSE \E h \in Teams :
                   /\ WithUser(u, h)
                   /\ members' = Join(Join(members, h, u, "owner"), t, u, role)
  BY <1>7 DEF Accept
<1>6. members \in [Teams -> [Users -> Seq(Roles)]] /\ "owner" \in Roles
  BY <1>1 DEF RowsShaped, Roles
<1>3. CASE invite[i].status = "gone" \/ team[t] # "active"
  <2>1. UNCHANGED <<user, team, members, invite>>
    BY <1>3, <1>7 DEF Accept
  <2>2. RowsShaped'
    BY <1>1, <1>2, <2>1 DEF RowsShaped
  <2>3. MembershipTypeOK'
    BY <1>1, <2>1, <2>2, RefsKept DEF IsMember, Present
  <2>4. \A s \in TeamRequests : RequestShaped(s)'
    BY <1>2, <2>1, RequestsKept DEF InvitesStand
  <2> QED BY <1>1, <2>1, <2>2, <2>3, <2>4, JobsKept DEF MembersInv
<1>4. CASE invite[i].status # "gone" /\ team[t] = "active"
  <2> DEFINE fresh == [invite[i] EXCEPT !.status = "accepted"]
  <2>6. /\ fresh \in InviteRows /\ fresh.team = t /\ fresh.to = invite[i].to /\ fresh.by = invite[i].by
        /\ fresh.role = role /\ fresh.status = "accepted" /\ role \in Roles
        /\ invite[i].status \in {"pending", "accepted"}
    <3>1. invite[i] \in InviteRows
      BY <1>1, <1>8 DEF RowsShaped
    <3>2. /\ fresh \in InviteRows /\ fresh.team = invite[i].team /\ fresh.to = invite[i].to
          /\ fresh.by = invite[i].by /\ fresh.role = invite[i].role /\ fresh.status = "accepted"
      BY <3>1 DEF InviteRows
    <3>3. invite[i].status \in {"pending", "accepted"}
      BY <1>1, <1>4, <3>1 DEF InviteRows
    <3> HIDE DEF fresh
    <3> QED BY <1>7, <1>8, <3>2, <3>3
  <2>1. invite' = [invite EXCEPT ![i] = fresh]
    BY <1>4, <1>5
  <2>2. /\ invite' \in [Invites -> InviteRows] /\ invite[i].status \in {"pending", "accepted"}
        /\ \A k \in Invites : /\ invite'[k].team = invite[k].team /\ invite'[k].to = invite[k].to
                              /\ invite'[k].by = invite[k].by /\ invite'[k].role = invite[k].role
                              /\ invite[k].status # "none" <=> invite'[k].status # "none"
                              /\ k # i => invite'[k] = invite[k]
    <3> HIDE DEF fresh
    <3> QED BY <1>1, <1>4, <1>7, <1>8, <2>1, <2>6 DEF RowsShaped
  <2>3. \A s \in TeamRequests : RequestShaped(s)'
    BY <1>2, <2>2, RequestsKept DEF InvitesStand
  <2>4. CASE Present(u)
    <3>1. members' = Join(members, t, u, role) /\ UNCHANGED <<user, team>>
      BY <1>4, <1>5, <2>4
    <3> HIDE DEF fresh
    <3>2. /\ members' \in [Teams -> [Users -> Seq(Roles)]]
          /\ \A x \in Teams, v \in Users : (x # t \/ v # u) => members'[x][v] = members[x][v]
      BY <1>6, <1>8, <3>1 DEF Join
    <3>3. RowsShaped'
      BY <1>1, <1>2, <2>2, <3>1, <3>2 DEF RowsShaped
    <3>4. MembershipTypeOK'
      BY <1>1, <1>4, <2>2, <2>4, <3>1, <3>2, <3>3, RefsKept DEF IsMember, Present
    <3> QED BY <1>1, <2>3, <3>1, <3>3, <3>4, JobsKept DEF MembersInv
  <2>5. CASE ~Present(u)
    <3>9. PICK h \in Teams :
          /\ WithUser(u, h)
          /\ members' = Join(Join(members, h, u, "owner"), t, u, role)
      BY <1>4, <1>5, <2>5
    <3>10. h \in Teams
      BY <3>9
    <3> HIDE DEF fresh
    <3>11. PICK own : own = Join(members, h, u, "owner")
      OBVIOUS
    <3>1. /\ own \in [Teams -> [Users -> Seq(Roles)]]
          /\ \A x \in Teams, v \in Users : (x # h \/ v # u) => own[x][v] = members[x][v]
      BY <1>6, <1>8, <3>10, <3>11 DEF Join
    <3>8. members' = Join(own, t, u, role)
      BY <3>9, <3>11
    <3>2. /\ members' \in [Teams -> [Users -> Seq(Roles)]]
          /\ \A x \in Teams, v \in Users : (x # t \/ v # u) => members'[x][v] = own[x][v]
      BY <1>8, <3>1, <3>8 DEF Join
    <3>3. /\ user' \in [Users -> UserRows] /\ user'[u].status = "active" /\ user'[u].home = h
          /\ team' \in [Teams -> {"none", "active", "gone"}] /\ team'[h] = "active"
          /\ \A v \in Users : v # u => user'[v] = user[v]
          /\ \A x \in Teams : x # h => team'[x] = team[x]
      BY <1>1, <1>8, <3>9 DEF WithUser, RowsShaped, UserRows
    <3>4. RowsShaped'
      <4>1. \A k \in Invites : invite'[k].status # "none" =>
              /\ invite'[k].team \in Teams /\ invite'[k].to \in Users /\ invite'[k].by \in Users
              /\ invite'[k].role \in {"admin", "member"}
        BY <1>1, <2>2 DEF RowsShaped
      <4>2. \A k \in Invites : invite'[k].status = "none" => invite'[k] = NoInvite
        BY <1>1, <2>2 DEF RowsShaped
      <4> QED BY <1>1, <1>2, <2>2, <3>2, <3>3, <4>1, <4>2 DEF RowsShaped
    <3>5. \A x \in Teams, v \in Users : IsMember(x, v)' =>
               IsMember(x, v) \/ (team'[x] = "active" /\ Present(v)')
      <4> TAKE x \in Teams, v \in Users
      <4>1. CASE v = u
        <5>1. x = t \/ x = h => team'[x] = "active"
          BY <1>4, <1>8, <3>3, <3>10
        <5>2. x # t /\ x # h => members'[x][v] = members[x][v]
          BY <3>1, <3>2
        <5> QED BY <3>3, <4>1, <5>1, <5>2 DEF IsMember, Present
      <4>2. CASE v # u
        <5>1. members'[x][v] = members[x][v]
          BY <3>1, <3>2, <4>2
        <5> QED BY <5>1 DEF IsMember
      <4> QED BY <4>1, <4>2
    <3>6. MembershipTypeOK'
      BY <1>1, <1>4, <1>8, <2>2, <2>5, <3>3, <3>4, <3>5, <3>9, <3>10, RefsKept
         DEF Present, MembershipAssumption
    <3>7. \A j \in DOMAIN jobs' : JobShaped(j)'
      BY <1>1, <1>8, <2>5, <3>3, JobsKept DEF Present
    <3> QED BY <2>3, <3>4, <3>6, <3>7 DEF MembersInv
  <2> QED BY <2>4, <2>5
<1> QED BY <1>3, <1>4

LEMMA ChangeRoleKeeps ==
    ASSUME MembersInv, MembershipAssumption, NEW r \in TeamRequests, ChangeRole(r)
    PROVE  MembersInv'
<1>1. PICK t \in Teams, u \in Users, role \in Roles :
        t = request[r].team /\ u = request[r].user /\ role = request[r].role
  BY DEF ChangeRole, Checked, MembersInv, RequestShaped
<1>2. /\ End(r) /\ UNCHANGED <<user, team, project, invite, jobs>>
      /\ members' = IF IsMember(t, u) THEN [members EXCEPT ![t][u][1] = role] ELSE members
  BY <1>1 DEF ChangeRole
<1>3. RowsShaped /\ members \in [Teams -> [Users -> Seq(Roles)]] /\ t \in Teams /\ u \in Users
  BY <1>1 DEF MembersInv, RowsShaped
<1>4. IsMember(t, u) => [members[t][u] EXCEPT ![1] = role] \in Seq(Roles)
  <2> SUFFICES ASSUME members[t][u] # <<>>
               PROVE  [members[t][u] EXCEPT ![1] = role] \in Seq(Roles)
    BY DEF IsMember
  <2>1. members[t][u] \in Seq(Roles) /\ role \in Roles
    BY <1>1, <1>3
  <2> QED BY <2>1
<1>5. /\ members' \in [Teams -> [Users -> Seq(Roles)]]
      /\ \A x \in Teams, v \in Users : (x # t \/ v # u) => members'[x][v] = members[x][v]
      /\ ~IsMember(t, u) => members' = members
  BY <1>2, <1>3, <1>4
<1>6. /\ request' \in [TeamRequests -> RequestRecords]
      /\ \A s \in TeamRequests : request'[s] = request[s] \/ RequestShaped(s)'
  BY <1>2, EndKeeps
<1>7. RowsShaped'
  BY <1>2, <1>3, <1>5, <1>6 DEF RowsShaped
<1>8. \A x \in Teams, v \in Users : IsMember(x, v)' => IsMember(x, v)
  <2> TAKE x \in Teams, v \in Users
  <2>1. x # t \/ v # u => members'[x][v] = members[x][v]
    BY <1>5
  <2>2. ~IsMember(t, u) => members'[x][v] = members[x][v]
    BY <1>5
  <2> QED BY <2>1, <2>2 DEF IsMember
<1>9. MembershipTypeOK'
  BY <1>2, <1>7, <1>8, RefsKept DEF Present
<1>10. \A s \in TeamRequests : RequestShaped(s)'
  BY <1>2, <1>6, RequestsKept DEF InvitesStand
<1> QED BY <1>2, <1>7, <1>9, <1>10, JobsKept DEF MembersInv

LEMMA RemoveMemberKeeps ==
    ASSUME MembersInv, MembershipAssumption, NEW r \in TeamRequests, RemoveMember(r)
    PROVE  MembersInv'
<1>1. PICK t \in Teams, u \in Users : t = request[r].team /\ u = request[r].user
  BY DEF RemoveMember, Checked, MembersInv, RequestShaped
<1>2. /\ End(r) /\ UNCHANGED <<user, team, project, invite, jobs>>
      /\ members' = IF IsMember(t, u) THEN [members EXCEPT ![t][u] = Tail(@)] ELSE members
  BY <1>1 DEF RemoveMember
<1>3. RowsShaped /\ members \in [Teams -> [Users -> Seq(Roles)]] /\ t \in Teams /\ u \in Users
  BY <1>1 DEF MembersInv, RowsShaped
<1>4. IsMember(t, u) => Tail(members[t][u]) \in Seq(Roles)
  <2> SUFFICES ASSUME members[t][u] # <<>> PROVE Tail(members[t][u]) \in Seq(Roles)
    BY DEF IsMember
  <2>1. members[t][u] \in Seq(Roles)
    BY <1>3
  <2> QED BY <2>1
<1>5. /\ members' \in [Teams -> [Users -> Seq(Roles)]]
      /\ \A x \in Teams, v \in Users : (x # t \/ v # u) => members'[x][v] = members[x][v]
      /\ ~IsMember(t, u) => members' = members
  BY <1>2, <1>3, <1>4
<1>6. /\ request' \in [TeamRequests -> RequestRecords]
      /\ \A s \in TeamRequests : request'[s] = request[s] \/ RequestShaped(s)'
  BY <1>2, EndKeeps
<1>7. RowsShaped'
  BY <1>2, <1>3, <1>5, <1>6 DEF RowsShaped
<1>8. \A x \in Teams, v \in Users : IsMember(x, v)' => IsMember(x, v)
  <2> TAKE x \in Teams, v \in Users
  <2>1. x # t \/ v # u => members'[x][v] = members[x][v]
    BY <1>5
  <2>2. ~IsMember(t, u) => members'[x][v] = members[x][v]
    BY <1>5
  <2> QED BY <2>1, <2>2 DEF IsMember
<1>9. MembershipTypeOK'
  BY <1>2, <1>7, <1>8, RefsKept DEF Present
<1>10. \A s \in TeamRequests : RequestShaped(s)'
  BY <1>2, <1>6, RequestsKept DEF InvitesStand
<1> QED BY <1>2, <1>7, <1>9, <1>10, JobsKept DEF MembersInv

LEMMA LeaveTeamKeeps ==
    ASSUME MembersInv, MembershipAssumption, NEW r \in TeamRequests, LeaveTeam(r)
    PROVE  MembersInv'
<1>1. PICK t \in Teams, u \in Users : t = request[r].team /\ u = request[r].user
  BY DEF LeaveTeam, Checked, MembersInv, RequestShaped
<1>2. /\ End(r) /\ UNCHANGED <<user, team, project, invite, jobs>>
      /\ members' = [members EXCEPT ![t][u] = <<>>]
  BY <1>1 DEF LeaveTeam
<1>3. RowsShaped /\ members \in [Teams -> [Users -> Seq(Roles)]] /\ t \in Teams /\ u \in Users
  BY <1>1 DEF MembersInv, RowsShaped
<1>4. <<>> \in Seq(Roles)
  OBVIOUS
<1>5. /\ members' \in [Teams -> [Users -> Seq(Roles)]] /\ members'[t][u] = <<>>
      /\ \A x \in Teams, v \in Users : (x # t \/ v # u) => members'[x][v] = members[x][v]
  BY <1>2, <1>3, <1>4
<1>6. /\ request' \in [TeamRequests -> RequestRecords]
      /\ \A s \in TeamRequests : request'[s] = request[s] \/ RequestShaped(s)'
  BY <1>2, EndKeeps
<1>7. RowsShaped'
  BY <1>2, <1>3, <1>5, <1>6 DEF RowsShaped
<1>8. \A x \in Teams, v \in Users : IsMember(x, v)' => IsMember(x, v)
  BY <1>5 DEF IsMember
<1>9. MembershipTypeOK'
  BY <1>2, <1>7, <1>8, RefsKept DEF Present
<1>10. \A s \in TeamRequests : RequestShaped(s)'
  BY <1>2, <1>6, RequestsKept DEF InvitesStand
<1> QED BY <1>2, <1>7, <1>9, <1>10, JobsKept DEF MembersInv

\* What is done at once.
LEMMA NewTeamKeeps ==
    ASSUME MembersInv, MembershipAssumption, NEW u \in Users, NEW t \in Teams, NewTeam(u, t)
    PROVE  MembersInv'
<1>1. /\ Present(u) /\ UNCHANGED <<user, project, invite, request, jobs>>
      /\ team' = [team EXCEPT ![t] = "active"] /\ members' = Join(members, t, u, "owner")
      /\ RowsShaped /\ "owner" \in Roles
  BY DEF NewTeam, MembersInv, Roles
<1>2. /\ members' \in [Teams -> [Users -> Seq(Roles)]]
      /\ \A x \in Teams, v \in Users : (x # t \/ v # u) => members'[x][v] = members[x][v]
  BY <1>1 DEF RowsShaped, Join
<1>3. /\ team' \in [Teams -> {"none", "active", "gone"}] /\ team'[t] = "active"
      /\ \A x \in Teams : x # t => team'[x] = team[x]
  BY <1>1 DEF RowsShaped
<1>4. RowsShaped'
  BY <1>1, <1>2, <1>3 DEF RowsShaped
<1>5. \A x \in Teams, v \in Users : IsMember(x, v)' =>
         IsMember(x, v) \/ (team'[x] = "active" /\ Present(v)')
  BY <1>1, <1>2, <1>3 DEF IsMember, Present
<1>6. MembershipTypeOK'
  BY <1>1, <1>3, <1>4, <1>5, RefsKept DEF Present
<1> QED BY <1>1, <1>4, <1>6, RequestsKept, JobsKept DEF MembersInv, InvitesStand

LEMMA InstantKeeps ==
    ASSUME MembersInv, MembershipAssumption,
           \/ \E t \in Teams, p \in TeamProjects : NewProject(t, p)
           \/ \E i \in Invites : Expire(i) \/ \E a \in Users : Revoke(a, i)
    PROVE  MembersInv'
<1>1. ASSUME NEW t \in Teams, NEW p \in TeamProjects, NewProject(t, p)
      PROVE  MembersInv'
  <2>1. /\ UNCHANGED <<user, team, members, invite, request, jobs>> /\ team[t] = "active"
        /\ project' = [project EXCEPT ![p] = t] /\ RowsShaped
    BY <1>1 DEF NewProject, MembersInv
  <2>2. RowsShaped'
    BY <2>1 DEF RowsShaped
  <2>3. MembershipTypeOK'
    BY <2>1, <2>2, RefsKept DEF IsMember, Present, RowsShaped
  <2> QED BY <2>1, <2>2, <2>3, RequestsKept, JobsKept DEF MembersInv, InvitesStand
<1>2. ASSUME NEW i \in Invites, NEW fresh \in InviteRows,
             UNCHANGED <<user, team, members, project, request, jobs>>,
             invite' = [invite EXCEPT ![i] = fresh], invite[i].status # "none",
             fresh.team = invite[i].team, fresh.to = invite[i].to, fresh.by = invite[i].by,
             fresh.role = invite[i].role, fresh.status \in {invite[i].status, "gone"}
      PROVE  MembersInv'
  <2>1. /\ RowsShaped /\ invite' \in [Invites -> InviteRows] /\ invite'[i] = fresh
        /\ \A k \in Invites : k # i => invite'[k] = invite[k]
    BY <1>2 DEF MembersInv, RowsShaped
  <2>2. RowsShaped'
    BY <1>2, <2>1 DEF RowsShaped
  <2>3. MembershipTypeOK'
    BY <1>2, <2>1, <2>2, RefsKept DEF IsMember, Present
  <2>4. InvitesStand
    BY <1>2, <2>1 DEF InvitesStand
  <2> QED BY <1>2, <2>2, <2>3, <2>4, RequestsKept, JobsKept DEF MembersInv
<1>3. ASSUME NEW i \in Invites, Expire(i) PROVE MembersInv'
  <2>1. invite[i] \in InviteRows
    BY DEF MembersInv, RowsShaped
  <2> DEFINE fresh == [invite[i] EXCEPT !.expired = TRUE]
  <2>2. /\ fresh \in InviteRows /\ fresh.team = invite[i].team /\ fresh.to = invite[i].to
        /\ fresh.by = invite[i].by /\ fresh.role = invite[i].role /\ fresh.status = invite[i].status
    BY <2>1 DEF InviteRows
  <2>3. invite' = [invite EXCEPT ![i] = fresh]
    BY <1>3 DEF Expire
  <2> HIDE DEF fresh
  <2> QED BY <1>2, <1>3, <2>2, <2>3 DEF Expire
<1>4. ASSUME NEW i \in Invites, NEW a \in Users, Revoke(a, i) PROVE MembersInv'
  <2>1. invite[i] \in InviteRows
    BY DEF MembersInv, RowsShaped
  <2> DEFINE fresh == [invite[i] EXCEPT !.status = "gone"]
  <2>2. /\ fresh \in InviteRows /\ fresh.team = invite[i].team /\ fresh.to = invite[i].to
        /\ fresh.by = invite[i].by /\ fresh.role = invite[i].role /\ fresh.status = "gone"
    BY <2>1 DEF InviteRows
  <2>3. invite' = [invite EXCEPT ![i] = fresh]
    BY <1>4 DEF Revoke
  <2> HIDE DEF fresh
  <2> QED BY <1>2, <1>4, <2>2, <2>3 DEF Revoke
<1> QED BY <1>1, <1>3, <1>4

-----------------------------------------------------------------------------
\* A job that is enqueued is of the one who asked.
LEMMA EnqueueKeeps ==
    ASSUME MembersInv, NEW kind \in {"team", "user"}, NEW id, EnqueueJob(kind, id),
           kind = "team" => id \in Teams,
           kind = "user" => id \in Users /\ user[id].status = "active"
                            /\ user'[id].status = "deleted",
           \A u \in Users : user[u].status = "deleted" => user'[u].status = "deleted"
    PROVE  /\ jobs' \in Seq(JobRecords)
           /\ \A j \in DOMAIN jobs' : JobShaped(j)'
<1> DEFINE new == Job(kind, id)
           n == Len(jobs) + 1
<1>1. jobs \in Seq(JobRecords)
  BY DEF MembersInv, RowsShaped
<1>2. /\ new \in JobRecords /\ new.kind = kind /\ new.id = id /\ new.at = "queued"
  BY DEF Job, JobRecords
<1>3. jobs' = Append(jobs, new)
  BY DEF EnqueueJob
<1> HIDE DEF new
<1>4. /\ jobs' \in Seq(JobRecords) /\ DOMAIN jobs' = DOMAIN jobs \cup {n} /\ jobs'[n] = new
      /\ n \notin DOMAIN jobs /\ \A j \in DOMAIN jobs : jobs'[j] = jobs[j]
  BY <1>1, <1>2, <1>3
<1> HIDE DEF n
<1>5. \A j \in DOMAIN jobs : JobShaped(j)
  BY DEF MembersInv
<1>6. kind = "user" =>
        \A j \in DOMAIN jobs : ~(jobs[j].kind = "user" /\ Unfinished(j) /\ jobs[j].id = id)
  BY <1>5 DEF JobShaped
<1>7. ASSUME NEW j \in DOMAIN jobs' PROVE JobShaped(j)'
  <2>1. CASE j = n
    <3>1. jobs'[j] = new
      BY <1>4, <2>1
    <3>2. \A k \in DOMAIN jobs' :
            (/\ jobs'[k].kind = "user" /\ kind = "user" /\ jobs'[k].at \in {"queued", "teams", "projects"}
             /\ jobs'[k].id = id) => k = j
      BY <1>4, <1>6, <2>1 DEF Unfinished
    <3> QED BY <1>2, <3>1, <3>2 DEF JobShaped, Unfinished
  <2>2. CASE j \in DOMAIN jobs
    <3>1. jobs'[j] = jobs[j] /\ JobShaped(j)
      BY <1>4, <1>5, <2>2
    <3>2. \A k \in DOMAIN jobs' :
            (/\ jobs[j].kind = "user" /\ jobs'[k].kind = "user" /\ Unfinished(j)
             /\ jobs'[k].at \in {"queued", "teams", "projects"} /\ jobs[j].id = jobs'[k].id) => j = k
      BY <1>2, <1>4, <1>6, <2>2, <3>1 DEF JobShaped, Unfinished
    <3> QED BY <3>1, <3>2 DEF JobShaped, Unfinished
  <2> QED BY <1>4, <2>1, <2>2
<1> QED BY <1>4, <1>7

LEMMA DeleteTeamKeeps ==
    ASSUME MembersInv, MembershipAssumption, NEW a \in Users, NEW t \in Teams, DeleteTeam(a, t)
    PROVE  MembersInv'
<1>1. /\ UNCHANGED <<user, team, members, project, invite, request>> /\ EnqueueJob("team", t)
      /\ RowsShaped
  BY DEF DeleteTeam, MembersInv
<1>2. jobs' \in Seq(JobRecords) /\ \A j \in DOMAIN jobs' : JobShaped(j)'
  BY <1>1, EnqueueKeeps
<1>3. RowsShaped'
  BY <1>1, <1>2 DEF RowsShaped
<1>4. MembershipTypeOK'
  BY <1>1, <1>3, RefsKept DEF IsMember, Present
<1> QED BY <1>1, <1>2, <1>3, <1>4, RequestsKept DEF MembersInv, InvitesStand

LEMMA DeleteUserKeeps ==
    ASSUME MembersInv, MembershipAssumption, NEW u \in Users, DeleteUser(u)
    PROVE  MembersInv'
<1>1. /\ UNCHANGED <<team, members, project, invite, request>> /\ EnqueueJob("user", u)
      /\ user[u].status = "active" /\ user' = [user EXCEPT ![u].status = "deleted"]
      /\ RowsShaped
  BY DEF DeleteUser, MembersInv
<1>2. /\ user' \in [Users -> UserRows] /\ user'[u].status = "deleted"
      /\ \A v \in Users : user'[v].home = user[v].home /\ (v # u => user'[v] = user[v])
  BY <1>1 DEF RowsShaped, UserRows
<1>3. jobs' \in Seq(JobRecords) /\ \A j \in DOMAIN jobs' : JobShaped(j)'
  BY <1>1, <1>2, EnqueueKeeps
<1>4. RowsShaped'
  BY <1>1, <1>2, <1>3 DEF RowsShaped
<1>5. MembershipTypeOK'
  BY <1>1, <1>2, <1>4, RefsKept DEF IsMember, Present
<1> QED BY <1>1, <1>3, <1>4, <1>5, RequestsKept DEF MembersInv, InvitesStand

\* A job goes on, and is still of the one who asked.
LEMMA MoveKeeps ==
    ASSUME MembersInv, NEW j \in DOMAIN jobs, NEW to \in JobRecords, Move(j, to),
           to.kind = jobs[j].kind, to.id = jobs[j].id, Unfinished(j),
           to.kind = "team" => to.at # "teams", to.at = "projects" => to.team \in Teams,
           \A u \in Users : \/ user'[u].status = user[u].status
                            \/ u = to.id /\ to.kind = "user" /\ to.at = "done"
    PROVE  /\ jobs' \in Seq(JobRecords)
           /\ \A k \in DOMAIN jobs' : JobShaped(k)'
<1>1. jobs \in Seq(JobRecords) /\ jobs' = [jobs EXCEPT ![j] = to]
  BY DEF MembersInv, RowsShaped, Move
<1>2. /\ jobs' \in Seq(JobRecords) /\ DOMAIN jobs' = DOMAIN jobs /\ jobs'[j] = to
      /\ \A k \in DOMAIN jobs : k # j => jobs'[k] = jobs[k]
  BY <1>1
<1>3. \A k \in DOMAIN jobs : JobShaped(k)
  BY DEF MembersInv
<1>4. \A k \in DOMAIN jobs : /\ jobs'[k].kind = jobs[k].kind /\ jobs'[k].id = jobs[k].id
                             /\ Unfinished(k)' => Unfinished(k)
  BY <1>2 DEF Unfinished
<1>5. ASSUME NEW k \in DOMAIN jobs PROVE JobShaped(k)'
  <2>1. jobs'[k].kind = "user" => /\ jobs'[k].id \in Users
                                  /\ Unfinished(k)' => user'[jobs'[k].id].status = "deleted"
    <3>1. CASE k = j
      BY <1>2, <1>3, <1>4, <3>1 DEF JobShaped, Unfinished
    <3>2. CASE k # j
      <4>1. jobs'[k] = jobs[k] /\ JobShaped(k) /\ JobShaped(j)
        BY <1>2, <1>3, <3>2
      <4> QED BY <1>4, <3>2, <4>1 DEF JobShaped, Unfinished
    <3> QED BY <3>1, <3>2
  <2>2. /\ jobs'[k].kind = "team" => jobs'[k].id \in Teams /\ jobs'[k].at # "teams"
        /\ jobs'[k].at = "projects" => jobs'[k].team \in Teams
    BY <1>2, <1>3, <1>4 DEF JobShaped
  <2>3. \A l \in DOMAIN jobs :
          (/\ jobs'[k].kind = "user" /\ jobs'[l].kind = "user" /\ Unfinished(k)' /\ Unfinished(l)'
           /\ jobs'[k].id = jobs'[l].id) => k = l
    BY <1>3, <1>4 DEF JobShaped
  <2> QED BY <1>2, <2>1, <2>2, <2>3 DEF JobShaped
<1> QED BY <1>2, <1>5

LEMMA JobKnown ==
    ASSUME MembersInv, NEW j \in DOMAIN jobs
    PROVE  jobs[j] \in JobRecords /\ JobShaped(j)
  BY DEF MembersInv, RowsShaped

\* What only a job knows: no row changes.
LEMMA PlaceKeeps ==
    ASSUME MembersInv, MembershipAssumption, NEW j \in DOMAIN jobs, NEW to \in JobRecords,
           Move(j, to), to.kind = jobs[j].kind, to.id = jobs[j].id, Unfinished(j),
           to.kind = "team" => to.at # "teams", to.at = "projects" => to.team \in Teams,
           UNCHANGED <<user, team, members, invite, request>>,
           \A p \in TeamProjects : project'[p] = project[p] \/ project'[p] = "gone",
           project' \in [TeamProjects -> Teams \cup {Nobody, "gone"}]
    PROVE  MembersInv'
<1>1. jobs' \in Seq(JobRecords) /\ \A k \in DOMAIN jobs' : JobShaped(k)'
  BY MoveKeeps
<1>2. RowsShaped /\ RowsShaped'
  BY <1>1 DEF MembersInv, RowsShaped
<1>3. MembershipTypeOK'
  BY <1>2, RefsKept DEF IsMember, Present
<1> QED BY <1>1, <1>2, <1>3, RequestsKept DEF MembersInv, InvitesStand

\* Where a job can go.
LEMMA TakeKeeps ==
    ASSUME MembersInv, MembershipAssumption, NEW j \in DOMAIN jobs, TakeTeam(j) \/ TakeUser(j)
    PROVE  MembersInv'
<1>1. jobs[j] \in JobRecords /\ JobShaped(j)
  BY JobKnown
<1>2. /\ UNCHANGED <<user, team, members, project, invite, request>> /\ Unfinished(j)
      /\ project \in [TeamProjects -> Teams \cup {Nobody, "gone"}]
  BY DEF TakeTeam, TakeUser, Unfinished, MembersInv, RowsShaped
<1>3. CASE TakeTeam(j)
  <2>1. jobs[j].kind = "team" /\ jobs[j].id \in Teams
    BY <1>1, <1>3 DEF TakeTeam, JobShaped
  <2>2. PICK to \in {Enter(j, jobs[j].id), Place(j, "done")} : Move(j, to)
    BY <1>3 DEF TakeTeam
  <2>3. /\ to \in JobRecords /\ to.kind = jobs[j].kind /\ to.id = jobs[j].id /\ to.at # "teams"
        /\ to.at = "projects" => to.team \in Teams
    BY <1>1, <2>1, <2>2 DEF Enter, Place, JobRecords, ProjectsOf
  <2> QED BY <1>2, <2>1, <2>2, <2>3, PlaceKeeps
<1>4. CASE TakeUser(j)
  <2>1. jobs[j].kind = "user"
    BY <1>4 DEF TakeUser
  <2>2. SoleOwned(jobs[j].id) \in SUBSET Teams
    BY DEF SoleOwned
  <2>3. \/ Move(j, [jobs[j] EXCEPT !.at = "teams", !.teams = SoleOwned(jobs[j].id)])
        \/ Move(j, Place(j, "done"))
    <3>1. [Place(j, "teams") EXCEPT !.teams = SoleOwned(jobs[j].id)] =
            [jobs[j] EXCEPT !.at = "teams", !.teams = SoleOwned(jobs[j].id)]
      BY <1>1 DEF Place, JobRecords
    <3> QED BY <1>4, <3>1 DEF TakeUser
  <2>4. PICK to \in JobRecords : /\ Move(j, to) /\ to.kind = jobs[j].kind /\ to.id = jobs[j].id
                                 /\ to.at \in {"teams", "done"}
    <3>1. CASE Move(j, [jobs[j] EXCEPT !.at = "teams", !.teams = SoleOwned(jobs[j].id)])
      <4> DEFINE next == [jobs[j] EXCEPT !.at = "teams", !.teams = SoleOwned(jobs[j].id)]
      <4>1. /\ next \in JobRecords /\ next.kind = jobs[j].kind /\ next.id = jobs[j].id
            /\ next.at = "teams"
        BY <1>1, <2>2 DEF JobRecords
      <4> HIDE DEF next
      <4> QED BY <3>1, <4>1 DEF next
    <3>2. CASE Move(j, Place(j, "done"))
      BY <1>1, <3>2 DEF Place, JobRecords
    <3> QED BY <2>3, <3>1, <3>2
  <2> QED BY <1>2, <2>1, <2>4, PlaceKeeps
<1> QED BY <1>3, <1>4

LEMMA NextTeamKeeps ==
    ASSUME MembersInv, MembershipAssumption, NEW j \in DOMAIN jobs, NextTeam(j)
    PROVE  MembersInv'
<1>1. jobs[j] \in JobRecords /\ JobShaped(j)
  BY JobKnown
<1>2. /\ UNCHANGED <<user, team, members, project, invite, request>> /\ Unfinished(j)
      /\ project \in [TeamProjects -> Teams \cup {Nobody, "gone"}] /\ jobs[j].kind = "user"
      /\ jobs[j].teams \in SUBSET Teams /\ jobs[j].at = "teams"
  BY <1>1 DEF NextTeam, Unfinished, MembersInv, RowsShaped, JobShaped, JobRecords
<1>3. PICK t \in Teams : \/ Move(j, Enter(j, t))
                         \/ Move(j, [jobs[j] EXCEPT !.at = "teams", !.teams = jobs[j].teams \ {t}])
  <2>1. \A t : [jobs[j] EXCEPT !.teams = @ \ {t}]
                 = [jobs[j] EXCEPT !.at = "teams", !.teams = jobs[j].teams \ {t}]
    BY <1>1, <1>2 DEF JobRecords
  <2> QED BY <1>2, <2>1 DEF NextTeam
<1>4. PICK to \in JobRecords : /\ Move(j, to) /\ to.kind = jobs[j].kind /\ to.id = jobs[j].id
                               /\ to.at = "projects" => to.team \in Teams
  <2>1. CASE Move(j, Enter(j, t))
    <3>1. /\ Enter(j, t) \in JobRecords /\ Enter(j, t).kind = jobs[j].kind
          /\ Enter(j, t).id = jobs[j].id /\ Enter(j, t).team = t
      BY <1>1 DEF Enter, JobRecords, ProjectsOf
    <3> QED BY <2>1, <3>1
  <2>2. CASE Move(j, [jobs[j] EXCEPT !.at = "teams", !.teams = jobs[j].teams \ {t}])
    <3> DEFINE next == [jobs[j] EXCEPT !.at = "teams", !.teams = jobs[j].teams \ {t}]
    <3>1. /\ next \in JobRecords /\ next.kind = jobs[j].kind /\ next.id = jobs[j].id
          /\ next.at = "teams"
      BY <1>1, <1>2 DEF JobRecords
    <3> HIDE DEF next
    <3> QED BY <2>2, <3>1 DEF next
  <2> QED BY <1>3, <2>1, <2>2
<1> QED BY <1>2, <1>4, PlaceKeeps

LEMMA DeleteProjectKeeps ==
    ASSUME MembersInv, MembershipAssumption, NEW j \in DOMAIN jobs, DeleteProject(j)
    PROVE  MembersInv'
<1>1. jobs[j] \in JobRecords /\ JobShaped(j)
  BY JobKnown
<1>2. /\ UNCHANGED <<user, team, members, invite, request>> /\ Unfinished(j)
      /\ project \in [TeamProjects -> Teams \cup {Nobody, "gone"}]
      /\ jobs[j].left \in SUBSET TeamProjects /\ jobs[j].at = "projects" /\ jobs[j].team \in Teams
      /\ jobs[j].kind \in {"team", "user"}
  BY <1>1 DEF DeleteProject, Unfinished, MembersInv, RowsShaped, JobShaped, JobRecords
<1>3. PICK p \in TeamProjects : \/ /\ project' = [project EXCEPT ![p] = "gone"]
                                   /\ Move(j, [jobs[j] EXCEPT !.left = jobs[j].left \ {p}])
                                \/ project' = project /\ Move(j, Place(j, "failed"))
  BY <1>2 DEF DeleteProject
<1>4. PICK to \in JobRecords : /\ Move(j, to) /\ to.kind = jobs[j].kind /\ to.id = jobs[j].id
                               /\ to.at # "teams"
                               /\ to.at = "projects" => to.team \in Teams
  <2>1. CASE Move(j, [jobs[j] EXCEPT !.left = jobs[j].left \ {p}])
    BY <1>1, <1>2, <2>1 DEF JobRecords
  <2>2. CASE Move(j, Place(j, "failed"))
    BY <1>1, <1>2, <2>2 DEF Place, JobRecords
  <2> QED BY <1>3, <2>1, <2>2
<1>5. /\ project' \in [TeamProjects -> Teams \cup {Nobody, "gone"}]
      /\ \A q \in TeamProjects : project'[q] = project[q] \/ project'[q] = "gone"
  BY <1>2, <1>3
<1> QED BY <1>2, <1>4, <1>5, PlaceKeeps

\* Invitations that are deleted with what they refer to.
LEMMA WithoutFacts ==
    ASSUME MembersInv, NEW gone, invite' = [i \in Invites |->
             IF i \notin gone THEN invite[i] ELSE [invite[i] EXCEPT !.status = "gone"]],
           \A i \in Invites : i \in gone => invite[i].status # "none"
    PROVE  /\ invite' \in [Invites -> InviteRows]
           /\ \A i \in Invites : /\ invite'[i].team = invite[i].team /\ invite'[i].to = invite[i].to
                                 /\ invite'[i].by = invite[i].by /\ invite'[i].role = invite[i].role
                                 /\ i \notin gone => invite'[i] = invite[i]
                                 /\ i \in gone => invite'[i].status = "gone"
           /\ InvitesStand
<1>1. \A i \in Invites : invite[i] \in InviteRows
  BY DEF MembersInv, RowsShaped
<1>2. \A i \in Invites :
        LET fresh == [invite[i] EXCEPT !.status = "gone"] IN
        /\ fresh \in InviteRows /\ fresh.team = invite[i].team /\ fresh.to = invite[i].to
        /\ fresh.by = invite[i].by /\ fresh.role = invite[i].role /\ fresh.status = "gone"
  BY <1>1 DEF InviteRows
<1>3. \A i \in Invites : invite'[i] = IF i \notin gone THEN invite[i]
                                      ELSE [invite[i] EXCEPT !.status = "gone"]
  OBVIOUS
<1>4. \A i \in Invites : /\ invite'[i].team = invite[i].team /\ invite'[i].to = invite[i].to
                         /\ invite'[i].by = invite[i].by /\ invite'[i].role = invite[i].role
                         /\ i \notin gone => invite'[i] = invite[i]
                         /\ i \in gone => invite'[i].status = "gone"
                         /\ invite'[i] \in InviteRows
  BY <1>1, <1>2, <1>3
<1>5. invite' \in [Invites -> InviteRows]
  BY <1>4
<1> QED BY <1>4, <1>5 DEF InvitesStand

LEMMA FinishTeamKeeps ==
    ASSUME MembersInv, MembershipAssumption, NEW j \in DOMAIN jobs, FinishTeam(j)
    PROVE  MembersInv'
<1>1. jobs[j] \in JobRecords /\ JobShaped(j) /\ RowsShaped /\ MembershipTypeOK
  BY JobKnown DEF MembersInv
<1>2. PICK t \in Teams : t = jobs[j].team
  BY <1>1 DEF FinishTeam, JobShaped
<1>3. /\ UNCHANGED <<project, request>> /\ Unfinished(j) /\ t \in Teams
      /\ jobs[j].at = "projects" /\ jobs[j].kind \in {"team", "user"}
  BY <1>1, <1>2 DEF FinishTeam, Unfinished, JobRecords
<1>4. CASE ProjectsOf(t) # {}
  <2>1. Move(j, Place(j, "failed")) /\ UNCHANGED <<user, team, members, invite>>
    BY <1>2, <1>4 DEF FinishTeam
  <2>2. /\ Place(j, "failed") \in JobRecords /\ Place(j, "failed").kind = jobs[j].kind
        /\ Place(j, "failed").id = jobs[j].id /\ Place(j, "failed").at = "failed"
    BY <1>1 DEF Place, JobRecords
  <2> QED BY <1>1, <1>3, <2>1, <2>2, PlaceKeeps DEF RowsShaped
<1>5. CASE ProjectsOf(t) = {}
  <2> DEFINE gone == {i \in Invites : invite[i].team = t}
  <2>1. /\ team' = [team EXCEPT ![t] = "gone"]
        /\ members' = [members EXCEPT ![t] = [u \in Users |-> <<>>]]
        /\ user' = [u \in Users |-> IF user[u].home = t THEN [user[u] EXCEPT !.home = Nobody] ELSE user[u]]
    BY <1>2, <1>5 DEF FinishTeam
  <2>2. invite' = [i \in Invites |->
             IF i \notin gone THEN invite[i] ELSE [invite[i] EXCEPT !.status = "gone"]]
    BY <1>2, <1>5 DEF FinishTeam, Without
  <2>3. \A i \in Invites : i \in gone => invite[i].status # "none"
    BY <1>1, <1>3 DEF RowsShaped, NoInvite, MembershipAssumption
  <2>4. PICK to \in JobRecords : /\ Move(j, to) /\ to.kind = jobs[j].kind /\ to.id = jobs[j].id
                                 /\ to.kind = "team" => to.at # "teams"
                                 /\ to.at # "projects"
    <3>1. CASE jobs[j].kind = "team"
      <4>1. Move(j, Place(j, "done"))
        BY <1>2, <1>5, <3>1 DEF FinishTeam
      <4>2. /\ Place(j, "done") \in JobRecords /\ Place(j, "done").kind = jobs[j].kind
            /\ Place(j, "done").id = jobs[j].id /\ Place(j, "done").at = "done"
        BY <1>1 DEF Place, JobRecords
      <4> QED BY <4>1, <4>2
    <3>2. CASE jobs[j].kind = "user"
      <4> DEFINE next == [Place(j, "teams") EXCEPT !.teams = @ \ {t}]
      <4>1. Move(j, next)
        BY <1>2, <1>5, <3>2 DEF FinishTeam
      <4>2. /\ next \in JobRecords /\ next.kind = jobs[j].kind /\ next.id = jobs[j].id
            /\ next.at = "teams"
        BY <1>1 DEF Place, JobRecords
      <4> HIDE DEF next
      <4> QED BY <3>2, <4>1, <4>2
    <3> QED BY <1>3, <3>1, <3>2
  <2>5. /\ user' \in [Users -> UserRows]
        /\ \A u \in Users : /\ user'[u].status = user[u].status
                            /\ user'[u].home \in {user[u].home, Nobody} /\ user'[u].home # t
    <3>1. \A u \in Users : user[u] \in UserRows
      BY <1>1 DEF RowsShaped
    <3>2. \A u \in Users : LET fresh == [user[u] EXCEPT !.home = Nobody] IN
            fresh \in UserRows /\ fresh.status = user[u].status /\ fresh.home = Nobody
      BY <3>1 DEF UserRows
    <3>3. t # Nobody
      BY <1>3 DEF MembershipAssumption
    <3>4. \A u \in Users : user'[u] = IF user[u].home = t THEN [user[u] EXCEPT !.home = Nobody] ELSE user[u]
      BY <2>1
    <3>5. \A u \in Users : user'[u] \in UserRows
      BY <3>1, <3>2, <3>4
    <3> QED BY <2>1, <3>2, <3>3, <3>4, <3>5
  <2>6. /\ jobs' \in Seq(JobRecords) /\ \A k \in DOMAIN jobs' : JobShaped(k)'
    BY <1>3, <2>4, <2>5, MoveKeeps
  <2> HIDE DEF gone
  <2>7. /\ invite' \in [Invites -> InviteRows] /\ InvitesStand
        /\ \A i \in Invites : /\ invite'[i].team = invite[i].team /\ invite'[i].to = invite[i].to
                              /\ invite'[i].by = invite[i].by /\ invite'[i].role = invite[i].role
                              /\ i \notin gone => invite'[i] = invite[i]
                              /\ i \in gone => invite'[i].status = "gone"
    BY <2>2, <2>3, WithoutFacts
  <2>8. /\ team' \in [Teams -> {"none", "active", "gone"}]
        /\ \A x \in Teams : x # t => team'[x] = team[x]
        /\ members' \in [Teams -> [Users -> Seq(Roles)]]
        /\ \A x \in Teams, u \in Users :
             members'[x][u] = IF x = t THEN <<>> ELSE members[x][u]
    BY <1>1, <1>3, <2>1 DEF RowsShaped
  <2>9. RowsShaped'
    <3>1. \A k \in Invites : invite'[k].status # "none" =>
            /\ invite'[k].team \in Teams /\ invite'[k].to \in Users /\ invite'[k].by \in Users
            /\ invite'[k].role \in {"admin", "member"}
      BY <1>1, <2>3, <2>7 DEF RowsShaped
    <3>2. \A k \in Invites : invite'[k].status = "none" => invite'[k] = NoInvite
      BY <1>1, <2>7 DEF RowsShaped
    <3> QED BY <1>1, <1>3, <2>5, <2>6, <2>7, <2>8, <3>1, <3>2 DEF RowsShaped
  <2>10. MembershipTypeOK'
    <3>1. \A u \in Users : /\ user'[u].status \in {"none", "active", "deleted"}
                           /\ user'[u].home # Nobody => team'[user'[u].home] = "active"
      <4> TAKE u \in Users
      <4>1. user'[u].home # Nobody => user'[u].home = user[u].home /\ user[u].home \in Teams
        BY <1>1, <2>5 DEF RowsShaped, UserRows
      <4>2. user[u].home # Nobody => team[user[u].home] = "active"
        BY <1>1 DEF MembershipTypeOK
      <4>3. user[u].status \in {"none", "active", "deleted"}
        BY <1>1 DEF MembershipTypeOK
      <4> QED BY <2>5, <2>8, <4>1, <4>2, <4>3
    <3>2. \A x \in Teams, u \in Users : IsMember(x, u)' =>
             /\ team'[x] = "active" /\ Present(u)'
             /\ \A n \in DOMAIN members'[x][u] : members'[x][u][n] \in Roles
      <4> SUFFICES ASSUME NEW x \in Teams, NEW u \in Users, members'[x][u] # <<>>
                   PROVE  /\ team'[x] = "active" /\ user'[u].status # "none"
                          /\ \A n \in DOMAIN members'[x][u] : members'[x][u][n] \in Roles
        BY DEF IsMember, Present
      <4>1. x # t /\ members'[x][u] = members[x][u]
        BY <2>8
      <4>2. /\ team[x] = "active" /\ user[u].status # "none"
            /\ \A n \in DOMAIN members[x][u] : members[x][u][n] \in Roles
        BY <1>1, <4>1 DEF MembershipTypeOK, IsMember, Present
      <4> QED BY <2>5, <2>8, <4>1, <4>2
    <3>3. \A i \in Invites : invite'[i].status \in {"pending", "accepted"} =>
             team'[invite'[i].team] = "active" /\ user'[invite'[i].by].status # "none"
      <4> SUFFICES ASSUME NEW i \in Invites, invite'[i].status \in {"pending", "accepted"}
                   PROVE  team'[invite'[i].team] = "active" /\ user'[invite'[i].by].status # "none"
        OBVIOUS
      <4>1. invite'[i] = invite[i] /\ i \notin gone
        BY <2>7
      <4>2. invite[i].team \in Teams /\ invite[i].by \in Users
        BY <1>1, <4>1 DEF RowsShaped
      <4>3. invite[i].team # t
        BY <4>1 DEF gone
      <4>4. team[invite[i].team] = "active" /\ user[invite[i].by].status # "none"
        BY <1>1, <4>1 DEF MembershipTypeOK, Present
      <4> QED BY <2>5, <2>8, <4>1, <4>2, <4>3, <4>4
    <3>4. \A p \in TeamProjects : project'[p] \in Teams => team'[project'[p]] = "active"
      BY <1>1, <1>3, <1>5, <2>8 DEF MembershipTypeOK, ProjectsOf
    <3>5. \A r \in TeamRequests : request'[r].team \in Teams \cup {Nobody}
      BY <1>1, <1>3 DEF MembershipTypeOK
    <3> QED BY <3>1, <3>2, <3>3, <3>4, <3>5 DEF MembershipTypeOK, Present
  <2>11. \A r \in TeamRequests : RequestShaped(r)'
    BY <1>3, <2>7, RequestsKept
  <2> QED BY <2>6, <2>9, <2>10, <2>11 DEF MembersInv
<1> QED BY <1>4, <1>5

LEMMA FinishUserKeeps ==
    ASSUME MembersInv, MembershipAssumption, NEW j \in DOMAIN jobs, FinishUser(j)
    PROVE  MembersInv'
<1>1. jobs[j] \in JobRecords /\ JobShaped(j) /\ RowsShaped /\ MembershipTypeOK
  BY JobKnown DEF MembersInv
<1>2. PICK u \in Users : u = jobs[j].id
  BY <1>1 DEF FinishUser, JobShaped, JobRecords
<1>3. /\ UNCHANGED <<team, project, request>> /\ Unfinished(j) /\ u \in Users
      /\ jobs[j].at = "teams" /\ jobs[j].kind = "user" /\ Move(j, Place(j, "done"))
      /\ user' = [user EXCEPT ![u] = NoUser]
      /\ members' = [t \in Teams |-> [members[t] EXCEPT ![u] = <<>>]]
  BY <1>1, <1>2 DEF FinishUser, Unfinished, JobRecords, JobShaped
<1> DEFINE gone == {i \in Invites : invite[i].by = u \/ invite[i].to = u}
<1>4. invite' = [i \in Invites |->
             IF i \notin gone THEN invite[i] ELSE [invite[i] EXCEPT !.status = "gone"]]
  BY <1>2 DEF FinishUser, Without
<1>5. \A i \in Invites : i \in gone => invite[i].status # "none"
  BY <1>1, <1>3 DEF RowsShaped, NoInvite, MembershipAssumption
<1>6. /\ Place(j, "done") \in JobRecords /\ Place(j, "done").kind = jobs[j].kind
      /\ Place(j, "done").id = jobs[j].id /\ Place(j, "done").at = "done"
  BY <1>1 DEF Place, JobRecords
<1>7. /\ user' \in [Users -> UserRows] /\ user'[u] = NoUser
      /\ \A v \in Users : v # u => user'[v] = user[v]
  BY <1>1, <1>3 DEF RowsShaped, UserRows, NoUser
<1>8. /\ jobs' \in Seq(JobRecords) /\ \A k \in DOMAIN jobs' : JobShaped(k)'
  BY <1>2, <1>3, <1>6, <1>7, MoveKeeps
<1> HIDE DEF gone
<1>9. /\ invite' \in [Invites -> InviteRows] /\ InvitesStand
      /\ \A i \in Invites : /\ invite'[i].team = invite[i].team /\ invite'[i].to = invite[i].to
                            /\ invite'[i].by = invite[i].by /\ invite'[i].role = invite[i].role
                            /\ i \notin gone => invite'[i] = invite[i]
                            /\ i \in gone => invite'[i].status = "gone"
  BY <1>4, <1>5, WithoutFacts
<1>10. /\ members' \in [Teams -> [Users -> Seq(Roles)]]
       /\ \A t \in Teams, v \in Users :
            members'[t][v] = IF v = u THEN <<>> ELSE members[t][v]
  BY <1>1, <1>3 DEF RowsShaped
<1>11. RowsShaped'
  <2>1. \A k \in Invites : invite'[k].status # "none" =>
          /\ invite'[k].team \in Teams /\ invite'[k].to \in Users /\ invite'[k].by \in Users
          /\ invite'[k].role \in {"admin", "member"}
    BY <1>1, <1>5, <1>9 DEF RowsShaped
  <2>2. \A k \in Invites : invite'[k].status = "none" => invite'[k] = NoInvite
    BY <1>1, <1>9 DEF RowsShaped
  <2> QED BY <1>1, <1>3, <1>7, <1>8, <1>9, <1>10, <2>1, <2>2 DEF RowsShaped
<1>12. MembershipTypeOK'
  <2>1. \A v \in Users : /\ user'[v].status \in {"none", "active", "deleted"}
                         /\ user'[v].home # Nobody => team'[user'[v].home] = "active"
    BY <1>1, <1>3, <1>7 DEF MembershipTypeOK, NoUser
  <2>2. \A t \in Teams, v \in Users : IsMember(t, v)' =>
           /\ team'[t] = "active" /\ Present(v)'
           /\ \A n \in DOMAIN members'[t][v] : members'[t][v][n] \in Roles
    BY <1>1, <1>3, <1>7, <1>10 DEF MembershipTypeOK, IsMember, Present
  <2>3. \A i \in Invites : invite'[i].status \in {"pending", "accepted"} =>
           team'[invite'[i].team] = "active" /\ user'[invite'[i].by].status # "none"
    <3> SUFFICES ASSUME NEW i \in Invites, invite'[i].status \in {"pending", "accepted"}
                 PROVE  team'[invite'[i].team] = "active" /\ user'[invite'[i].by].status # "none"
      OBVIOUS
    <3>1. invite'[i] = invite[i] /\ i \notin gone
      BY <1>9
    <3>2. /\ invite[i].by \in Users /\ invite[i].by # u
          /\ team[invite[i].team] = "active" /\ user[invite[i].by].status # "none"
      BY <1>1, <3>1 DEF RowsShaped, MembershipTypeOK, Present, gone
    <3> QED BY <1>3, <1>7, <3>1, <3>2
  <2>4. \A p \in TeamProjects : project'[p] \in Teams => team'[project'[p]] = "active"
    BY <1>1, <1>3 DEF MembershipTypeOK
  <2>5. \A r \in TeamRequests : request'[r].team \in Teams \cup {Nobody}
    BY <1>1, <1>3 DEF MembershipTypeOK
  <2> QED BY <2>1, <2>2, <2>3, <2>4, <2>5 DEF MembershipTypeOK, Present
<1>13. \A r \in TeamRequests : RequestShaped(r)'
  BY <1>3, <1>9, RequestsKept
<1> QED BY <1>8, <1>11, <1>12, <1>13 DEF MembersInv

LEMMA MembersStep == ASSUME MembersInv, MembershipAssumption, MembersNext PROVE MembersInv'
<1>1. ASSUME NEW r \in TeamRequests, Answer(r) PROVE MembersInv'
  BY <1>1, SignUpKeeps, InviteKeeps, AcceptKeeps, ChangeRoleKeeps, RemoveMemberKeeps,
     LeaveTeamKeeps
  DEF Answer
<1>2. ASSUME NEW j \in DOMAIN jobs, Work(j) PROVE MembersInv'
  BY <1>2, TakeKeeps, NextTeamKeeps, DeleteProjectKeeps, FinishTeamKeeps, FinishUserKeeps DEF Work
<1>3. ASSUME NEW u \in Users, DeleteUser(u) \/ \E t \in Teams : NewTeam(u, t) \/ DeleteTeam(u, t)
      PROVE  MembersInv'
  BY <1>3, DeleteUserKeeps, NewTeamKeeps, DeleteTeamKeeps
<1> QED BY <1>1, <1>2, <1>3, BeginSteps, InstantKeeps DEF MembersNext

\* The stuttering step.
LEMMA MembersStutter == ASSUME MembersInv, UNCHANGED membersVars PROVE MembersInv'
  BY DEF membersVars, MembersInv, RowsShaped, MembershipTypeOK, RequestShaped, JobShaped, Unfinished,
         IsMember, Present

THEOREM MembersInvariant == MembershipAssumption => (MembersSpec => []MembersInv)
<1> SUFFICES ASSUME MembershipAssumption PROVE MembersSpec => []MembersInv
  OBVIOUS
<1>1. MembersInit => MembersInv
  BY MembersInitially
<1>2. MembersInv /\ [MembersNext]_membersVars => MembersInv'
  BY MembersStep, MembersStutter
<1> QED BY <1>1, <1>2, PTL DEF MembersSpec

\* Nobody joins by an invitation that was revoked.
THEOREM RevokedStayOut == MembershipAssumption => (MembersSpec => [][RevokedStaysOut]_membersVars)
<1> SUFFICES ASSUME MembershipAssumption PROVE MembersSpec => [][RevokedStaysOut]_membersVars
  OBVIOUS
<1>1. ASSUME MembersNext PROVE RevokedStaysOut
  <2>1. SUFFICES ASSUME NEW u \in Users, NEW i \in Invites, invite[i].status = "gone",
                        <<u, i>> \notin joined
                 PROVE  <<u, i>> \notin joined'
    BY DEF RevokedStaysOut
  <2>2. ASSUME NEW r \in TeamRequests, Accept(r) PROVE <<u, i>> \notin joined'
    <3>1. CASE joined' = joined
      BY <2>1, <3>1
    <3>2. CASE /\ invite[request[r].invite].status # "gone"
               /\ joined' = joined \cup {<<request[r].user, request[r].invite>>}
      BY <2>1, <3>2
    <3> QED BY <2>2, <3>1, <3>2 DEF Accept
  <2>3. ASSUME NEW r \in TeamRequests, Answer(r), ~Accept(r) PROVE joined' = joined
    BY <2>3 DEF Answer, SignUp, Invite, ChangeRole, RemoveMember, LeaveTeam
  <2>4. ASSUME NEW j \in DOMAIN jobs, Work(j) PROVE joined' = joined
    BY <2>4 DEF Work, TakeTeam, TakeUser, NextTeam, DeleteProject, FinishTeam, FinishUser
  <2>5. ASSUME NEW r \in TeamRequests, NEW v \in Users, BeginSignUp(r, v) PROVE joined' = joined
    BY <2>5 DEF BeginSignUp
  <2>6. ASSUME NEW r \in TeamRequests, NEW k \in Invites,
               AcceptNotified(r, k) \/ \E in \in BOOLEAN : AcceptLink(r, k, in)
        PROVE  joined' = joined
    BY <2>6 DEF AcceptNotified, AcceptLink, BeginAccept
  <2>7. ASSUME NEW r \in TeamRequests, NEW a \in Users, NEW v \in Users, NEW t \in Teams,
               \/ BeginRemove(r, a, t, v)
               \/ a = v /\ BeginLeave(r, v, t)
               \/ \E role \in Roles : BeginRole(r, a, t, v, role)
               \/ \E role \in {"admin", "member"} : BeginInvite(r, a, t, v, role)
        PROVE  joined' = joined
    BY <2>7 DEF BeginRemove, BeginLeave, BeginRole, BeginInvite
  <2>8. ASSUME NEW v \in Users, DeleteUser(v) \/ \E t \in Teams : NewTeam(v, t) \/ DeleteTeam(v, t)
        PROVE  joined' = joined
    BY <2>8 DEF DeleteUser, NewTeam, DeleteTeam
  <2>9. ASSUME NEW t \in Teams, NEW p \in TeamProjects, NewProject(t, p) PROVE joined' = joined
    BY <2>9 DEF NewProject
  <2>10. ASSUME NEW k \in Invites, Expire(k) \/ \E a \in Users : Revoke(a, k) PROVE joined' = joined
    BY <2>10 DEF Expire, Revoke
  <2> QED BY <1>1, <2>1, <2>2, <2>3, <2>4, <2>5, <2>6, <2>7, <2>8, <2>9, <2>10 DEF MembersNext
<1>2. UNCHANGED membersVars => RevokedStaysOut
  BY DEF membersVars, RevokedStaysOut
<1> QED BY <1>1, <1>2, PTL DEF MembersSpec

\* What people see of a team: nobody twice, invitations of others.
RowsFit == OneMembership /\ InvitesFit

LEMMA Alone == ASSUME AloneInv PROVE MembersInv /\ RowsShaped /\ MembershipTypeOK /\ OneAtWork /\ RowsFit
  BY DEF AloneInv, MembersInv, RowsFit

LEMMA AloneInitially == ASSUME MembershipAssumption, MembersInit PROVE AloneInv
<1>1. MembersInv
  BY MembersInitially
<1>2. OneAtWork /\ OneMembership /\ InvitesFit
  BY DEF MembersInit, OneAtWork, OneMembership, InvitesFit, OpenInvite, NoInvite
<1>3. \A r \in TeamRequests : ChecksHold(r)
  BY DEF MembersInit, ChecksHold, NoRequest
<1>4. \A j \in DOMAIN jobs : JobFits(j)
  BY DEF MembersInit
<1> QED BY <1>1, <1>2, <1>3, <1>4 DEF AloneInv

\* An idle request has checked nothing, and a settled job goes nowhere.
LEMMA IdleHolds == ASSUME NEW r \in TeamRequests, request'[r] = NoRequest PROVE ChecksHold(r)'
  BY DEF ChecksHold, NoRequest

LEMMA SettledFits == ASSUME NEW j \in DOMAIN jobs', AtRest(j)' PROVE JobFits(j)'
  BY DEF JobFits, AtRest

\* When the rows are as before, or fewer invitations are open, they fit.
LEMMA RowsRemain ==
    ASSUME AloneInv, UNCHANGED <<team, members>>,
           \A i \in Invites : OpenInvite(i)' =>
               OpenInvite(i) /\ invite'[i].team = invite[i].team /\ invite'[i].to = invite[i].to
    PROVE  RowsFit'
<1>1. RowsFit
  BY Alone
<1>2. OneMembership'
  BY <1>1 DEF RowsFit, OneMembership
<1>3. InvitesFit'
  BY <1>1 DEF RowsFit, InvitesFit, SameInvitee, IsMember
<1> QED BY <1>2, <1>3 DEF RowsFit

\* Somebody joins a team, or two, of which they are no member.
LEMMA JoiningFits ==
    ASSUME AloneInv, NEW u \in Users, NEW t \in Teams, NEW h \in Teams,
           members[t][u] = <<>>, Len(members'[t][u]) = 1, members'[t][u] # <<>>,
           members[h][u] = <<>>, Len(members'[h][u]) = 1, members'[h][u] # <<>>,
           \A x \in Teams, v \in Users : (x # t /\ x # h) \/ v # u => members'[x][v] = members[x][v],
           \A x \in Teams : team'[x] = team[x] \/ (x \in {t, h} /\ team[x] # "active"),
           \A i \in Invites : OpenInvite(i)' =>
               /\ OpenInvite(i) /\ invite'[i].team = invite[i].team /\ invite'[i].to = invite[i].to
               /\ ~(invite[i].team \in {t, h} /\ invite[i].to = u),
           RowsShaped'
    PROVE  RowsFit'
<1>1. RowsFit /\ RowsShaped
  BY Alone
<1>2. OneMembership'
  <2> SUFFICES ASSUME NEW x \in Teams, NEW v \in Users PROVE Len(members'[x][v]) <= 1
    BY DEF OneMembership
  <2>1. Len(members[x][v]) <= 1
    BY <1>1 DEF RowsFit, OneMembership
  <2>2. CASE x \in {t, h} /\ v = u
    <3>1. Len(members'[x][v]) = 1
      BY <2>2
    <3> QED BY <3>1
  <2>3. CASE ~(x \in {t, h} /\ v = u)
    <3>1. members'[x][v] = members[x][v]
      BY <2>3
    <3> QED BY <2>1, <3>1
  <2> QED BY <2>2, <2>3
<1>3. InvitesFit'
  <2> SUFFICES ASSUME NEW i \in Invites, OpenInvite(i)'
               PROVE  /\ ~IsMember(invite[i].team, invite[i].to)'
                      /\ \A k \in Invites : OpenInvite(k)' /\ SameInvitee(i, k)' => i = k
    BY DEF InvitesFit
  <2>1. /\ OpenInvite(i) /\ invite'[i].team = invite[i].team /\ invite'[i].to = invite[i].to
        /\ ~(invite[i].team \in {t, h} /\ invite[i].to = u)
    OBVIOUS
  <2>2. invite[i].team \in Teams /\ invite[i].to \in Users
    BY <1>1, <2>1 DEF RowsShaped, OpenInvite
  <2>3. ~IsMember(invite[i].team, invite[i].to)
    BY <1>1, <2>1 DEF RowsFit, InvitesFit
  <2>4. ~IsMember(invite[i].team, invite[i].to)'
    BY <2>1, <2>2, <2>3 DEF IsMember
  <2> QED BY <1>1, <2>1, <2>4 DEF RowsFit, InvitesFit, SameInvitee
<1> QED BY <1>2, <1>3 DEF RowsFit

\* The same for one team.
LEMMA JoiningOneFits ==
    ASSUME AloneInv, NEW u \in Users, NEW t \in Teams, members[t][u] = <<>>,
           Len(members'[t][u]) = 1, members'[t][u] # <<>>,
           \A x \in Teams, v \in Users : x # t \/ v # u => members'[x][v] = members[x][v],
           \A x \in Teams : team'[x] = team[x] \/ (x = t /\ team[x] # "active"),
           \A i \in Invites : OpenInvite(i)' =>
               /\ OpenInvite(i) /\ invite'[i].team = invite[i].team /\ invite'[i].to = invite[i].to
               /\ ~(invite[i].team = t /\ invite[i].to = u),
           RowsShaped'
    PROVE  RowsFit'
  BY JoiningFits

\* Members go.
LEMMA LeavingFits ==
    ASSUME AloneInv, RowsShaped',
           \A x \in Teams, v \in Users :
               Len(members'[x][v]) <= 1 /\ (members'[x][v] # <<>> => members[x][v] # <<>>),
           \A i \in Invites : OpenInvite(i)' =>
               OpenInvite(i) /\ invite'[i].team = invite[i].team /\ invite'[i].to = invite[i].to
    PROVE  RowsFit'
<1>1. RowsFit /\ RowsShaped
  BY Alone
<1>2. InvitesFit'
  <2> SUFFICES ASSUME NEW i \in Invites, OpenInvite(i)'
               PROVE  /\ ~IsMember(invite[i].team, invite[i].to)'
                      /\ \A k \in Invites : OpenInvite(k)' /\ SameInvitee(i, k)' => i = k
    BY DEF InvitesFit
  <2>1. OpenInvite(i) /\ invite'[i].team = invite[i].team /\ invite'[i].to = invite[i].to
    OBVIOUS
  <2>2. invite[i].team \in Teams /\ invite[i].to \in Users
    BY <1>1, <2>1 DEF RowsShaped, OpenInvite
  <2>3. ~IsMember(invite[i].team, invite[i].to)
    BY <1>1, <2>1 DEF RowsFit, InvitesFit
  <2>4. ~IsMember(invite[i].team, invite[i].to)'
    BY <2>1, <2>2, <2>3 DEF IsMember
  <2> QED BY <1>1, <2>1, <2>4 DEF RowsFit, InvitesFit, SameInvitee
<1> QED BY <1>2 DEF RowsFit, OneMembership

-----------------------------------------------------------------------------
\* A form is answered: nothing is at work then, so that rows that fit are all.
LEMMA AnswerEnds ==
    ASSUME AloneInv, NEW r \in TeamRequests, Answer(r), MembersInv', RowsFit'
    PROVE  AloneInv'
<1>1. request[r] # NoRequest /\ End(r) /\ jobs' = jobs
  BY DEF Answer, SignUp, Invite, Accept, ChangeRole, RemoveMember, LeaveTeam, Checked, NoRequest
<1>2. /\ \A q \in TeamRequests : request'[q] = NoRequest
      /\ \A j \in DOMAIN jobs : AtRest(j) /\ AtRest(j)'
  BY <1>1, Alone DEF OneAtWork, End, RowsShaped, AtRest
<1>3. OneAtWork'
  BY <1>1, <1>2 DEF OneAtWork
<1>4. \A q \in TeamRequests : ChecksHold(q)'
  BY <1>2, IdleHolds
<1>5. \A j \in DOMAIN jobs' : JobFits(j)'
  BY <1>1, <1>2, SettledFits
<1> QED BY <1>3, <1>4, <1>5 DEF AloneInv, RowsFit

\* A page that needs no second look.
LEMMA InstantEnds ==
    ASSUME AloneInv, ~Overlap, MayBegin, request' = request, MembersInv', RowsFit',
           \/ jobs' = jobs
           \/ \E kind \in {"team", "user"}, id \in Users \cup Teams : EnqueueJob(kind, id)
    PROVE  AloneInv'
<1>1. /\ \A q \in TeamRequests : request'[q] = NoRequest
      /\ \A j \in DOMAIN jobs : AtRest(j)
      /\ jobs \in Seq(JobRecords)
  BY Alone DEF MayBegin, RowsShaped
<1>2. \A j \in DOMAIN jobs' : AtRest(j)'
  <2>1. CASE jobs' = jobs
    BY <1>1, <2>1 DEF AtRest
  <2>2. CASE \E kind \in {"team", "user"}, id \in Users \cup Teams : EnqueueJob(kind, id)
    <3>1. PICK kind \in {"team", "user"}, id \in Users \cup Teams : jobs' = Append(jobs, Job(kind, id))
      BY <2>2 DEF EnqueueJob
    <3>2. Job(kind, id).at = "queued"
      BY DEF Job
    <3>3. \A j \in DOMAIN jobs' : (j \in DOMAIN jobs /\ jobs'[j] = jobs[j]) \/ jobs'[j] = Job(kind, id)
      BY <1>1, <3>1
    <3> QED BY <1>1, <3>2, <3>3 DEF AtRest
  <2> QED BY <2>1, <2>2
<1>3. OneAtWork'
  BY <1>1, <1>2 DEF OneAtWork
<1>4. \A q \in TeamRequests : ChecksHold(q)'
  BY <1>1, IdleHolds
<1>5. \A j \in DOMAIN jobs' : JobFits(j)'
  BY <1>2, SettledFits
<1> QED BY <1>3, <1>4, <1>5 DEF AloneInv, RowsFit

\* A job goes on, or begins: it is the only one, and no request is open.
LEMMA WorkEnds ==
    ASSUME AloneInv, ~Overlap, NEW j \in DOMAIN jobs, NEW to \in JobRecords, Move(j, to),
           MayBegin \/ ~AtRest(j), request' = request, MembersInv', RowsFit', JobFits(j)'
    PROVE  AloneInv'
<1>1. /\ \A q \in TeamRequests : request'[q] = NoRequest
      /\ \A k \in DOMAIN jobs : k # j => AtRest(k)
      /\ jobs \in Seq(JobRecords)
  BY Alone DEF MayBegin, RowsShaped, OneAtWork
<1>2. DOMAIN jobs' = DOMAIN jobs /\ \A k \in DOMAIN jobs : k # j => jobs'[k] = jobs[k]
  BY <1>1 DEF Move
<1>3. \A k \in DOMAIN jobs : k # j => AtRest(k)'
  BY <1>1, <1>2 DEF AtRest
<1>4. OneAtWork'
  BY <1>1, <1>2, <1>3 DEF OneAtWork
<1>5. \A q \in TeamRequests : ChecksHold(q)'
  BY <1>1, IdleHolds
<1>6. \A k \in DOMAIN jobs' : JobFits(k)'
  BY <1>2, <1>3, SettledFits
<1> QED BY <1>4, <1>5, <1>6 DEF AloneInv, RowsFit

\* A form that was checked.
LEMMA BeginEnds ==
    ASSUME AloneInv, ~Overlap, NEW r \in TeamRequests, NEW what, Begin(r, what), MembersInv',
           UNCHANGED <<user, team, members, invite, jobs>>, ChecksHold(r)'
    PROVE  AloneInv'
<1>1. /\ \A q \in TeamRequests : q # r => request'[q] = NoRequest
      /\ \A j \in DOMAIN jobs : AtRest(j) /\ AtRest(j)'
  BY Alone DEF Begin, MayBegin, RowsShaped, AtRest
<1>2. OneAtWork'
  BY <1>1 DEF OneAtWork
<1>3. \A q \in TeamRequests : ChecksHold(q)'
  BY <1>1, IdleHolds
<1>4. \A j \in DOMAIN jobs' : JobFits(j)'
  BY <1>1, SettledFits
<1>5. RowsFit'
  BY RowsRemain DEF OpenInvite
<1> QED BY <1>2, <1>3, <1>4, <1>5 DEF AloneInv, RowsFit

-----------------------------------------------------------------------------
LEMMA BeginningsAlone ==
    ASSUME AloneInv, ~Overlap, MembershipAssumption, NEW r \in TeamRequests, MembersInv',
           \/ \E u \in Users : BeginSignUp(r, u)
           \/ \E i \in Invites : BeginAccept(r, i) /\ ~IsMember(invite[i].team, invite[i].to)
           \/ \E a, u \in Users, t \in Teams :
                \/ BeginRemove(r, a, t, u)
                \/ a = u /\ BeginLeave(r, u, t)
                \/ \E role \in Roles : BeginRole(r, a, t, u, role)
                \/ \E role \in {"admin", "member"} : BeginInvite(r, a, t, u, role)
    PROVE  AloneInv'
<1>1. request \in [TeamRequests -> RequestRecords] /\ RowsFit
  BY Alone DEF RowsShaped
<1>2. ASSUME NEW u \in Users, BeginSignUp(r, u) PROVE AloneInv'
  <2> DEFINE what == [NoRequest EXCEPT !.op = "sign_up", !.user = u]
  <2>1. what.op = "sign_up"
    BY DEF NoRequest
  <2> HIDE DEF what
  <2>2. Begin(r, what) /\ UNCHANGED <<user, team, members, invite, jobs>>
    BY <1>2 DEF BeginSignUp, what
  <2>3. request'[r] = what
    BY <1>1, <2>2 DEF Begin
  <2>4. ChecksHold(r)'
    BY <2>1, <2>3 DEF ChecksHold
  <2> QED BY <2>2, <2>4, BeginEnds
<1>3. ASSUME NEW i \in Invites, BeginAccept(r, i), ~IsMember(invite[i].team, invite[i].to)
      PROVE  AloneInv'
  <2> DEFINE what == [NoRequest EXCEPT !.op = "accept", !.user = invite[i].to, !.invite = i]
  <2>1. what.op = "accept" /\ what.invite = i
    BY DEF NoRequest
  <2> HIDE DEF what
  <2>2. /\ Begin(r, what) /\ UNCHANGED <<user, team, members, invite, jobs>>
        /\ OpenInvite(i)
    BY <1>3 DEF BeginAccept, OpenInvite, what
  <2>3. request'[r] = what
    BY <1>1, <2>2 DEF Begin
  <2>4. \A k \in Invites : OpenInvite(k) /\ SameInvitee(i, k) => k = i
    BY <1>1, <2>2 DEF RowsFit, InvitesFit
  <2>5. ChecksHold(r)'
    BY <1>3, <2>1, <2>2, <2>3, <2>4 DEF ChecksHold, OpenInvite, SameInvitee, IsMember
  <2> QED BY <2>2, <2>5, BeginEnds
<1>4. ASSUME NEW a \in Users, NEW u \in Users, NEW t \in Teams, BeginRemove(r, a, t, u)
      PROVE  AloneInv'
  <2> DEFINE what == [NoRequest EXCEPT !.op = "delete_member", !.team = t, !.user = u]
  <2>1. what.op = "delete_member" /\ what.team = t /\ what.user = u
    BY DEF NoRequest
  <2> HIDE DEF what
  <2>2. Begin(r, what) /\ UNCHANGED <<user, team, members, invite, jobs>>
    BY <1>4 DEF BeginRemove, what
  <2>3. request'[r] = what
    BY <1>1, <2>2 DEF Begin
  <2>4. ChecksHold(r)'
    BY <2>1, <2>3 DEF ChecksHold
  <2> QED BY <2>2, <2>4, BeginEnds
<1>5. ASSUME NEW a \in Users, NEW u \in Users, NEW t \in Teams, NEW role \in Roles,
             BeginRole(r, a, t, u, role)
      PROVE  AloneInv'
  <2> DEFINE what == [NoRequest EXCEPT !.op = "member_role", !.team = t, !.user = u, !.role = role]
  <2>1. what.op = "member_role" /\ what.team = t /\ what.user = u /\ what.role = role
    BY DEF NoRequest
  <2> HIDE DEF what
  <2>2. /\ Begin(r, what) /\ UNCHANGED <<user, team, members, invite, jobs>>
        /\ RoleOf(t, u) = "owner" /\ role # "owner" => Owners(t) \ {u} # {}
    BY <1>5 DEF BeginRole, what
  <2>3. request'[r] = what
    BY <1>1, <2>2 DEF Begin
  <2>4. ChecksHold(r)'
    BY <2>1, <2>2, <2>3 DEF ChecksHold, Owners, RoleOf, IsMember
  <2> QED BY <2>2, <2>4, BeginEnds
<1>6. ASSUME NEW a \in Users, NEW u \in Users, NEW t \in Teams, NEW role \in {"admin", "member"},
             BeginInvite(r, a, t, u, role)
      PROVE  AloneInv'
  <2> DEFINE what == [NoRequest EXCEPT !.op = "add_member", !.actor = a, !.team = t, !.user = u,
                                   !.role = role]
  <2>1. what.op = "add_member" /\ what.team = t /\ what.user = u
    BY DEF NoRequest
  <2> HIDE DEF what
  <2>2. /\ Begin(r, what) /\ UNCHANGED <<user, team, members, invite, jobs>>
        /\ ~IsMember(t, u) /\ ~Invited(t, u)
    BY <1>6 DEF BeginInvite, what
  <2>3. request'[r] = what
    BY <1>1, <2>2 DEF Begin
  <2>4. ChecksHold(r)'
    BY <2>1, <2>2, <2>3 DEF ChecksHold, IsMember, Invited
  <2> QED BY <2>2, <2>4, BeginEnds
<1>7. ASSUME NEW u \in Users, NEW t \in Teams, BeginLeave(r, u, t) PROVE AloneInv'
  <2> DEFINE what == [NoRequest EXCEPT !.op = "leave_team", !.team = t, !.user = u]
  <2>1. what.op = "leave_team" /\ what.team = t /\ what.user = u
    BY DEF NoRequest
  <2> HIDE DEF what
  <2>2. /\ Begin(r, what) /\ UNCHANGED <<user, team, members, invite, jobs>>
        /\ Owners(t) \ {u} # {}
    BY <1>7 DEF BeginLeave, what
  <2>3. request'[r] = what
    BY <1>1, <2>2 DEF Begin
  <2>4. ChecksHold(r)'
    BY <2>1, <2>2, <2>3 DEF ChecksHold, Owners
  <2> QED BY <2>2, <2>4, BeginEnds
<1> QED BY <1>2, <1>3, <1>4, <1>5, <1>6, <1>7

-----------------------------------------------------------------------------
\* A membership is added where there was none.
LEMMA JoinAlone ==
    ASSUME RowsShaped, NEW t \in Teams, NEW u \in Users, NEW role \in Roles,
           members[t][u] = <<>>, members' = Join(members, t, u, role)
    PROVE  /\ Len(members'[t][u]) = 1 /\ members'[t][u] # <<>> /\ members'[t][u][1] = role
           /\ \A x \in Teams, v \in Users : x # t \/ v # u => members'[x][v] = members[x][v]
<1>1. members \in [Teams -> [Users -> Seq(Roles)]]
  BY DEF RowsShaped
<1>2. members'[t][u] = Append(members[t][u], role)
  BY <1>1 DEF Join
<1>3. Append(<<>>, role) = <<role>> /\ Len(<<role>>) = 1 /\ <<role>> # <<>> /\ <<role>>[1] = role
  OBVIOUS
<1>4. \A x \in Teams, v \in Users : x # t \/ v # u => members'[x][v] = members[x][v]
  BY <1>1 DEF Join
<1> QED BY <1>2, <1>3, <1>4

\* No row refers to a team there is not yet.
LEMMA NewTeamEmpty ==
    ASSUME MembersInv, NEW t \in Teams, team[t] = "none"
    PROVE  /\ \A u \in Users : members[t][u] = <<>>
           /\ \A i \in Invites : OpenInvite(i) => invite[i].team # t
  BY DEF MembersInv, MembershipTypeOK, IsMember, OpenInvite

LEMMA SignUpAlone ==
    ASSUME AloneInv, NEW r \in TeamRequests, SignUp(r), MembersInv'
    PROVE  RowsFit'
<1> DEFINE u == request[r].user
<1>1. u \in Users /\ UNCHANGED <<invite>> /\ RowsShaped /\ MembersInv /\ RowsShaped'
  BY Alone DEF SignUp, Checked, MembersInv, RequestShaped
<1>2. CASE Present(u)
  BY <1>1, <1>2, RowsRemain DEF SignUp, OpenInvite
<1>3. CASE ~Present(u)
  <2>1. PICK t \in Teams : WithUser(u, t) /\ members' = Join(members, t, u, "owner")
    BY <1>3 DEF SignUp
  <2> HIDE DEF u
  <2>2. t \in Teams /\ "owner" \in Roles /\ team[t] = "none"
    BY <2>1 DEF Roles, WithUser
  <2>3. \A x \in Teams : x # t => team'[x] = team[x]
    BY <1>1, <2>1 DEF WithUser, RowsShaped
  <2>4. \A i \in Invites : OpenInvite(i)' => OpenInvite(i) /\ invite'[i] = invite[i] /\ invite[i].team # t
    BY <1>1, <2>2, NewTeamEmpty DEF OpenInvite
  <2>5. members[t][u] = <<>>
    BY <1>1, <2>2, NewTeamEmpty
  <2>6. /\ Len(members'[t][u]) = 1 /\ members'[t][u] # <<>> /\ members'[t][u][1] = "owner"
        /\ \A x \in Teams, v \in Users : x # t \/ v # u => members'[x][v] = members[x][v]
    BY <1>1, <2>1, <2>2, <2>5, JoinAlone
  <2>7. \A i \in Invites : OpenInvite(i)' =>
          /\ OpenInvite(i) /\ invite'[i].team = invite[i].team /\ invite'[i].to = invite[i].to
          /\ ~(invite[i].team = t /\ invite[i].to = u)
    BY <2>4
  <2>8. \A x \in Teams : team'[x] = team[x] \/ (x = t /\ team[x] # "active")
    BY <2>2, <2>3
  <2> QED BY <1>1, <2>2, <2>5, <2>6, <2>7, <2>8, JoiningOneFits
<1> QED BY <1>2, <1>3

LEMMA NewTeamAlone ==
    ASSUME AloneInv, ~Overlap, NEW u \in Users, NEW t \in Teams, NewTeam(u, t), MembersInv'
    PROVE  AloneInv'
<1>1. RowsShaped /\ MembersInv /\ RowsShaped' /\ "owner" \in Roles
  BY Alone DEF MembersInv, Roles
<1>2. /\ team[t] = "none" /\ members' = Join(members, t, u, "owner") /\ MayBegin
      /\ UNCHANGED <<invite, request, jobs>> /\ \A x \in Teams : x # t => team'[x] = team[x]
  BY <1>1 DEF NewTeam, RowsShaped
<1>3. \A i \in Invites : OpenInvite(i)' => OpenInvite(i) /\ invite'[i] = invite[i] /\ invite[i].team # t
  BY <1>1, <1>2, NewTeamEmpty DEF OpenInvite
<1>4. members[t][u] = <<>>
  BY <1>1, <1>2, NewTeamEmpty
<1>5. /\ Len(members'[t][u]) = 1 /\ members'[t][u] # <<>> /\ members'[t][u][1] = "owner"
      /\ \A x \in Teams, v \in Users : x # t \/ v # u => members'[x][v] = members[x][v]
  BY <1>1, <1>2, <1>4, JoinAlone
<1>6. /\ \A i \in Invites : OpenInvite(i)' =>
           /\ OpenInvite(i) /\ invite'[i].team = invite[i].team /\ invite'[i].to = invite[i].to
           /\ ~(invite[i].team = t /\ invite[i].to = u)
      /\ \A x \in Teams : team'[x] = team[x] \/ (x = t /\ team[x] # "active")
  BY <1>2, <1>3
<1>7. RowsFit'
  BY <1>1, <1>2, <1>4, <1>5, <1>6, JoiningOneFits
<1> QED BY <1>2, <1>7, InstantEnds

LEMMA InviteAlone ==
    ASSUME AloneInv, NEW r \in TeamRequests, Invite(r), MembersInv'
    PROVE  RowsFit'
<1> DEFINE q == request[r]
<1>1. /\ UNCHANGED <<team, members>> /\ RowsShaped /\ RowsFit
      /\ ~IsMember(q.team, q.user) /\ ~Invited(q.team, q.user)
  BY Alone DEF Invite, Checked, AloneInv, ChecksHold
<1>2. CASE invite' = invite
  BY <1>1, <1>2, RowsRemain DEF OpenInvite
<1>3. CASE invite' # invite
  <2>1. PICK i \in Invites :
          /\ invite[i].status = "none"
          /\ invite' = [invite EXCEPT ![i] = [team |-> q.team, to |-> q.user, role |-> q.role,
                          by |-> q.actor, status |-> "pending", expired |-> FALSE]]
    BY <1>3 DEF Invite
  <2>2. /\ invite'[i].team = q.team /\ invite'[i].to = q.user
        /\ \A k \in Invites : k # i => invite'[k] = invite[k]
    BY <1>1, <2>1 DEF RowsShaped
  <2>3. i \in Invites
    BY <2>1
  <2> HIDE DEF q
  <2>4. \A k \in Invites : k # i /\ OpenInvite(k)' =>
          OpenInvite(k) /\ ~(invite[k].team = q.team /\ invite[k].to = q.user)
    BY <1>1, <2>2 DEF OpenInvite, Invited
  <2>5. InvitesFit'
    <3> SUFFICES ASSUME NEW k \in Invites, OpenInvite(k)'
                 PROVE  /\ ~IsMember(invite[k].team, invite[k].to)'
                        /\ \A l \in Invites : OpenInvite(l)' /\ SameInvitee(k, l)' => k = l
      BY DEF InvitesFit
    <3>1. CASE k = i
      BY <1>1, <2>2, <2>4, <3>1 DEF IsMember, SameInvitee
    <3>2. CASE k # i
      BY <1>1, <2>2, <2>4, <3>2 DEF RowsFit, InvitesFit, IsMember, SameInvitee
    <3> QED BY <3>1, <3>2
  <2>6. OneMembership'
    BY <1>1 DEF RowsFit, OneMembership
  <2> QED BY <2>5, <2>6 DEF RowsFit
<1> QED BY <1>2, <1>3

LEMMA AcceptAlone ==
    ASSUME AloneInv, MembershipAssumption, NEW r \in TeamRequests, Accept(r), MembersInv'
    PROVE  RowsFit'
<1>1. PICK i \in Invites, u \in Users, t \in Teams, role \in Roles :
        /\ i = request[r].invite /\ u = request[r].user /\ u = invite[i].to
        /\ t = invite[i].team /\ role = invite[i].role /\ invite[i].status # "none"
  <2>1. /\ request[r].invite \in Invites /\ invite[request[r].invite].status # "none"
        /\ request[r].user = invite[request[r].invite].to /\ RowsShaped
    BY Alone DEF Accept, Checked, MembersInv, RequestShaped
  <2>2. /\ invite[request[r].invite].to \in Users /\ invite[request[r].invite].team \in Teams
        /\ invite[request[r].invite].role \in Roles
    BY <2>1 DEF RowsShaped, Roles
  <2> QED BY <2>1, <2>2
<1>2. /\ i \in Invites /\ u \in Users /\ t \in Teams /\ role \in Roles
      /\ RowsShaped /\ MembersInv /\ RowsShaped' /\ RowsFit
  BY <1>1, Alone DEF MembersInv
<1>3. CASE invite[i].status = "gone" \/ team[t] # "active"
  BY <1>1, <1>3, RowsRemain DEF Accept, OpenInvite
<1>4. CASE ~(invite[i].status = "gone" \/ team[t] # "active")
  <2>1. /\ invite' = [invite EXCEPT ![i].status = "accepted"] /\ team[t] = "active"
        /\ IF Present(u)
           THEN members' = Join(members, t, u, role) /\ UNCHANGED <<user, team>>
           ELSE \E h \in Teams :
                  /\ WithUser(u, h)
                  /\ members' = Join(Join(members, h, u, "owner"), t, u, role)
    BY <1>1, <1>4 DEF Accept
  <2>2. /\ members[t][u] = <<>>
        /\ \A k \in Invites : OpenInvite(k) /\ SameInvitee(i, k) => k = i
    BY <1>1, Alone DEF AloneInv, ChecksHold, Accept, Checked, IsMember
  <2>3. invite'[i].status = "accepted" /\ \A k \in Invites : k # i => invite'[k] = invite[k]
    <3>1. invite \in [Invites -> InviteRows] /\ invite[i] \in InviteRows
      BY <1>2 DEF RowsShaped
    <3>2. [invite[i] EXCEPT !.status = "accepted"].status = "accepted"
      BY <3>1 DEF InviteRows
    <3> QED BY <1>2, <2>1, <3>1, <3>2
  <2>4. \A k \in Invites : OpenInvite(k)' =>
          /\ OpenInvite(k) /\ invite'[k].team = invite[k].team /\ invite'[k].to = invite[k].to
          /\ ~(invite[k].team = t /\ invite[k].to = u)
    BY <1>1, <2>2, <2>3 DEF OpenInvite, SameInvitee
  <2>5. CASE Present(u)
    <3>1. members' = Join(members, t, u, role) /\ UNCHANGED <<user, team>>
      BY <2>1, <2>5
    <3>2. /\ Len(members'[t][u]) = 1 /\ members'[t][u] # <<>>
          /\ \A x \in Teams, v \in Users : x # t \/ v # u => members'[x][v] = members[x][v]
      BY <1>2, <2>2, <3>1, JoinAlone
    <3> QED BY <1>2, <2>1, <2>2, <2>4, <3>1, <3>2, JoiningOneFits
  <2>6. CASE ~Present(u)
    <3>1. PICK h \in Teams : /\ WithUser(u, h)
                             /\ members' = Join(Join(members, h, u, "owner"), t, u, role)
      BY <2>1, <2>6
    <3>2. /\ h \in Teams /\ "owner" \in Roles /\ team[h] = "none" /\ h # t
          /\ \A x \in Teams : x # h => team'[x] = team[x]
      BY <1>2, <2>1, <3>1 DEF Roles, WithUser, RowsShaped
    <3>3. /\ members[h][u] = <<>>
          /\ \A k \in Invites : OpenInvite(k) => invite[k].team # h
      BY <1>2, <3>2, NewTeamEmpty
    <3>4. /\ members'[h][u] = Append(members[h][u], "owner")
          /\ members'[t][u] = Append(members[t][u], role)
          /\ \A x \in Teams, v \in Users : (x # t /\ x # h) \/ v # u => members'[x][v] = members[x][v]
      <4>1. members \in [Teams -> [Users -> Seq(Roles)]]
        BY <1>2 DEF RowsShaped
      <4>2. PICK own : own = Join(members, h, u, "owner")
        OBVIOUS
      <4>3. /\ own \in [Teams -> [Users -> Seq(Roles)]]
            /\ own[h][u] = Append(members[h][u], "owner") /\ own[t][u] = members[t][u]
            /\ \A x \in Teams, v \in Users : x # h \/ v # u => own[x][v] = members[x][v]
        BY <1>2, <3>2, <4>1, <4>2 DEF Join
      <4>4. members' = Join(own, t, u, role)
        BY <3>1, <4>2
      <4>5. /\ members'[t][u] = Append(own[t][u], role) /\ members'[h][u] = own[h][u]
            /\ \A x \in Teams, v \in Users : x # t \/ v # u => members'[x][v] = own[x][v]
        BY <1>2, <3>2, <4>3, <4>4 DEF Join
      <4> QED BY <1>2, <3>2, <4>3, <4>5
    <3>5. /\ Len(members'[t][u]) = 1 /\ members'[t][u] # <<>>
          /\ Len(members'[h][u]) = 1 /\ members'[h][u] # <<>> /\ members'[h][u][1] = "owner"
      <4>1. \A x \in Roles : /\ Append(<<>>, x) = <<x>> /\ Len(<<x>>) = 1
                             /\ <<x>> # <<>> /\ <<x>>[1] = x
        OBVIOUS
      <4> QED BY <1>2, <2>2, <3>2, <3>3, <3>4, <4>1
    <3>6. \A x \in Teams : team'[x] = team[x] \/ (x \in {t, h} /\ team[x] # "active")
      BY <3>2
    <3>7. \A k \in Invites : OpenInvite(k)' =>
             /\ OpenInvite(k) /\ invite'[k].team = invite[k].team /\ invite'[k].to = invite[k].to
             /\ ~(invite[k].team \in {t, h} /\ invite[k].to = u)
      BY <2>4, <3>3
    <3>8. /\ u \in Users /\ t \in Teams /\ h \in Teams /\ RowsShaped'
          /\ members[t][u] = <<>> /\ Len(members'[t][u]) = 1 /\ members'[t][u] # <<>>
          /\ members[h][u] = <<>> /\ Len(members'[h][u]) = 1 /\ members'[h][u] # <<>>
          /\ team[t] # "active" => members'[t][u][1] = "owner"
      BY <1>2, <2>1, <2>2, <3>2, <3>3, <3>5
    <3>9. team[h] # "active" => members'[h][u][1] = "owner"
      BY <3>5
    <3>10. \A x \in Teams, v \in Users : (x # t /\ x # h) \/ v # u => members'[x][v] = members[x][v]
      BY <3>4
    <3> QED BY <3>6, <3>7, <3>8, <3>9, <3>10, JoiningFits
  <2> QED BY <2>5, <2>6
<1> QED BY <1>3, <1>4

-----------------------------------------------------------------------------
\* What the one row of somebody says, without overlap.
LEMMA OneRow ==
    ASSUME RowsShaped, OneMembership, NEW t \in Teams, NEW u \in Users, IsMember(t, u)
    PROVE  /\ members[t][u] \in Seq(Roles) /\ Len(members[t][u]) = 1 /\ DOMAIN members[t][u] = {1}
           /\ RoleOf(t, u) = members[t][u][1] /\ Tail(members[t][u]) = <<>>
           /\ u \in Owners(t) <=> members[t][u][1] = "owner"
<1>1. members[t][u] \in Seq(Roles) /\ Len(members[t][u]) <= 1 /\ members[t][u] # <<>>
  BY DEF RowsShaped, OneMembership, IsMember
<1>2. Len(members[t][u]) = 1
  <2>1. Len(members[t][u]) \in Nat /\ Len(members[t][u]) # 0
    BY <1>1, EmptySeq
  <2>2. Len(members[t][u]) <= 1
    BY <1>1
  <2>3. \A n \in Nat : n # 0 /\ n <= 1 => n = 1
    OBVIOUS
  <2> QED BY <2>1, <2>2, <2>3
<1>3. DOMAIN members[t][u] = {1}
  BY <1>1, <1>2
<1>4. RoleOf(t, u) = members[t][u][1]
  BY <1>1 DEF RoleOf, IsMember
<1>5. Tail(members[t][u]) = <<>>
  <2>1. Tail(members[t][u]) \in Seq(Roles) /\ Len(Tail(members[t][u])) = 0
    BY <1>1, <1>2
  <2> QED BY <2>1, EmptySeq
<1>6. u \in Owners(t) <=> members[t][u][1] = "owner"
  BY <1>3 DEF Owners
<1> QED BY <1>1, <1>2, <1>3, <1>4, <1>5, <1>6

LEMMA ChangeRoleAlone ==
    ASSUME AloneInv, NEW r \in TeamRequests, ChangeRole(r), MembersInv'
    PROVE  RowsFit'
<1>1. PICK t \in Teams, u \in Users, role \in Roles :
        t = request[r].team /\ u = request[r].user /\ role = request[r].role
  BY Alone DEF ChangeRole, Checked, MembersInv, RequestShaped
<1>2. /\ RowsShaped /\ RowsShaped' /\ RowsFit /\ OneMembership /\ UNCHANGED <<team, invite>>
      /\ members' = IF IsMember(t, u) THEN [members EXCEPT ![t][u][1] = role] ELSE members
      /\ t \in Teams /\ u \in Users /\ role \in Roles
  BY <1>1, Alone DEF ChangeRole, Checked, MembersInv, RowsFit
<1>3. CASE ~IsMember(t, u)
  BY <1>2, <1>3, RowsRemain DEF OpenInvite
<1>4. CASE IsMember(t, u)
  <2>1. members \in [Teams -> [Users -> Seq(Roles)]] /\ members[t][u] \in Seq(Roles)
    BY <1>2 DEF RowsShaped
  <2>2. /\ Len(members[t][u]) = 1 /\ DOMAIN members[t][u] = {1} /\ members[t][u] # <<>>
        /\ RoleOf(t, u) = members[t][u][1]
    BY <1>2, <1>4, OneRow DEF IsMember
  <2>3. /\ members'[t][u] = [members[t][u] EXCEPT ![1] = role]
        /\ \A x \in Teams, v \in Users : x # t \/ v # u => members'[x][v] = members[x][v]
    BY <1>2, <1>4, <2>1
  <2>4. Len(members'[t][u]) = 1 /\ members'[t][u][1] = role /\ 1 \in DOMAIN members'[t][u]
    BY <1>2, <2>1, <2>2, <2>3
  <2>5. \A x \in Teams, v \in Users :
          Len(members'[x][v]) <= 1 /\ (members'[x][v] # <<>> => members[x][v] # <<>>)
    <3> TAKE x \in Teams, v \in Users
    <3>1. Len(members[x][v]) <= 1
      BY <1>2 DEF OneMembership
    <3>2. CASE x = t /\ v = u
      <4>1. Len(members'[x][v]) = 1 /\ members[x][v] # <<>>
        BY <2>2, <2>4, <3>2
      <4> QED BY <4>1
    <3>3. CASE x # t \/ v # u
      BY <2>3, <3>1, <3>3
    <3> QED BY <3>2, <3>3
  <2> QED BY <1>2, <2>5, LeavingFits DEF OpenInvite
<1> QED BY <1>3, <1>4

LEMMA RemoveMemberAlone ==
    ASSUME AloneInv, NEW r \in TeamRequests, RemoveMember(r), MembersInv'
    PROVE  RowsFit'
<1>1. PICK t \in Teams, u \in Users : t = request[r].team /\ u = request[r].user
  BY Alone DEF RemoveMember, Checked, MembersInv, RequestShaped
<1>2. /\ RowsShaped /\ RowsShaped' /\ RowsFit /\ OneMembership /\ UNCHANGED <<team, invite>>
      /\ members' = IF IsMember(t, u) THEN [members EXCEPT ![t][u] = Tail(@)] ELSE members
      /\ t \in Teams /\ u \in Users
  BY <1>1, Alone DEF RemoveMember, Checked, MembersInv, RowsFit
<1>3. CASE ~IsMember(t, u)
  BY <1>2, <1>3, RowsRemain DEF OpenInvite
<1>4. CASE IsMember(t, u)
  <2>1. members \in [Teams -> [Users -> Seq(Roles)]]
    BY <1>2 DEF RowsShaped
  <2>2. Tail(members[t][u]) = <<>>
    BY <1>2, <1>4, OneRow
  <2>3. /\ members'[t][u] = <<>>
        /\ \A x \in Teams, v \in Users : x # t \/ v # u => members'[x][v] = members[x][v]
    BY <1>2, <1>4, <2>1, <2>2
  <2>5. \A x \in Teams, v \in Users :
          Len(members'[x][v]) <= 1 /\ (members'[x][v] # <<>> => members[x][v] # <<>>)
    <3> TAKE x \in Teams, v \in Users
    <3>1. Len(members[x][v]) <= 1 /\ Len(<<>>) = 0
      BY <1>2 DEF OneMembership
    <3>2. CASE x = t /\ v = u
      BY <2>3, <3>1, <3>2
    <3>3. CASE x # t \/ v # u
      BY <2>3, <3>1, <3>3
    <3> QED BY <3>2, <3>3
  <2> QED BY <1>2, <2>5, LeavingFits DEF OpenInvite
<1> QED BY <1>3, <1>4

LEMMA LeaveTeamAlone ==
    ASSUME AloneInv, NEW r \in TeamRequests, LeaveTeam(r), MembersInv'
    PROVE  RowsFit'
<1>1. PICK t \in Teams, u \in Users : t = request[r].team /\ u = request[r].user
  BY Alone DEF LeaveTeam, Checked, MembersInv, RequestShaped
<1>2. /\ RowsShaped /\ RowsShaped' /\ RowsFit /\ OneMembership /\ UNCHANGED <<team, invite>>
      /\ members' = [members EXCEPT ![t][u] = <<>>] /\ t \in Teams /\ u \in Users
  BY <1>1, Alone DEF LeaveTeam, MembersInv, RowsFit
<1>3. members \in [Teams -> [Users -> Seq(Roles)]]
  BY <1>2 DEF RowsShaped
<1>4. /\ members'[t][u] = <<>>
      /\ \A x \in Teams, v \in Users : x # t \/ v # u => members'[x][v] = members[x][v]
  BY <1>2, <1>3
<1>5. \A x \in Teams, v \in Users :
        Len(members'[x][v]) <= 1 /\ (members'[x][v] # <<>> => members[x][v] # <<>>)
  <2> TAKE x \in Teams, v \in Users
  <2>1. Len(members[x][v]) <= 1 /\ Len(<<>>) = 0
    BY <1>2 DEF OneMembership
  <2>2. CASE x = t /\ v = u
    BY <1>4, <2>1, <2>2
  <2>3. CASE x # t \/ v # u
    BY <1>4, <2>1, <2>3
  <2> QED BY <2>2, <2>3
<1> QED BY <1>2, <1>5, LeavingFits DEF OpenInvite

-----------------------------------------------------------------------------
\* Each step, without overlap.
LEMMA AnswersAlone ==
    ASSUME AloneInv, MembershipAssumption, NEW r \in TeamRequests, Answer(r), MembersInv'
    PROVE  AloneInv'
  BY AnswerEnds, SignUpAlone, InviteAlone, AcceptAlone, ChangeRoleAlone, RemoveMemberAlone,
     LeaveTeamAlone
  DEF Answer

LEMMA OthersAlone ==
    ASSUME AloneInv, ~Overlap, MembershipAssumption, MembersInv',
           \/ \E u \in Users : DeleteUser(u) \/ \E t \in Teams : NewTeam(u, t) \/ DeleteTeam(u, t)
           \/ \E t \in Teams, p \in TeamProjects : NewProject(t, p)
           \/ \E i \in Invites : Expire(i) \/ \E a \in Users : Revoke(a, i)
    PROVE  AloneInv'
<1>1. RowsShaped
  BY Alone
<1>2. ASSUME NEW u \in Users, DeleteUser(u) PROVE AloneInv'
  <2>1. /\ MayBegin /\ UNCHANGED <<team, members, invite, request>> /\ EnqueueJob("user", u)
    BY <1>2 DEF DeleteUser
  <2>2. RowsFit'
    BY <2>1, RowsRemain DEF OpenInvite
  <2>3. "user" \in {"team", "user"} /\ u \in Users \cup Teams
    OBVIOUS
  <2> QED BY <2>1, <2>2, <2>3, InstantEnds
<1>3. ASSUME NEW a \in Users, NEW t \in Teams, DeleteTeam(a, t) PROVE AloneInv'
  <2>1. /\ MayBegin /\ UNCHANGED <<team, members, invite, request>> /\ EnqueueJob("team", t)
    BY <1>3 DEF DeleteTeam
  <2>2. RowsFit'
    BY <2>1, RowsRemain DEF OpenInvite
  <2>3. "team" \in {"team", "user"} /\ t \in Users \cup Teams
    OBVIOUS
  <2> QED BY <2>1, <2>2, <2>3, InstantEnds
<1>4. ASSUME NEW t \in Teams, NEW p \in TeamProjects, NewProject(t, p) PROVE AloneInv'
  <2>1. MayBegin /\ UNCHANGED <<team, members, invite, request, jobs>>
    BY <1>4 DEF NewProject
  <2>2. RowsFit'
    BY <2>1, RowsRemain DEF OpenInvite
  <2> QED BY <2>1, <2>2, InstantEnds
<1>5. ASSUME NEW i \in Invites, NEW a \in Users, Revoke(a, i) PROVE AloneInv'
  <2>1. /\ MayBegin /\ UNCHANGED <<team, members, request, jobs>>
        /\ invite' = [invite EXCEPT ![i].status = "gone"]
    BY <1>5 DEF Revoke
  <2>2. invite'[i].status = "gone" /\ \A k \in Invites : k # i => invite'[k] = invite[k]
    <3>1. invite \in [Invites -> InviteRows] /\ invite[i] \in InviteRows
      BY <1>1 DEF RowsShaped
    <3>2. [invite[i] EXCEPT !.status = "gone"].status = "gone"
      BY <3>1 DEF InviteRows
    <3> QED BY <2>1, <3>1, <3>2
  <2>3. RowsFit'
    BY <2>1, <2>2, RowsRemain DEF OpenInvite
  <2> QED BY <2>1, <2>3, InstantEnds
<1>6. ASSUME NEW i \in Invites, Expire(i) PROVE AloneInv'
  <2>1. /\ UNCHANGED <<team, members, request, jobs>>
        /\ invite' = [invite EXCEPT ![i].expired = TRUE]
    BY <1>6 DEF Expire
  <2>2. /\ invite'[i].expired /\ \A k \in Invites : k # i => invite'[k] = invite[k]
        /\ \A k \in Invites : /\ invite'[k].team = invite[k].team /\ invite'[k].to = invite[k].to
                              /\ OpenInvite(k)' => OpenInvite(k)
    <3>1. invite \in [Invites -> InviteRows] /\ invite[i] \in InviteRows
      BY <1>1 DEF RowsShaped
    <3> DEFINE fresh == [invite[i] EXCEPT !.expired = TRUE]
    <3>2. fresh.expired /\ fresh.team = invite[i].team
          /\ fresh.to = invite[i].to /\ fresh.status = invite[i].status
      BY <3>1 DEF InviteRows
    <3> HIDE DEF fresh
    <3>3. invite' = [invite EXCEPT ![i] = fresh]
      BY <2>1 DEF fresh
    <3> QED BY <3>1, <3>2, <3>3 DEF OpenInvite
  <2>3. RowsFit'
    BY <2>1, <2>2, RowsRemain
  <2>4. OneAtWork'
    BY <2>1, Alone DEF OneAtWork, AtRest
  <2>5. \A q \in TeamRequests : ChecksHold(q)'
    <3> SUFFICES ASSUME NEW q \in TeamRequests PROVE ChecksHold(q)'
      OBVIOUS
    <3>1. ChecksHold(q) /\ RequestShaped(q)
      BY DEF AloneInv, MembersInv
    <3>2. \A t \in Teams, u \in Users : Invited(t, u)' => Invited(t, u)
      BY <2>2 DEF Invited, OpenInvite
    <3> QED BY <2>1, <2>2, <3>1, <3>2 DEF ChecksHold, RequestShaped, IsMember, RoleOf, Owners, SameInvitee
  <2>6. \A j \in DOMAIN jobs' : JobFits(j)'
    <3> SUFFICES ASSUME NEW j \in DOMAIN jobs PROVE JobFits(j)'
      BY <2>1
    <3>1. JobFits(j)
      BY DEF AloneInv
    <3>2. \A t : Owners(t)' = Owners(t)
      BY <2>1 DEF Owners
    <3> QED BY <2>1, <3>1, <3>2 DEF JobFits
  <2> QED BY <2>3, <2>4, <2>5, <2>6 DEF AloneInv, RowsFit
<1> QED BY <1>2, <1>3, <1>4, <1>5, <1>6, NewTeamAlone

LEMMA MoveFacts ==
    ASSUME RowsShaped, NEW j \in DOMAIN jobs, NEW to, Move(j, to)
    PROVE  /\ DOMAIN jobs' = DOMAIN jobs /\ jobs'[j] = to
           /\ \A k \in DOMAIN jobs : k # j => jobs'[k] = jobs[k]
  BY DEF RowsShaped, Move

\* The teams the job of a user begins with.
LEMMA SoleOwnedFits ==
    ASSUME RowsShaped, OneMembership, NEW u \in Users, NEW t \in Teams
    PROVE  t \in SoleOwned(u) <=> Owners(t) = {u}
<1> SUFFICES ASSUME Owners(t) = {u} PROVE OwnerRows(t, u) = 1
  BY DEF SoleOwned
<1>1. PICK n \in DOMAIN members[t][u] : members[t][u][n] = "owner"
  BY DEF Owners
<1>2. IsMember(t, u)
  BY <1>1 DEF IsMember
<1>3. DOMAIN members[t][u] = {1} /\ members[t][u][1] = "owner"
  BY <1>2, OneRow
<1>4. {m \in DOMAIN members[t][u] : members[t][u][m] = "owner"} = {1}
  BY <1>3
<1>5. Cardinality({1}) = 1
  BY FS_Singleton
<1> QED BY <1>4, <1>5 DEF OwnerRows

LEMMA TakeAlone ==
    ASSUME AloneInv, ~Overlap, NEW j \in DOMAIN jobs, TakeTeam(j) \/ TakeUser(j), MembersInv'
    PROVE  AloneInv'
<1>1. /\ RowsShaped /\ RowsFit /\ OneMembership /\ jobs[j] \in JobRecords /\ JobShaped(j)
      /\ MayBegin /\ UNCHANGED <<team, members, invite, request>>
  BY Alone DEF AloneInv, MembersInv, RowsShaped, TakeTeam, TakeUser
<1>2. RowsFit'
  BY <1>1, RowsRemain DEF OpenInvite
<1>3. CASE TakeTeam(j)
  <2>1. PICK to \in JobRecords : Move(j, to) /\ to.kind = "team"
    <3>1. Move(j, IF team[jobs[j].id] = "active" THEN Enter(j, jobs[j].id) ELSE Place(j, "done"))
      BY <1>3 DEF TakeTeam
    <3>2. jobs[j].id \in Teams /\ jobs[j].kind = "team"
      BY <1>1, <1>3 DEF TakeTeam, JobShaped
    <3>3. /\ Enter(j, jobs[j].id) \in JobRecords /\ Enter(j, jobs[j].id).kind = "team"
          /\ Place(j, "done") \in JobRecords /\ Place(j, "done").kind = "team"
      BY <1>1, <3>2 DEF Enter, Place, JobRecords, ProjectsOf
    <3> QED BY <3>1, <3>3
  <2>2. JobFits(j)'
    <3>1. jobs'[j].kind = "team"
      BY <1>1, <2>1, MoveFacts
    <3> QED BY <3>1 DEF JobFits
  <2>3. to \in JobRecords /\ Move(j, to)
    BY <2>1
  <2> QED BY <1>1, <1>2, <2>2, <2>3, WorkEnds
<1>4. CASE TakeUser(j)
  <2>1. PICK u \in Users : u = jobs[j].id
    BY <1>1, <1>4 DEF TakeUser, JobShaped
  <2>2. u \in Users
    BY <2>1
  <2> DEFINE next == [Place(j, "teams") EXCEPT !.teams = SoleOwned(u)]
  <2>3. Move(j, IF Present(u) THEN next ELSE Place(j, "done")) /\ jobs[j].kind = "user"
    BY <1>4, <2>1 DEF TakeUser
  <2>4. /\ next \in JobRecords /\ next.kind = "user" /\ next.id = u
        /\ next.at = "teams" /\ next.teams = SoleOwned(u)
        /\ Place(j, "done") \in JobRecords /\ Place(j, "done").at = "done"
    BY <1>1, <2>1, <2>3 DEF Place, JobRecords, SoleOwned
  <2> HIDE DEF next
  <2>5. CASE Present(u)
    <3>1. Move(j, next) /\ jobs'[j] = next
      BY <1>1, <2>3, <2>5, MoveFacts
    <3>2. \A t \in Teams : t \in SoleOwned(u) <=> Owners(t) = {u}
      BY <1>1, <2>2, SoleOwnedFits
    <3>3. \A t \in Teams : Owners(t)' = Owners(t)
      BY <1>1 DEF Owners
    <3>4. SoleOwned(u) \subseteq Teams
      BY DEF SoleOwned
    <3>5. /\ jobs'[j].id = u /\ jobs'[j].at = "teams" /\ jobs'[j].teams = SoleOwned(u)
      BY <2>4, <3>1
    <3>6. JobFits(j)'
      BY <3>2, <3>3, <3>4, <3>5 DEF JobFits
    <3> QED BY <1>1, <1>2, <2>4, <3>1, <3>6, WorkEnds
  <2>6. CASE ~Present(u)
    <3>1. Move(j, Place(j, "done")) /\ jobs'[j] = Place(j, "done")
      BY <1>1, <2>3, <2>6, MoveFacts
    <3>2. JobFits(j)'
      BY <2>4, <3>1 DEF JobFits
    <3> QED BY <1>1, <1>2, <2>4, <3>1, <3>2, WorkEnds
  <2> QED BY <2>5, <2>6
<1> QED BY <1>3, <1>4

\* A job of which rows that fit are left goes on: its place fits.
LEMMA PlaceAlone ==
    ASSUME AloneInv, ~Overlap, NEW j \in DOMAIN jobs, NEW to \in JobRecords, Move(j, to),
           ~AtRest(j), UNCHANGED <<team, members, invite, request>>, MembersInv',
           to.kind = jobs[j].kind, to.id = jobs[j].id,
           to.at \in {"teams", "projects"} =>
               /\ \A t \in jobs[j].teams \ to.teams : team[t] # "active"
               /\ to.teams \subseteq jobs[j].teams
               /\ to.at = "projects" /\ to.kind = "user" => to.team \in to.teams,
           jobs[j].at \in {"teams", "projects"}
    PROVE  AloneInv'
<1>1. RowsShaped /\ RowsFit
  BY Alone
<1>2. RowsFit'
  BY RowsRemain DEF OpenInvite
<1>3. jobs'[j] = to
  BY <1>1, MoveFacts
<1>4. \A t \in Teams : Owners(t)' = Owners(t) /\ team'[t] = team[t]
  BY DEF Owners
<1>5. JobFits(j) /\ jobs[j].teams \subseteq Teams
  <2>1. jobs[j] \in JobRecords
    BY <1>1 DEF RowsShaped
  <2>2. jobs[j].teams \subseteq Teams
    BY <2>1 DEF JobRecords
  <2> QED BY <2>2 DEF AloneInv
<1>6. JobFits(j)'
  BY <1>3, <1>4, <1>5 DEF JobFits
<1> QED BY <1>2, <1>6, WorkEnds

LEMMA NextTeamAlone ==
    ASSUME AloneInv, ~Overlap, NEW j \in DOMAIN jobs, NextTeam(j), MembersInv'
    PROVE  AloneInv'
<1>1. /\ RowsShaped /\ jobs[j] \in JobRecords /\ jobs[j].at = "teams"
      /\ UNCHANGED <<team, members, invite, request>>
  BY Alone DEF RowsShaped, NextTeam
<1>2. ~AtRest(j)
  BY <1>1 DEF AtRest
<1>3. PICK t \in jobs[j].teams :
        Move(j, IF team[t] = "active" THEN Enter(j, t) ELSE [jobs[j] EXCEPT !.teams = @ \ {t}])
  BY DEF NextTeam
<1>4. t \in Teams /\ t \in jobs[j].teams
  BY <1>1, <1>3 DEF JobRecords
<1>5. CASE team[t] = "active"
  <2>1. Move(j, Enter(j, t))
    BY <1>3, <1>5
  <2>2. /\ Enter(j, t) \in JobRecords /\ Enter(j, t).kind = jobs[j].kind /\ Enter(j, t).id = jobs[j].id
        /\ Enter(j, t).teams = jobs[j].teams /\ Enter(j, t).team = t
    BY <1>1, <1>4 DEF Enter, JobRecords, ProjectsOf
  <2> QED BY <1>1, <1>2, <1>4, <2>1, <2>2, PlaceAlone
<1>6. CASE team[t] # "active"
  <2> DEFINE next == [jobs[j] EXCEPT !.teams = @ \ {t}]
  <2>1. Move(j, next)
    BY <1>3, <1>6
  <2>2. /\ next \in JobRecords /\ next.kind = jobs[j].kind /\ next.id = jobs[j].id
        /\ next.teams = jobs[j].teams \ {t} /\ next.at = "teams"
    BY <1>1 DEF JobRecords
  <2> HIDE DEF next
  <2> QED BY <1>1, <1>2, <1>6, <2>1, <2>2, PlaceAlone
<1> QED BY <1>5, <1>6

LEMMA DeleteProjectAlone ==
    ASSUME AloneInv, ~Overlap, NEW j \in DOMAIN jobs, DeleteProject(j), MembersInv'
    PROVE  AloneInv'
<1>1. /\ RowsShaped /\ jobs[j] \in JobRecords /\ jobs[j].at = "projects"
      /\ UNCHANGED <<team, members, invite, request>> /\ JobFits(j)
  BY Alone DEF AloneInv, RowsShaped, DeleteProject
<1>2. ~AtRest(j)
  BY <1>1 DEF AtRest
<1>3. PICK p \in jobs[j].left :
        Move(j, [jobs[j] EXCEPT !.left = @ \ {p}]) \/ Move(j, Place(j, "failed"))
  BY DEF DeleteProject
<1>4. jobs[j].kind = "user" => jobs[j].team \in jobs[j].teams
  BY <1>1 DEF JobFits
<1> DEFINE next == [jobs[j] EXCEPT !.left = @ \ {p}]
<1>5. /\ next \in JobRecords /\ next.kind = jobs[j].kind /\ next.id = jobs[j].id
      /\ next.teams = jobs[j].teams /\ next.team = jobs[j].team
  BY <1>1 DEF JobRecords
<1>6. /\ Place(j, "failed") \in JobRecords /\ Place(j, "failed").kind = jobs[j].kind
      /\ Place(j, "failed").id = jobs[j].id /\ Place(j, "failed").at = "failed"
  BY <1>1 DEF Place, JobRecords
<1>7. Move(j, next) \/ Move(j, Place(j, "failed"))
  BY <1>3
<1> HIDE DEF next
<1>8. CASE Move(j, next)
  BY <1>1, <1>2, <1>4, <1>5, <1>8, PlaceAlone
<1>9. CASE Move(j, Place(j, "failed"))
  BY <1>1, <1>2, <1>6, <1>9, PlaceAlone
<1> QED BY <1>7, <1>8, <1>9

\* The invitations Without leaves.
LEMMA WithoutPending ==
    ASSUME RowsShaped, NEW gone \in SUBSET Invites,
           invite' = [i \in Invites |-> IF i \notin gone THEN invite[i]
                                                        ELSE [invite[i] EXCEPT !.status = "gone"]]
    PROVE  \A i \in Invites : OpenInvite(i)' =>
               OpenInvite(i) /\ invite'[i].team = invite[i].team /\ invite'[i].to = invite[i].to
<1> SUFFICES ASSUME NEW i \in Invites, OpenInvite(i)'
             PROVE  OpenInvite(i) /\ invite'[i].team = invite[i].team /\ invite'[i].to = invite[i].to
  OBVIOUS
<1>1. CASE i \notin gone
  BY <1>1 DEF OpenInvite
<1>2. CASE i \in gone
  <2>1. invite[i] \in InviteRows
    BY DEF RowsShaped
  <2>2. invite'[i].status = "gone"
    BY <1>2, <2>1 DEF InviteRows
  <2> QED BY <2>2 DEF OpenInvite
<1> QED BY <1>1, <1>2

LEMMA FinishTeamAlone ==
    ASSUME AloneInv, ~Overlap, NEW j \in DOMAIN jobs, FinishTeam(j), MembersInv'
    PROVE  AloneInv'
<1>1. /\ RowsShaped /\ RowsFit /\ jobs[j] \in JobRecords /\ jobs[j].at = "projects"
      /\ request' = request /\ JobFits(j) /\ JobShaped(j) /\ RowsShaped'
  BY Alone DEF AloneInv, MembersInv, RowsShaped, FinishTeam
<1>2. ~AtRest(j)
  BY <1>1 DEF AtRest
<1>3. PICK t \in Teams : t = jobs[j].team
  BY <1>1 DEF JobShaped
<1>4. t \in Teams
  BY <1>3
<1>5. CASE ProjectsOf(t) # {}
  <2>1. Move(j, Place(j, "failed")) /\ UNCHANGED <<user, team, members, invite>>
    BY <1>3, <1>5 DEF FinishTeam
  <2>2. /\ Place(j, "failed") \in JobRecords /\ Place(j, "failed").kind = jobs[j].kind
        /\ Place(j, "failed").id = jobs[j].id /\ Place(j, "failed").at = "failed"
    BY <1>1 DEF Place, JobRecords
  <2> QED BY <1>1, <1>2, <2>1, <2>2, PlaceAlone
<1>6. CASE ProjectsOf(t) = {}
  <2> DEFINE gone == {i \in Invites : invite[i].team = t}
             next == [Place(j, "teams") EXCEPT !.teams = @ \ {t}]
  <2>1. /\ team' = [team EXCEPT ![t] = "gone"]
        /\ members' = [members EXCEPT ![t] = [u \in Users |-> <<>>]]
        /\ Move(j, IF jobs[j].kind = "team" THEN Place(j, "done") ELSE next)
    BY <1>3, <1>6 DEF FinishTeam
  <2>2. invite' = [i \in Invites |->
             IF i \notin gone THEN invite[i] ELSE [invite[i] EXCEPT !.status = "gone"]]
    BY <1>3, <1>6 DEF FinishTeam, Without
  <2>3. gone \in SUBSET Invites
    OBVIOUS
  <2>4. /\ next \in JobRecords /\ next.kind = jobs[j].kind /\ next.id = jobs[j].id
        /\ next.at = "teams" /\ next.teams = jobs[j].teams \ {t}
        /\ Place(j, "done") \in JobRecords /\ Place(j, "done").at = "done"
    BY <1>1 DEF Place, JobRecords
  <2> HIDE DEF gone, next
  <2>5. \A i \in Invites : OpenInvite(i)' =>
          OpenInvite(i) /\ invite'[i].team = invite[i].team /\ invite'[i].to = invite[i].to
    BY <1>1, <2>2, <2>3, WithoutPending
  <2>6. /\ team'[t] = "gone" /\ \A x \in Teams : x # t => team'[x] = team[x]
        /\ \A u \in Users : members'[t][u] = <<>>
        /\ \A x \in Teams : x # t => members'[x] = members[x]
    BY <1>1, <1>4, <2>1 DEF RowsShaped
  <2>7. \A x \in Teams : x # t => Owners(x)' = Owners(x)
    BY <2>6 DEF Owners
  <2>9. \A x \in Teams, v \in Users :
          Len(members'[x][v]) <= 1 /\ (members'[x][v] # <<>> => members[x][v] # <<>>)
    <3> TAKE x \in Teams, v \in Users
    <3>1. Len(members[x][v]) <= 1 /\ Len(<<>>) = 0
      BY <1>1 DEF RowsFit, OneMembership
    <3> QED BY <2>6, <3>1
  <2>10. RowsFit'
    BY <1>1, <2>5, <2>9, LeavingFits
  <2>11. CASE jobs[j].kind = "team"
    <3>1. Move(j, Place(j, "done"))
      BY <2>1, <2>11
    <3>2. jobs'[j] = Place(j, "done")
      BY <1>1, <2>4, <3>1, MoveFacts
    <3>3. JobFits(j)'
      BY <2>4, <3>2 DEF JobFits
    <3> QED BY <1>1, <1>2, <2>4, <2>10, <3>1, <3>3, WorkEnds
  <2>12. CASE jobs[j].kind = "user"
    <3>1. Move(j, next)
      BY <2>1, <2>12
    <3>2. jobs'[j] = next
      BY <1>1, <2>4, <3>1, MoveFacts
    <3>3. jobs[j].teams \subseteq Teams
      BY <1>1 DEF JobRecords
    <3>4. JobFits(j)'
      BY <1>1, <2>4, <2>6, <2>7, <2>12, <3>2, <3>3 DEF JobFits
    <3> QED BY <1>1, <1>2, <2>4, <2>10, <3>1, <3>4, WorkEnds
  <2>13. jobs[j].kind \in {"team", "user"}
    BY <1>1 DEF JobRecords
  <2> QED BY <2>11, <2>12, <2>13
<1> QED BY <1>5, <1>6

LEMMA FinishUserAlone ==
    ASSUME AloneInv, ~Overlap, NEW j \in DOMAIN jobs, FinishUser(j), MembersInv'
    PROVE  AloneInv'
<1>1. /\ RowsShaped /\ RowsFit /\ jobs[j] \in JobRecords /\ jobs[j].at = "teams"
      /\ jobs[j].teams = {} /\ request' = request /\ team' = team
      /\ JobFits(j) /\ JobShaped(j) /\ RowsShaped' /\ Move(j, Place(j, "done"))
  <2>1. RowsShaped /\ RowsFit /\ MembersInv
    BY Alone
  <2>2. jobs[j] \in JobRecords /\ JobShaped(j)
    BY <2>1, JobKnown
  <2>3. /\ jobs[j].at = "teams" /\ jobs[j].teams = {} /\ request' = request /\ team' = team
        /\ Move(j, Place(j, "done"))
    BY DEF FinishUser
  <2>4. JobFits(j) /\ RowsShaped'
    BY DEF AloneInv, MembersInv
  <2> QED BY <2>1, <2>2, <2>3, <2>4
<1>2. ~AtRest(j)
  BY <1>1 DEF AtRest
<1>3. jobs[j].kind = "user" /\ jobs[j].id \in Users
  BY <1>1 DEF JobShaped, JobRecords
<1>4. PICK u \in Users : u = jobs[j].id
  BY <1>3
<1>5. u \in Users
  BY <1>4
<1> DEFINE gone == {i \in Invites : ~(invite[i].by # u /\ invite[i].to # u)}
<1>6. /\ members' = [t \in Teams |-> [members[t] EXCEPT ![u] = <<>>]]
      /\ invite' = [i \in Invites |->
             IF i \notin gone THEN invite[i] ELSE [invite[i] EXCEPT !.status = "gone"]]
  BY <1>4 DEF FinishUser, Without
<1>7. gone \in SUBSET Invites
  OBVIOUS
<1> HIDE DEF gone
<1>8. \A i \in Invites : OpenInvite(i)' =>
        OpenInvite(i) /\ invite'[i].team = invite[i].team /\ invite'[i].to = invite[i].to
  BY <1>1, <1>6, <1>7, WithoutPending
<1>9. \A t \in Teams, v \in Users : members'[t][v] = IF v = u THEN <<>> ELSE members[t][v]
  BY <1>1, <1>6 DEF RowsShaped
<1>11. \A x \in Teams, v \in Users :
         Len(members'[x][v]) <= 1 /\ (members'[x][v] # <<>> => members[x][v] # <<>>)
  <2> TAKE x \in Teams, v \in Users
  <2>1. Len(members[x][v]) <= 1 /\ Len(<<>>) = 0
    BY <1>1 DEF RowsFit, OneMembership
  <2> QED BY <1>9, <2>1
<1>12. RowsFit'
  BY <1>1, <1>8, <1>11, LeavingFits
<1>13. Place(j, "done") \in JobRecords /\ Place(j, "done").at = "done"
  BY <1>1 DEF Place, JobRecords
<1>14. JobFits(j)'
  BY <1>1, <1>13, MoveFacts DEF JobFits
<1> QED BY <1>1, <1>2, <1>12, <1>13, <1>14, WorkEnds

-----------------------------------------------------------------------------
LEMMA AloneStep ==
    ASSUME AloneInv, ~Overlap, MembershipAssumption, MembersNext PROVE AloneInv'
<1>1. MembersInv' /\ RowsFit
  BY Alone, MembersStep
<1>2. ASSUME NEW r \in TeamRequests, Answer(r) PROVE AloneInv'
  BY <1>1, <1>2, AnswersAlone
<1>3. ASSUME NEW j \in DOMAIN jobs, Work(j) PROVE AloneInv'
  BY <1>1, <1>3, TakeAlone, NextTeamAlone, DeleteProjectAlone, FinishTeamAlone, FinishUserAlone DEF Work
<1>4. ASSUME NEW r \in TeamRequests, NEW i \in Invites,
             AcceptNotified(r, i) \/ \E in \in BOOLEAN : AcceptLink(r, i, in)
      PROVE  AloneInv'
  <2>1. BeginAccept(r, i)
    BY <1>4 DEF AcceptNotified, AcceptLink
  <2>2. ~IsMember(invite[i].team, invite[i].to)
    BY <1>1, <2>1 DEF BeginAccept, RowsFit, InvitesFit, OpenInvite
  <2> QED BY <1>1, <2>1, <2>2, BeginningsAlone
<1> QED BY <1>1, <1>2, <1>3, <1>4, BeginningsAlone, OthersAlone DEF MembersNext

LEMMA AloneStutter == ASSUME AloneInv, UNCHANGED membersVars PROVE AloneInv'
<1>1. MembersInv' /\ RowsShaped
  BY Alone, MembersStutter
<1>2. RowsFit'
  BY RowsRemain DEF membersVars, OpenInvite
<1>3. UNCHANGED <<team, members, invite, request, jobs>>
  BY DEF membersVars
<1>4. OneAtWork'
  BY <1>3 DEF AloneInv, OneAtWork, AtRest
<1>5. \A r \in TeamRequests : ChecksHold(r)'
  BY <1>3 DEF AloneInv, ChecksHold, IsMember, Owners, RoleOf, Invited, SameInvitee, OpenInvite
<1>6. \A j \in DOMAIN jobs' : JobFits(j)'
  <2>1. \A t \in Teams : Owners(t)' = Owners(t)
    BY <1>3 DEF Owners
  <2>2. \A j \in DOMAIN jobs : JobFits(j) /\ jobs[j].teams \subseteq Teams
    <3>1. \A j \in DOMAIN jobs : jobs[j] \in JobRecords
      BY <1>1 DEF RowsShaped
    <3> QED BY <3>1 DEF AloneInv, JobRecords
  <2> QED BY <1>3, <2>1, <2>2 DEF JobFits
<1> QED BY <1>1, <1>2, <1>4, <1>5, <1>6 DEF AloneInv, RowsFit

\* TeamRequests and jobs that follow each other find what they checked.
THEOREM AloneInvariant == MembershipAssumption /\ ~Overlap => (MembersSpec => []AloneInv)
<1> SUFFICES ASSUME MembershipAssumption, ~Overlap PROVE MembersSpec => []AloneInv
  OBVIOUS
<1>1. MembersInit => AloneInv
  BY AloneInitially
<1>2. AloneInv /\ [MembersNext]_membersVars => AloneInv'
  BY AloneStep, AloneStutter
<1> QED BY <1>1, <1>2, PTL DEF MembersSpec

\* Rows refer to rows there are whatever overlaps; and while nothing does, nobody
\* is a member of a team twice.
THEOREM TeamsAreSound == MembershipAssumption => (MembersSpec => []TeamsConsistent)
<1> SUFFICES ASSUME MembershipAssumption PROVE MembersSpec => []TeamsConsistent
  OBVIOUS
<1>1. CASE Overlap
  <2>1. MembersInv => TeamsConsistent BY <1>1 DEF MembersInv, TeamsConsistent
  <2> QED BY <2>1, MembersInvariant, PTL
<1>2. CASE ~Overlap
  <2>1. MembersSpec => []AloneInv BY <1>2, AloneInvariant
  <2>2. AloneInv => TeamsConsistent BY DEF AloneInv, MembersInv, TeamsConsistent
  <2> QED BY <2>1, <2>2, PTL
<1> QED BY <1>1, <1>2

\* Who goes is a user who asked, and what goes a team somebody asked for or
\* that would have no owner.
THEOREM OnlyAskedGo ==
    MembershipAssumption /\ ~Overlap => (MembersSpec => [][OnlyAskedGoes]_membersVars)
<1> SUFFICES ASSUME MembershipAssumption, ~Overlap
             PROVE  MembersSpec => [][OnlyAskedGoes]_membersVars
  OBVIOUS
<1>1. ASSUME AloneInv, MembersNext PROVE OnlyAskedGoes
  <2>1. MembersInv /\ RowsShaped
    BY <1>1, Alone
  <2>2. ASSUME NEW j \in DOMAIN jobs, FinishUser(j) PROVE OnlyAskedGoes
    <3>1. JobShaped(j) /\ jobs[j] \in JobRecords
      BY <2>1, JobKnown
    <3>2. /\ jobs[j].id \in Users /\ user[jobs[j].id].status = "deleted" /\ team' = team
          /\ user' = [user EXCEPT ![jobs[j].id] = NoUser]
      BY <2>2, <3>1 DEF FinishUser, JobShaped, Unfinished, JobRecords
    <3>3. \A u \in Users : Present(u) /\ ~Present(u)' => user[u].status = "deleted"
      BY <2>1, <3>2 DEF Present, RowsShaped
    <3> QED BY <3>2, <3>3 DEF OnlyAskedGoes
  <2>3. ASSUME NEW j \in DOMAIN jobs, FinishTeam(j) PROVE OnlyAskedGoes
    <3>1. /\ JobShaped(j) /\ jobs[j] \in JobRecords /\ jobs[j].at = "projects" /\ JobFits(j)
          /\ jobs[j].team \in Teams
      BY <1>1, <2>1, <2>3, JobKnown DEF FinishTeam, AloneInv, JobShaped
    <3>2. /\ \A u \in Users : user'[u].status = user[u].status
          /\ \A t \in Teams : t # jobs[j].team => team'[t] = team[t]
      <4>1. CASE UNCHANGED <<user, team>>
        BY <4>1
      <4>2. CASE ~UNCHANGED <<user, team>>
        <5>1. /\ team' = [team EXCEPT ![jobs[j].team] = "gone"]
              /\ user' = [u \in Users |-> IF user[u].home = jobs[j].team
                                          THEN [user[u] EXCEPT !.home = Nobody] ELSE user[u]]
          BY <2>3, <4>2 DEF FinishTeam
        <5>2. \A u \in Users : user[u] \in UserRows
          BY <2>1 DEF RowsShaped
        <5>3. \A u \in Users : [user[u] EXCEPT !.home = Nobody].status = user[u].status
          BY <5>2 DEF UserRows
        <5>4. \A u \in Users : user'[u].status = user[u].status
          BY <5>1, <5>3
        <5> QED BY <2>1, <5>1, <5>4 DEF RowsShaped
      <4> QED BY <4>1, <4>2
    <3>3. PICK to : Move(j, to) /\ to.at # "projects"
      <4>1. Place(j, "failed").at = "failed" /\ Place(j, "done").at = "done"
        BY <3>1 DEF Place, JobRecords
      <4>2. [Place(j, "teams") EXCEPT !.teams = @ \ {jobs[j].team}].at = "teams"
        BY <3>1 DEF Place, JobRecords
      <4> QED BY <2>3, <4>1, <4>2 DEF FinishTeam
    <3>4. jobs'[j] # jobs[j]
      BY <2>1, <3>1, <3>3, MoveFacts
    <3>5. jobs[j].kind = "user" /\ team[jobs[j].team] = "active" => Owners(jobs[j].team) = {jobs[j].id}
      BY <3>1 DEF JobFits
    <3> QED BY <3>2, <3>4, <3>5 DEF OnlyAskedGoes, Present
  <2>4. \/ \E j \in DOMAIN jobs : FinishUser(j) \/ FinishTeam(j)
        \/ /\ \A u \in Users : Present(u) => Present(u)'
           /\ \A t \in Teams : team[t] = "active" => team'[t] = "active"
    <3>1. ASSUME NEW r \in TeamRequests, Answer(r)
          PROVE  /\ \A u \in Users : Present(u) => Present(u)'
                 /\ \A t \in Teams : team[t] = "active" => team'[t] = "active"
      <4>1. ASSUME NEW u, NEW h \in Teams, WithUser(u, h)
            PROVE  /\ \A v \in Users : Present(v) => Present(v)'
                   /\ \A t \in Teams : team[t] = "active" => team'[t] = "active"
        BY <2>1, <4>1 DEF WithUser, Present, RowsShaped
      <4> QED BY <3>1, <4>1 DEF Answer, SignUp, Invite, Accept, ChangeRole, RemoveMember, LeaveTeam,
                                Present
    <3>2. ASSUME NEW j \in DOMAIN jobs, Work(j), ~FinishUser(j), ~FinishTeam(j)
          PROVE  UNCHANGED <<user, team>>
      BY <3>2 DEF Work, TakeTeam, TakeUser, NextTeam, DeleteProject
    <3>3. ASSUME NEW r \in TeamRequests, NEW v \in Users, BeginSignUp(r, v) PROVE UNCHANGED <<user, team>>
      BY <3>3 DEF BeginSignUp
    <3>4. ASSUME NEW r \in TeamRequests, NEW i \in Invites,
                 AcceptNotified(r, i) \/ \E in \in BOOLEAN : AcceptLink(r, i, in)
          PROVE  UNCHANGED <<user, team>>
      BY <3>4 DEF AcceptNotified, AcceptLink, BeginAccept
    <3>5. ASSUME NEW r \in TeamRequests, NEW a \in Users, NEW v \in Users, NEW t \in Teams,
                 \/ BeginRemove(r, a, t, v)
                 \/ a = v /\ BeginLeave(r, v, t)
                 \/ \E role \in Roles : BeginRole(r, a, t, v, role)
                 \/ \E role \in {"admin", "member"} : BeginInvite(r, a, t, v, role)
          PROVE  UNCHANGED <<user, team>>
      BY <3>5 DEF BeginRemove, BeginLeave, BeginRole, BeginInvite
    <3>6. ASSUME NEW u \in Users, DeleteUser(u) \/ \E t \in Teams : NewTeam(u, t) \/ DeleteTeam(u, t)
          PROVE  /\ \A v \in Users : Present(v) => Present(v)'
                 /\ \A t \in Teams : team[t] = "active" => team'[t] = "active"
      <4>1. CASE DeleteUser(u)
        <5>1. user' = [user EXCEPT ![u].status = "deleted"] /\ team' = team
          BY <4>1 DEF DeleteUser
        <5>2. user \in [Users -> UserRows] /\ user[u] \in UserRows
          BY <2>1 DEF RowsShaped
        <5>3. [user[u] EXCEPT !.status = "deleted"].status = "deleted"
          BY <5>2 DEF UserRows
        <5>4. user'[u].status = "deleted" /\ \A v \in Users : v # u => user'[v] = user[v]
          BY <5>1, <5>2, <5>3
        <5> QED BY <5>1, <5>4 DEF Present
      <4>2. CASE \E t \in Teams : NewTeam(u, t) \/ DeleteTeam(u, t)
        BY <2>1, <4>2 DEF NewTeam, DeleteTeam, Present, RowsShaped
      <4> QED BY <3>6, <4>1, <4>2
    <3>7. ASSUME NEW t \in Teams, NEW p \in TeamProjects, NewProject(t, p) PROVE UNCHANGED <<user, team>>
      BY <3>7 DEF NewProject
    <3>8. ASSUME NEW i \in Invites, Expire(i) \/ \E a \in Users : Revoke(a, i)
          PROVE  UNCHANGED <<user, team>>
      BY <3>8 DEF Expire, Revoke
    <3> QED BY <1>1, <3>1, <3>2, <3>3, <3>4, <3>5, <3>6, <3>7, <3>8 DEF MembersNext, Present
  <2>5. (/\ \A u \in Users : Present(u) => Present(u)'
         /\ \A t \in Teams : team[t] = "active" => team'[t] = "active") => OnlyAskedGoes
    BY DEF OnlyAskedGoes
  <2> QED BY <2>2, <2>3, <2>4, <2>5
<1>2. UNCHANGED membersVars => OnlyAskedGoes
  BY DEF membersVars, OnlyAskedGoes, Present
<1> QED BY <1>1, <1>2, AloneInvariant, PTL DEF MembersSpec

-----------------------------------------------------------------------------
\* Teams keep their owners.

\* Somebody has the owner's role in the rows m of a team.
Owns(m, t, v) == \E n \in DOMAIN m[t][v] : m[t][v][n] = "owner"
Rows == [Teams -> [Users -> Seq(Roles)]]

\* Who joins takes no role from anybody.
LEMMA JoinOwns ==
    ASSUME NEW m \in Rows, NEW x \in Teams, NEW u \in Users, NEW role \in Roles,
           NEW t \in Teams, NEW v \in Users, Owns(m, t, v)
    PROVE  Join(m, x, u, role) \in Rows /\ Owns(Join(m, x, u, role), t, v)
<1>1. m[x][u] \in Seq(Roles) /\ m[t][v] \in Seq(Roles)
  BY DEF Rows
<1>2. Append(m[x][u], role) \in Seq(Roles)
  BY <1>1
<1>3. /\ Join(m, x, u, role) \in Rows
      /\ Join(m, x, u, role)[t][v] = IF t = x /\ v = u THEN Append(m[x][u], role) ELSE m[t][v]
  BY <1>2 DEF Join, Rows
<1>4. PICK n \in DOMAIN m[t][v] : m[t][v][n] = "owner"
  BY DEF Owns
<1>5. n \in DOMAIN Append(m[t][v], role) /\ Append(m[t][v], role)[n] = "owner"
  BY <1>1, <1>4
<1> QED BY <1>3, <1>4, <1>5 DEF Owns

\* One member's rows change, and another one is an owner.
LEMMA OneChanges ==
    ASSUME NEW t \in Teams, NEW x \in Teams, NEW u \in Users,
           \A v \in Users : x # t \/ v # u => members'[t][v] = members[t][v],
           \E v \in Owners(t) : x # t \/ v # u
    PROVE  Owners(t)' # {}
<1>1. PICK v \in Users : v \in Owners(t) /\ (x # t \/ v # u)
  BY DEF Owners
<1>2. members'[t][v] = members[t][v]
  BY <1>1
<1> QED BY <1>1, <1>2 DEF Owners

LEMMA AnswersKeepOwners ==
    ASSUME AloneInv, NEW r \in TeamRequests, Answer(r), NEW t \in Teams, Owners(t) # {},
           Owners(t)' = {}
    PROVE  Checked(r, "delete_member") /\ request[r].team = t /\ request'[r] = NoRequest
<1> DEFINE x == request[r].team
           u == request[r].user
<1>1. /\ RowsShaped /\ OneMembership /\ members \in Rows /\ RequestShaped(r) /\ ChecksHold(r)
      /\ invite \in [Invites -> InviteRows]
  BY DEF AloneInv, MembersInv, RowsShaped, Rows
<1>2. PICK o \in Users : o \in Owners(t) /\ Owns(members, t, o) /\ ~Owns(members', t, o)
  BY DEF Owners, Owns
<1>3. ~SignUp(r)
  <2> SUFFICES ASSUME SignUp(r) PROVE FALSE
    OBVIOUS
  <2>1. u \in Users /\ "owner" \in Roles
    BY <1>1 DEF SignUp, Checked, RequestShaped, Roles
  <2>2. members' = members \/ \E h \in Teams : members' = Join(members, h, u, "owner")
    BY DEF SignUp
  <2> QED BY <1>1, <1>2, <2>1, <2>2, JoinOwns
<1>4. ~Invite(r)
  BY <1>2 DEF Invite
<1>5. ~Accept(r)
  <2> SUFFICES ASSUME Accept(r) PROVE FALSE
    OBVIOUS
  <2> DEFINE i == request[r].invite
  <2>1. /\ i \in Invites /\ invite[i].status # "none" /\ u \in Users /\ u = invite[i].to
        /\ invite[i].team \in Teams /\ invite[i].role \in Roles /\ "owner" \in Roles
    BY <1>1 DEF Accept, Checked, RequestShaped, RowsShaped, Roles
  <2> HIDE DEF i
  <2>2. \/ members' = members
        \/ members' = Join(members, invite[i].team, u, invite[i].role)
        \/ \E h \in Teams :
             members' = Join(Join(members, h, u, "owner"), invite[i].team, u, invite[i].role)
    BY DEF Accept, i
  <2> HIDE DEF u
  <2>3. CASE \E h \in Teams :
               members' = Join(Join(members, h, u, "owner"), invite[i].team, u, invite[i].role)
    <3>1. PICK h \in Teams :
            members' = Join(Join(members, h, u, "owner"), invite[i].team, u, invite[i].role)
      BY <2>3
    <3> DEFINE m == Join(members, h, u, "owner")
    <3>2. m \in Rows /\ Owns(m, t, o)
      BY <1>1, <1>2, <2>1, JoinOwns
    <3> HIDE DEF m
    <3>3. Owns(Join(m, invite[i].team, u, invite[i].role), t, o)
      BY <2>1, <3>2, JoinOwns
    <3> QED BY <1>2, <3>1, <3>3 DEF m
  <2> QED BY <1>1, <1>2, <2>1, <2>2, <2>3, JoinOwns
<1>6. ~ChangeRole(r)
  <2> SUFFICES ASSUME ChangeRole(r) PROVE FALSE
    OBVIOUS
  <2>1. x \in Teams /\ u \in Users /\ request[r].role \in Roles
    BY <1>1 DEF ChangeRole, Checked, RequestShaped
  <2>2. /\ IsMember(x, u)
        /\ members' = [members EXCEPT ![x][u][1] = request[r].role]
    BY <1>2 DEF ChangeRole
  <2>3. /\ members'[x][u] = [members[x][u] EXCEPT ![1] = request[r].role]
        /\ \A v \in Users : x # t \/ v # u => members'[t][v] = members[t][v]
    BY <1>1, <2>1, <2>2 DEF Rows
  <2>4. /\ DOMAIN members[x][u] = {1} /\ RoleOf(x, u) = members[x][u][1]
        /\ u \in Owners(x) <=> members[x][u][1] = "owner"
    BY <1>1, <2>1, <2>2, OneRow
  <2>5. \A v \in Owners(t) : x = t /\ v = u
    BY <2>1, <2>3, OneChanges
  <2>6. x = t /\ o = u /\ Owners(t) \ {u} = {}
    BY <1>2, <2>5
  <2>7. request[r].role = "owner"
    BY <1>1, <1>2, <2>4, <2>6 DEF ChangeRole, Checked, ChecksHold
  <2>8. 1 \in DOMAIN members'[x][u] /\ members'[x][u][1] = "owner"
    BY <2>3, <2>4, <2>7
  <2> QED BY <1>2, <2>6, <2>8 DEF Owns
<1>7. ~LeaveTeam(r)
  <2> SUFFICES ASSUME LeaveTeam(r) PROVE FALSE
    OBVIOUS
  <2>1. x \in Teams /\ u \in Users /\ members' = [members EXCEPT ![x][u] = <<>>]
    BY <1>1 DEF LeaveTeam, Checked, RequestShaped
  <2>2. \A v \in Users : x # t \/ v # u => members'[t][v] = members[t][v]
    BY <1>1, <2>1 DEF Rows
  <2>3. \A v \in Owners(t) : x = t /\ v = u
    BY <2>1, <2>2, OneChanges
  <2>4. x = t /\ Owners(x) \ {u} # {}
    BY <1>1, <1>2, <2>3 DEF LeaveTeam, Checked, ChecksHold
  <2> QED BY <2>3, <2>4
<1>8. RemoveMember(r)
  BY <1>3, <1>4, <1>5, <1>6, <1>7 DEF Answer
<1>9. x \in Teams /\ u \in Users
  BY <1>1, <1>8 DEF RemoveMember, Checked, RequestShaped
<1>10. x = t
  <2>1. x # t => members'[t] = members[t]
    BY <1>1, <1>8, <1>9 DEF RemoveMember, Rows
  <2> QED BY <1>2, <2>1 DEF Owns
<1>11. request'[r] = NoRequest
  BY <1>1, <1>8 DEF RemoveMember, End, RowsShaped
<1> QED BY <1>8, <1>10, <1>11 DEF RemoveMember

LEMMA JobsKeepOwners ==
    ASSUME AloneInv, NEW j \in DOMAIN jobs, Work(j), NEW t \in Teams, team[t] = "active",
           team'[t] = "active", Owners(t) # {}
    PROVE  Owners(t)' # {}
<1>1. /\ RowsShaped /\ JobShaped(j) /\ jobs[j] \in JobRecords /\ JobFits(j)
  BY Alone, JobKnown DEF AloneInv
<1>2. CASE FinishTeam(j)
  <2>1. members' = members \/ (/\ members' = [members EXCEPT ![jobs[j].team] = [u \in Users |-> <<>>]]
                               /\ team' = [team EXCEPT ![jobs[j].team] = "gone"])
    BY <1>2 DEF FinishTeam
  <2>2. members'[t] = members[t]
    BY <1>1, <2>1 DEF RowsShaped
  <2> QED BY <2>2 DEF Owners
<1>3. CASE FinishUser(j)
  <2>1. /\ members' = [x \in Teams |-> [members[x] EXCEPT ![jobs[j].id] = <<>>]]
        /\ jobs[j].at = "teams" /\ jobs[j].teams = {}
    BY <1>3 DEF FinishUser
  <2>2. jobs[j].kind = "user" /\ jobs[j].id \in Users
    BY <1>1, <2>1 DEF JobShaped, JobRecords
  <2>3. Owners(t) # {jobs[j].id}
    BY <1>1, <2>1, <2>2 DEF JobFits
  <2>4. \A v \in Users : v # jobs[j].id => members'[t][v] = members[t][v]
    BY <1>1, <2>1 DEF RowsShaped
  <2> QED BY <2>2, <2>3, <2>4, OneChanges
<1>4. CASE ~FinishTeam(j) /\ ~FinishUser(j)
  <2>1. members' = members
    BY <1>4 DEF Work, TakeTeam, TakeUser, NextTeam, DeleteProject
  <2> QED BY <2>1 DEF Owners
<1> QED BY <1>2, <1>3, <1>4

\* While nothing overlaps, a team that stays loses its last owner only when that
\* member is removed: roles that change, users that leave or are deleted, and
\* the jobs leave an owner behind.
THEOREM OwnersRemain ==
    MembershipAssumption /\ ~Overlap => (MembersSpec => [][OwnersStay]_membersVars)
<1> SUFFICES ASSUME MembershipAssumption, ~Overlap
             PROVE  MembersSpec => [][OwnersStay]_membersVars
  OBVIOUS
<1>1. ASSUME AloneInv, MembersNext PROVE OwnersStay
  <2> SUFFICES ASSUME NEW t \in Teams, team[t] = "active", team'[t] = "active", Owners(t) # {},
                      Owners(t)' = {}
               PROVE  \E r \in TeamRequests : /\ Checked(r, "delete_member") /\ request[r].team = t
                                              /\ request'[r] = NoRequest
    BY DEF OwnersStay
  <2>1. members' # members
    BY DEF Owners
  <2>2. CASE \E r \in TeamRequests : Answer(r)
    BY <1>1, <2>2, AnswersKeepOwners
  <2>3. ~\E j \in DOMAIN jobs : Work(j)
    BY <1>1, JobsKeepOwners
  <2>4. ASSUME NEW u \in Users, NEW x \in Teams PROVE ~NewTeam(u, x)
    <3> SUFFICES ASSUME NewTeam(u, x) PROVE FALSE
      OBVIOUS
    <3>1. members' = Join(members, x, u, "owner") /\ members \in Rows /\ "owner" \in Roles
      BY <1>1, Alone DEF NewTeam, RowsShaped, Rows, Roles
    <3>2. PICK o \in Users : Owns(members, t, o) /\ ~Owns(members', t, o)
      BY DEF Owners, Owns
    <3> QED BY <3>1, <3>2, JoinOwns
  <2>5. ASSUME NEW r \in TeamRequests, NEW u \in Users PROVE ~BeginSignUp(r, u)
    BY <2>1 DEF BeginSignUp
  <2>6. ASSUME NEW r \in TeamRequests, NEW i \in Invites
        PROVE  ~(AcceptNotified(r, i) \/ \E in \in BOOLEAN : AcceptLink(r, i, in))
    BY <2>1 DEF AcceptNotified, AcceptLink, BeginAccept
  <2>7. ASSUME NEW r \in TeamRequests, NEW a \in Users, NEW u \in Users, NEW x \in Teams
        PROVE  ~(\/ BeginRemove(r, a, x, u)
                 \/ a = u /\ BeginLeave(r, u, x)
                 \/ \E role \in Roles : BeginRole(r, a, x, u, role)
                 \/ \E role \in {"admin", "member"} : BeginInvite(r, a, x, u, role))
    BY <2>1 DEF BeginRemove, BeginLeave, BeginRole, BeginInvite
  <2>8. ASSUME NEW u \in Users PROVE ~(DeleteUser(u) \/ \E x \in Teams : DeleteTeam(u, x))
    BY <2>1 DEF DeleteUser, DeleteTeam
  <2>9. ~\E x \in Teams, p \in TeamProjects : NewProject(x, p)
    BY <2>1 DEF NewProject
  <2>10. ~\E i \in Invites : Expire(i) \/ \E a \in Users : Revoke(a, i)
    BY <2>1 DEF Expire, Revoke
  <2> QED BY <1>1, <2>2, <2>3, <2>4, <2>5, <2>6, <2>7, <2>8, <2>9, <2>10 DEF MembersNext
<1>2. UNCHANGED membersVars => OwnersStay
  BY DEF membersVars, OwnersStay, Owners
<1> QED BY <1>1, <1>2, AloneInvariant, PTL DEF MembersSpec

\* PeopleGoAsAsked: a revoked invitation makes nobody a member, whatever
\* overlaps, and while nothing does, only what was asked to go goes and teams
\* keep their owners.
THEOREM PeopleDoGoAsAsked == MembershipAssumption => (MembersSpec => PeopleGoAsAsked)
<1> SUFFICES ASSUME MembershipAssumption PROVE MembersSpec => PeopleGoAsAsked
  OBVIOUS
<1> DEFINE All == RevokedStaysOut /\ (~Overlap => OnlyAskedGoes /\ OwnersStay)
<1>1. CASE Overlap
  <2>1. [RevokedStaysOut]_membersVars => [All]_membersVars
    BY <1>1
  <2> QED BY <2>1, RevokedStayOut, PTL DEF PeopleGoAsAsked
<1>2. CASE ~Overlap
  <2>1. [RevokedStaysOut]_membersVars /\ [OnlyAskedGoes]_membersVars /\ [OwnersStay]_membersVars
          => [All]_membersVars
    OBVIOUS
  <2> QED BY <1>2, <2>1, RevokedStayOut, OnlyAskedGo, OwnersRemain, PTL DEF PeopleGoAsAsked
<1> QED BY <1>1, <1>2
=============================================================================
