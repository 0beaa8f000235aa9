----------------------------- MODULE RunnerRegistry -----------------------------
(***************************************************************************)
(* The runners and presets an instance offers: a catalog that is fetched,  *)
(* and the overrides administrators make, in two files.  RegistryService   *)
(* reads and prunes both when a request or a job constructs it, decides on *)
(* what it has read, and writes one of them back without a lock, in one of *)
(* several server processes.                                               *)
(*                                                                         *)
(* An entry is known by its slug.  What the catalog says of it is "on",    *)
(* "off" or "unset", its field "enabled", or that it does not have it; an  *)
(* override holds an "enabled" of its own and, perhaps, other fields: with *)
(* them an entry the catalog does not have is complete.                    *)
(***************************************************************************)
EXTENDS Naturals, FiniteSets

CONSTANTS
    Runners,        \* slugs of runners
    Presets,        \* slugs of presets
    CategoryOf,     \* CategoryOf[s]: the category of a runner or a preset
    RunnerOf,       \* RunnerOf[p]: the runner a preset names
    Catalogs,       \* the catalogs there are to fetch; the first is installed
    Installed,
    Custom,         \* what an administrator has added to the overrides by hand
    Admins,         \* requests of administrators that are handled at a time
    Crashes         \* whether a server may die while it writes

EntrySlugs == Runners \cup Presets
Says == {"on", "off", "unset"}
Overrides == UNION {[D -> [enabled : Says, own : BOOLEAN]] : D \in SUBSET EntrySlugs}
IsOverrides(ov) ==
    DOMAIN ov \subseteq EntrySlugs /\ ov \in [DOMAIN ov -> [enabled : Says, own : BOOLEAN]]

RegistryAssumption ==
    /\ Runners \cap Presets = {}
    /\ DOMAIN CategoryOf = EntrySlugs /\ RunnerOf \in [Presets -> Runners]
    /\ Catalogs \subseteq UNION {[D -> Says] : D \in SUBSET EntrySlugs}
    /\ Installed \in Catalogs /\ Custom \in Overrides
    /\ Crashes \in BOOLEAN

VARIABLES
    catalog,    \* catalog.json: one of Catalogs
    overrides,  \* overrides.json
    torn,       \* whether overrides.json is truncated, or garbled
    admin       \* what each request of an administrator is doing

runnerVars == <<catalog, overrides, torn, admin>>

Idle == [pc |-> "idle"]

\* What the registry writes never says "off", it leaves the override out; only
\* what was edited by hand may.
RegTypeOK ==
    /\ catalog \in Catalogs
    /\ IsOverrides(overrides)
    /\ overrides = Custom \/ \A s \in DOMAIN overrides : overrides[s].enabled # "off"
    /\ torn \in BOOLEAN
    /\ admin = [a \in Admins |-> admin[a]]
    /\ \A a \in Admins : admin[a].pc \in {"idle", "toggle", "fetch", "write"}

RunnersInit ==
    /\ catalog = Installed /\ overrides = Custom /\ torn = FALSE
    /\ admin = [a \in Admins |-> Idle]

\* Mutant: an override that disables is kept.
PrunedEnabledOff(c, s, o) ==
    IF s \in DOMAIN c /\ o.enabled = c[s] THEN "unset" ELSE o.enabled

\* The field "enabled" of a pruned override.
PrunedEnabled(c, s, o) ==
    IF o.enabled = "off" \/ (s \in DOMAIN c /\ o.enabled = c[s]) THEN "unset" ELSE o.enabled

\* Whether anything is left of an override.
Stays(c, s, o) ==
    IF s \notin DOMAIN c
    THEN o.own
    ELSE o.own \/ PrunedEnabled(c, s, o) # "unset" \/ (o.enabled = "off" /\ c[s] = "on")

Prune(c, ov) ==
    [s \in {r \in DOMAIN ov : Stays(c, r, ov[r])} |->
        [ov[s] EXCEPT !.enabled = PrunedEnabled(c, s, ov[s])]]

\* An override wins over the catalog; an entry nobody enables is disabled.
EntryEnabled(c, ov, s) ==
    IF s \in DOMAIN ov /\ ov[s].enabled # "unset"
    THEN ov[s].enabled = "on"
    ELSE s \in DOMAIN c /\ c[s] = "on"

\* Mutant: the category of a runner that is enabled is not compared.
UsableInAnyCategory(c, ov, p) ==
    \/ EntryEnabled(c, ov, RunnerOf[p])
    \/ \E r \in Runners : EntryEnabled(c, ov, r) /\ CategoryOf[r] = CategoryOf[p]

\* The runner of a preset is enabled and of its category, or it is not enabled
\* but another of its category is.
Usable(c, ov, p) ==
    IF EntryEnabled(c, ov, RunnerOf[p])
    THEN CategoryOf[RunnerOf[p]] = CategoryOf[p]
    ELSE \E r \in Runners : EntryEnabled(c, ov, r) /\ CategoryOf[r] = CategoryOf[p]

\* The slugs that are offered by the resolved catalog.
Resolved(c, file) ==
    LET ov == Prune(c, file) IN
    {s \in EntrySlugs : EntryEnabled(c, ov, s) /\ (s \in Presets => Usable(c, ov, s))}
-----------------------------------------------------------------------------
\* A request that finds the file truncated raises.
Construct(a, next) ==
    /\ admin[a].pc = "idle" /\ ~torn
    /\ admin' = [admin EXCEPT ![a] = next]
    /\ UNCHANGED <<catalog, overrides, torn>>

\* set_runner, set_preset: the service is constructed, then the form validated.
AskToggle(a, s, b) ==
    Construct(a, [pc |-> "toggle", slug |-> s, on |-> b,
                  catalog |-> catalog, overrides |-> Prune(catalog, overrides)])

\* Mutant: the other fields of the override are forgotten.
SetForgets(ov, s, b) ==
    [r \in DOMAIN ov \cup {s} |->
        IF r = s THEN [enabled |-> IF b THEN "on" ELSE "off", own |-> FALSE] ELSE ov[r]]

Set(ov, s, b) ==
    [r \in DOMAIN ov \cup {s} |->
        IF r # s THEN ov[r]
        ELSE [enabled |-> IF b THEN "on" ELSE "off",
              own |-> IF s \in DOMAIN ov THEN ov[s].own ELSE FALSE]]

\* The file is opened for writing, which truncates it.
Open(a) ==
    /\ admin[a].pc = "toggle"
    /\ torn' = TRUE
    /\ admin' = [admin EXCEPT ![a] =
                    [pc |-> "write", slug |-> @.slug, on |-> @.on, over |-> FALSE,
                     overrides |-> Prune(@.catalog, Set(@.overrides, @.slug, @.on))]]
    /\ UNCHANGED <<catalog, overrides>>

\* The text is written from the start of the file.  When another request has
\* written a longer one since this one truncated it, the end of that is left.
Write(a) ==
    /\ admin[a].pc = "write"
    /\ torn' \in {FALSE, admin[a].over}
    /\ overrides' = admin[a].overrides
    /\ admin' = [b \in Admins |->
                   IF b = a THEN Idle
                   ELSE IF admin[b].pc = "write" THEN [admin[b] EXCEPT !.over = TRUE]
                   ELSE admin[b]]
    /\ UNCHANGED catalog

\* update_catalog fetches a catalog, and writes that.
AskUpdate(a) == Construct(a, [pc |-> "fetch"])

Update(a) ==
    /\ admin[a].pc = "fetch"
    /\ catalog' \in Catalogs
    /\ admin' = [admin EXCEPT ![a] = Idle]
    /\ UNCHANGED <<overrides, torn>>

\* The server dies; what it has truncated stays so.
Dies(a) ==
    /\ Crashes
    /\ admin[a].pc = "write"
    /\ admin' = [admin EXCEPT ![a] = Idle]
    /\ UNCHANGED <<catalog, overrides, torn>>

RunnersNext == \E a \in Admins :
    \/ \E s \in EntrySlugs, b \in BOOLEAN : AskToggle(a, s, b)
    \/ Open(a) \/ Write(a)
    \/ AskUpdate(a) \/ Update(a)
    \/ Dies(a)

RunnersSpec == RunnersInit /\ [][RunnersNext]_runnerVars
-----------------------------------------------------------------------------
Listed == DOMAIN catalog \cup DOMAIN Prune(catalog, overrides)
Offered == Resolved(catalog, overrides)

\* A preset that is offered can be used: a runner of its category is offered
\* with it, whatever was toggled and whatever catalog came in between.
PresetHasRunner ==
    \A p \in Presets \cap Offered : \E r \in Runners \cap Offered : CategoryOf[r] = CategoryOf[p]

\* When the file is written, the runner that was toggled is as asked, and no
\* other runner that the registry lists has changed.
ToggleIsExact ==
    \A a \in Admins : Write(a) =>
        \A r \in Runners \cap Listed :
            (r \in Offered') <=> IF r = admin[a].slug THEN admin[a].on ELSE r \in Offered

\* Where a toggle is exact: requests come one after the other, and no catalog
\* enables what it lists, as the bundled one does not.  (An override that
\* disables is pruned away: what the catalog enables stays enabled.)
OneAtATime == \A a, b \in Admins : a = b
CatalogsEnableNothing == \A c \in Catalogs : \A s \in DOMAIN c : c[s] # "on"

\* A preset that is offered has a runner at every moment, and a toggle changes
\* what it is asked to (services/registry.py).
RunnersOffered ==
    /\ [](RegTypeOK /\ PresetHasRunner)
    /\ [][OneAtATime /\ CatalogsEnableNothing => ToggleIsExact]_runnerVars
-----------------------------------------------------------------------------
(***************************************************************************)
(* The inductive invariant.                                                *)
(***************************************************************************)

\* What a request holds is of its type.
HoldsKnown(a) ==
    /\ admin[a].pc \in {"toggle", "write"} =>
          admin[a].slug \in EntrySlugs /\ admin[a].on \in BOOLEAN
    /\ admin[a].pc = "toggle" =>
          admin[a].catalog \in Catalogs /\ admin[a].overrides \in Overrides
    /\ admin[a].pc = "write" =>
          /\ admin[a].over \in BOOLEAN /\ admin[a].overrides \in Overrides
          /\ \A s \in DOMAIN admin[a].overrides : admin[a].overrides[s].enabled # "off"

\* A request that is alone works on the files as they are.
HoldsFresh(a) ==
    /\ admin[a].pc = "toggle" =>
          admin[a].catalog = catalog /\ admin[a].overrides = Prune(catalog, overrides)
    /\ admin[a].pc = "write" =>
          admin[a].overrides =
              Prune(catalog, Set(Prune(catalog, overrides), admin[a].slug, admin[a].on))

RunnersInv == /\ RegTypeOK
              /\ \A a \in Admins : HoldsKnown(a)
              /\ OneAtATime => \A a \in Admins : HoldsFresh(a)
=============================================================================
