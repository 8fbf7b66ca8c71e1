------------------------------- MODULE Filter -------------------------------
(***************************************************************************)
(* internal/filter: the lists a query name is checked against, and the     *)
(* goroutines that load the block lists.  LoadBlocklists runs in           *)
(* goroutines spawned on several occasions and, periodically, in the one   *)
(* of autoUpdate; nothing keeps two loads from running at the same time.   *)
(* `enabled' and `sources' are read without the mutex.                     *)
(*                                                                         *)
(* The module has the filter's own steps; FilterAdmin composes them with   *)
(* the start of the server, the HTTP handlers and the database.            *)
(***************************************************************************)
EXTENDS FiniteSets

CONSTANTS
  Domains,     \* canonical names
  Parents,     \* domain |-> the domains above it
  Sources,     \* block list URLs
  Content,     \* source |-> the domains it lists
  Local,       \* the domains listed in the files of BlocklistDir
  Loaders,     \* bound: goroutines of `go LoadBlocklists()'
  Updaters,    \* bound: goroutines of autoUpdate
  Callers,     \* goroutines that call SetEnabled
  AutoUpdate   \* whether UpdateInterval is positive

ASSUME FilterAssumption ==
  /\ Parents \in [Domains -> SUBSET Domains]
  /\ Content \in [Sources -> SUBSET Domains]
  /\ Local \subseteq Domains
  /\ Loaders \cap Updaters = {}
  /\ AutoUpdate \in BOOLEAN

VARIABLES
  enabled,     \* f.enabled
  sources,     \* f.sources
  blocked,     \* f.blocked
  whitelist,   \* f.whitelist
  blacklist,   \* f.blacklist
  running,     \* f.autoUpdateRunning
  loaded,      \* (history) a load has ended
  alive,       \* the autoUpdate goroutines that exist
  stopped,     \* stopChan is closed
  loads,       \* loader or updater |-> the LoadBlocklists it runs
  setter       \* caller |-> where it is in SetEnabled

listVars == <<whitelist, blacklist>>
blockVars == <<blocked, loaded>>
updateVars == <<running, alive>>
filterVars == <<enabled, sources, blockVars, listVars, updateVars, stopped, loads, setter>>

NoLoad == [pc |-> "off", got |-> {}]
Spawned == [pc |-> "ready", got |-> {}]
Reading(got) == [pc |-> "reading", got |-> got]

NotSetting == [step |-> "none", want |-> FALSE, was |-> FALSE]

(* The filter New makes, before it spawns anything. *)
FilterInit(on, urls) ==
  /\ enabled = on
  /\ sources = urls
  /\ blocked = {}
  /\ loaded = FALSE
  /\ whitelist = {}
  /\ blacklist = {}
  /\ running = FALSE
  /\ alive = {}
  /\ stopped = FALSE
  /\ loads = [l \in Loaders \cup Updaters |-> NoLoad]
  /\ setter = [c \in Callers |-> NotSetting]

(* The whitelist first, names as they are; then the blacklist, names as    *)
(* they are; then the block lists, which cover subdomains too.             *)
IsBlocked(d) ==
  /\ enabled
  /\ d \notin whitelist
  /\ d \in blacklist \/ ({d} \cup Parents[d]) \cap blocked # {}

-----------------------------------------------------------------------------
(* LoadBlocklists.  A load reads f.sources when its goroutine gets to run, *)
(* collects in a map of its own, and puts that in place at the end.        *)

(* Goroutines have no names: any one of the free ones stands for all. *)
Spawn ==
  LET free == {l \in Loaders : loads[l].pc = "off"}
  IN  /\ free # {}
      /\ loads' = [loads EXCEPT ![CHOOSE l \in free : TRUE] = Spawned]

Listed(urls) == UNION {Content[s] : s \in urls}

(* What a load may come to read.  A source, the directory or a file of it  *)
(* that cannot be opened is skipped, one that breaks off counts as far as  *)
(* it came; none of that is a reason to keep the old list.                 *)
Readable == SUBSET (Listed(sources) \cup Local)

(* Mutant: the map in use is emptied and filled again. *)
BeginLoadInPlace(l) ==
  /\ loads[l].pc = "ready"
  /\ \E got \in Readable : loads' = [loads EXCEPT ![l] = Reading(got)]
  /\ blocked' = {}
  /\ UNCHANGED <<enabled, sources, loaded, listVars, updateVars, stopped, setter>>

(* The sources are those of this moment.  Which of the domains the load    *)
(* will have read in the end is chosen here: nobody sees them before that. *)
BeginLoad(l) ==
  /\ loads[l].pc = "ready"
  /\ \E got \in Readable : loads' = [loads EXCEPT ![l] = Reading(got)]
  /\ UNCHANGED <<enabled, sources, blockVars, listVars, updateVars, stopped, setter>>

Publish(l) ==
  /\ loads[l].pc = "reading"
  /\ blocked' = loads[l].got
  /\ loaded' = TRUE
  /\ loads' = [loads EXCEPT ![l] = NoLoad]
  /\ UNCHANGED <<enabled, sources, listVars, updateVars, stopped, setter>>

LoadStep(l) == BeginLoad(l) \/ Publish(l)

-----------------------------------------------------------------------------
(* startAutoUpdate and the goroutine it starts. *)

(* Mutant: autoUpdateRunning is not looked at. *)
startAnotherUpdate ==
  /\ running' = TRUE
  /\ alive # Updaters
  /\ alive' = alive \cup {CHOOSE u \in Updaters \ alive : TRUE}

startAutoUpdate ==
  IF running
  THEN UNCHANGED updateVars
  ELSE /\ running' = TRUE
       /\ alive # Updaters
       /\ alive' = alive \cup {CHOOSE u \in Updaters \ alive : TRUE}

UpdateTick(u) ==
  /\ u \in alive
  /\ loads[u].pc = "off"
  /\ enabled
  /\ \E got \in Readable : loads' = [loads EXCEPT ![u] = Reading(got)]
  /\ UNCHANGED <<enabled, sources, blockVars, listVars, updateVars, stopped, setter>>

UpdaterStops(u) ==
  /\ u \in alive
  /\ loads[u].pc = "off"
  /\ stopped
  /\ running' = FALSE
  /\ alive' = alive \ {u}
  /\ UNCHANGED <<enabled, sources, blockVars, listVars, stopped, loads, setter>>

Stop ==
  /\ ~stopped
  /\ stopped' = TRUE
  /\ UNCHANGED <<enabled, sources, blockVars, listVars, updateVars, loads, setter>>

-----------------------------------------------------------------------------
(* SetEnabled(v), called by c: the old value is read, the new one written, *)
(* and if that enabled the filter, a load and the updater are started.     *)

ReadWas(c, v) ==
  /\ setter[c] = NotSetting
  /\ setter' = [setter EXCEPT ![c] = [step |-> "write", want |-> v, was |-> enabled]]

SetterEnds(c) == setter' = [setter EXCEPT ![c] = NotSetting]

(* Mutant: wasEnabled is read after the write. *)
WriteBeforeRead(c) ==
  /\ setter[c].step = "write"
  /\ enabled' = setter[c].want
  /\ SetterEnds(c)
  /\ UNCHANGED <<sources, blockVars, listVars, updateVars, stopped, loads>>

WriteEnabled(c) ==
  /\ setter[c].step = "write"
  /\ enabled' = setter[c].want
  /\ IF setter[c].want /\ ~setter[c].was
     THEN setter' = [setter EXCEPT ![c].step = "load"]
     ELSE SetterEnds(c)
  /\ UNCHANGED <<sources, blockVars, listVars, updateVars, stopped, loads>>

(* Mutant: the lists are loaded again, never for the first time. *)
SpawnIfLoaded == IF blocked # {} /\ sources # {} THEN Spawn ELSE UNCHANGED loads

SpawnIfEmpty == IF blocked = {} /\ sources # {} THEN Spawn ELSE UNCHANGED loads

LoadIfEmpty(c) ==
  /\ setter[c].step = "load"
  /\ SpawnIfEmpty
  /\ IF AutoUpdate
     THEN setter' = [setter EXCEPT ![c].step = "update"]
     ELSE SetterEnds(c)
  /\ UNCHANGED <<enabled, sources, blockVars, listVars, updateVars, stopped>>

StartUpdates(c) ==
  /\ setter[c].step = "update"
  /\ startAutoUpdate
  /\ SetterEnds(c)
  /\ UNCHANGED <<enabled, sources, blockVars, listVars, stopped, loads>>

SetEnabledStep(c) == WriteEnabled(c) \/ LoadIfEmpty(c) \/ StartUpdates(c)

-----------------------------------------------------------------------------
(* The manual lists. *)

ListsChange(white, black) ==
  /\ whitelist' = white
  /\ blacklist' = black
  /\ UNCHANGED <<enabled, sources, blockVars, updateVars, stopped, loads, setter>>

AddToWhitelist(d) == ListsChange(whitelist \cup {d}, blacklist)
RemoveFromWhitelist(d) == ListsChange(whitelist \ {d}, blacklist)
AddToBlacklist(d) == ListsChange(whitelist, blacklist \cup {d})
RemoveFromBlacklist(d) == ListsChange(whitelist, blacklist \ {d})
=============================================================================
