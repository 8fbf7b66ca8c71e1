---------------------------- MODULE FilterAdmin -----------------------------
(***************************************************************************)
(* The filter in its surroundings: Server.New, which configures it from    *)
(* the config file and then from the database, and the HTTP handlers of    *)
(* internal/dashboard, each request in a goroutine of its own, that change *)
(* the filter and the database one after the other.                        *)
(***************************************************************************)
EXTENDS Filter

CONSTANTS
  Startup,       \* the goroutine of main; with Requests it makes up Callers
  Requests,      \* bound: HTTP requests at a time
  ConfigSources, \* the values cfg.Filter.Sources may have
  StoredSources, \* the sets of enabled URLs the database may hold
  ListDomains    \* the domains the administrator puts on the manual lists

ASSUME AdminAssumption ==
  /\ Callers = Requests \cup {Startup}
  /\ ConfigSources \subseteq SUBSET Sources
  /\ StoredSources \subseteq SUBSET Sources
  /\ ListDomains \subseteq Domains

VARIABLES
  phase,         \* where Server.New is, then "serving"
  job,           \* request |-> what it has still to do
  dbSources      \* the enabled block list URLs in the database

adminVars == <<phase, job, dbSources>>
vars == <<filterVars, adminVars>>

NoJob == [todo |-> "nothing"]
ReloadFrom(urls) == [todo |-> "reload", urls |-> urls]

Init ==
  /\ \E on \in BOOLEAN, urls \in ConfigSources : FilterInit(on, urls)
  /\ phase = "new"
  /\ job = [r \in Requests |-> NoJob]
  /\ dbSources \in StoredSources

-----------------------------------------------------------------------------
(* Server.New: filter.New, filter_enabled, the sources, ReloadIfNeeded.    *)

BootFilter ==
  /\ phase = "new"
  /\ IF enabled /\ sources # {} THEN Spawn ELSE UNCHANGED loads
  /\ IF enabled /\ AutoUpdate THEN startAutoUpdate ELSE UNCHANGED updateVars
  /\ phase' = "setting"
  /\ UNCHANGED <<enabled, sources, blockVars, listVars, stopped, setter, job, dbSources>>

(* SetEnabled is called if there is such a setting and it can be read.     *)
BootSetting ==
  /\ phase = "setting"
  /\ (\E v \in BOOLEAN : ReadWas(Startup, v)) \/ UNCHANGED setter
  /\ phase' = "sources"
  /\ UNCHANGED <<enabled, sources, blockVars, listVars, updateVars, stopped, loads, job, dbSources>>

(* The database cannot be opened: that is all. *)
BootWithoutDatabase ==
  /\ phase = "setting"
  /\ phase' = "serving"
  /\ UNCHANGED <<filterVars, job, dbSources>>

(* SetSources, unless the database has none or cannot be read *)
StoredURLs == {dbSources, {}}

SetSourcesFrom(urls) == sources' = IF urls = {} THEN sources ELSE urls

BootSources ==
  /\ phase = "sources"
  /\ setter[Startup] = NotSetting
  /\ \E urls \in StoredURLs : SetSourcesFrom(urls)
  /\ phase' = "reload"
  /\ UNCHANGED <<enabled, blockVars, listVars, updateVars, stopped, loads, setter, job, dbSources>>

BootReload ==
  /\ phase = "reload"
  /\ IF enabled THEN SpawnIfEmpty ELSE UNCHANGED loads
  /\ phase' = "serving"
  /\ UNCHANGED <<enabled, sources, blockVars, listVars, updateVars, stopped, setter, job, dbSources>>

BootStep == BootFilter \/ BootSetting \/ BootWithoutDatabase \/ BootSources \/ BootReload

-----------------------------------------------------------------------------
(* The handlers. *)

Free(r) == phase = "serving" /\ job[r] = NoJob /\ setter[r] = NotSetting

Then(r, j) == job' = [job EXCEPT ![r] = j]

(* handleFilterToggle and applySettings call SetEnabled.  The setting in   *)
(* the database, which the one writes after that and handleAdminSettings   *)
(* before the other, is in AdminState.                                     *)
Switch(r, v) ==
  /\ Free(r)
  /\ ReadWas(r, v)
  /\ UNCHANGED <<enabled, sources, blockVars, listVars, updateVars, stopped, loads, adminVars>>

(* handleFilterReload, handleAdminBlocklistReload *)
RequestReload(r) ==
  /\ Free(r)
  /\ \E urls \in StoredURLs : Then(r, ReloadFrom(urls))
  /\ UNCHANGED <<filterVars, phase, dbSources>>

(* Bound: as Loaders is finite, SetEnabled goes first; the code starts a   *)
(* goroutine without having to wait for one.                               *)
Reload(r) ==
  /\ job[r].todo = "reload"
  /\ \A c \in Callers : setter[c].step # "load"
  /\ SetSourcesFrom(job[r].urls)
  /\ Spawn
  /\ Then(r, NoJob)
  /\ UNCHANGED <<enabled, blockVars, listVars, updateVars, stopped, setter, phase, dbSources>>

(* Sources are added, removed, enabled and disabled in the database only. *)
EditSources ==
  /\ phase = "serving"
  /\ dbSources' \in StoredSources \ {dbSources}
  /\ UNCHANGED <<filterVars, phase, job>>

(* The white- and blacklist handlers, and Server.New for what is stored. *)
EditLists(d) ==
  /\ phase # "new"
  /\ \/ AddToWhitelist(d) \/ RemoveFromWhitelist(d)
     \/ AddToBlacklist(d) \/ RemoveFromBlacklist(d)
  /\ UNCHANGED adminVars

Shutdown == phase = "serving" /\ Stop /\ UNCHANGED adminVars

Own(A) == A /\ UNCHANGED adminVars

SetterRuns(c) == Own(SetEnabledStep(c))
LoaderRuns(l) == Own(LoadStep(l))
UpdaterRuns(u) == Own(UpdateTick(u) \/ UpdaterStops(u))

Next ==
  \/ BootStep
  \/ \E r \in Requests, v \in BOOLEAN : Switch(r, v)
  \/ \E r \in Requests : RequestReload(r) \/ Reload(r)
  \/ \E c \in Callers : SetterRuns(c)
  \/ \E l \in Loaders \cup Updaters : LoaderRuns(l)
  \/ \E u \in Updaters : UpdaterRuns(u)
  \/ EditSources
  \/ \E d \in ListDomains : EditLists(d)
  \/ Shutdown

(***************************************************************************)
(* Goroutines are scheduled and downloads end by their timeout.  Ticks of  *)
(* the updater come once a day: nothing below may rely on one.             *)
(***************************************************************************)
Fairness ==
  /\ WF_vars(BootStep)
  /\ \A r \in Requests : WF_vars(Reload(r))
  /\ \A c \in Callers : WF_vars(SetterRuns(c))
  /\ \A l \in Loaders \cup Updaters : WF_vars(LoaderRuns(l))

Spec == Init /\ [][Next]_vars /\ Fairness

-----------------------------------------------------------------------------
TypeOK ==
  /\ enabled \in BOOLEAN /\ running \in BOOLEAN /\ stopped \in BOOLEAN /\ loaded \in BOOLEAN
  /\ sources \subseteq Sources /\ dbSources \subseteq Sources
  /\ blocked \subseteq Domains /\ whitelist \subseteq Domains /\ blacklist \subseteq Domains
  /\ alive \subseteq Updaters
  /\ \A l \in Loaders \cup Updaters :
       loads[l].pc \in {"off", "ready", "reading"} /\ loads[l].got \subseteq Domains
  /\ \A u \in Updaters : loads[u].pc # "ready" /\ (loads[u].pc = "reading" => u \in alive)
  /\ setter \in [Callers -> [step : {"none", "write", "load", "update"},
                             want : BOOLEAN, was : BOOLEAN]]
  /\ phase \in {"new", "setting", "sources", "reload", "serving"}
  /\ \A r \in Requests : job[r].todo \in {"nothing", "reload"}

(***************************************************************************)
(* There is never more than one autoUpdate goroutine, however often and by *)
(* whom the filter is switched on and off, and autoUpdateRunning tells     *)
(* truly whether there is one.                                             *)
(***************************************************************************)
OneUpdater == Cardinality(alive) = (IF running THEN 1 ELSE 0)

(***************************************************************************)
(* No gap: a name that is blocked stays blocked through every reload and   *)
(* update, with loads overlapping and the switch and the lists changing,   *)
(* until the filter is off, the name is put on the whitelist or taken from *)
(* the blacklist, or a load ends that has not read it on any list.         *)
(***************************************************************************)
EndsWithout(l, names) ==
  /\ loads[l].pc = "reading" /\ loads'[l].pc = "off"
  /\ loads[l].got \cap names = {}

BlockedStaysBlocked ==
  [][ \A d \in Domains : IsBlocked(d) =>
        \/ IsBlocked(d)'
        \/ ~enabled'
        \/ d \in whitelist'
        \/ d \in blacklist \ blacklist'
        \/ \E l \in Loaders \cup Updaters : EndsWithout(l, {d} \cup Parents[d]) ]_vars

(***************************************************************************)
(* Whoever switched the filter on, and whatever others switched meanwhile: *)
(* if it stays on, the updater comes to run (unless Stop was called).      *)
(***************************************************************************)
EnabledIsUpdated == (enabled /\ phase = "serving") ~> (running \/ ~enabled \/ stopped)

(***************************************************************************)
(* A filter that is on and has sources is not left waiting for the updater *)
(* to read its lists for the first time: New, SetEnabled, ReloadIfNeeded   *)
(* or a reload has started a load, and that comes to its end.              *)
(***************************************************************************)
EnabledHasLists == (enabled /\ sources # {}) ~> (loaded \/ ~enabled)
=============================================================================
