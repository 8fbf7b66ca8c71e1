---------------------------- MODULE FilterProofs ----------------------------
(***************************************************************************)
(* However the filter is switched on and off, there is one updater at most *)
(* and autoUpdateRunning tells whether there is; a name that is blocked    *)
(* stays blocked until a load ends that has not read it; and the types:    *)
(* for any numbers of callers, loaders, requests and updaters.             *)
(***************************************************************************)
EXTENDS FilterAdmin, FiniteSetTheorems, TLAPS

(* The invariant without Cardinality: which goroutine it is. *)
UpdaterInv ==
  /\ running \in BOOLEAN
  /\ running => \E u \in Updaters : alive = {u}
  /\ ~running => alive = {}

(***************************************************************************)
(* The goroutine is started under autoUpdateMu, and only when there is     *)
(* none.                                                                   *)
(***************************************************************************)
LEMMA StartKeepsInv ==
  ASSUME UpdaterInv, startAutoUpdate
  PROVE  UpdaterInv'
<1>1. CASE running
  BY <1>1 DEF UpdaterInv, startAutoUpdate, updateVars
<1>2. CASE ~running
  <2>1. alive = {} /\ Updaters \ alive # {} /\ running' = TRUE
    BY <1>2, Zenon DEF UpdaterInv, startAutoUpdate
  <2>2. (CHOOSE u \in Updaters \ alive : TRUE) \in Updaters
    BY <2>1
  <2>3. alive' = {CHOOSE u \in Updaters \ alive : TRUE}
    BY <1>2, <2>1 DEF startAutoUpdate
  <2> QED
    BY <2>1, <2>2, <2>3, Zenon DEF UpdaterInv
<1> QED
  BY <1>1, <1>2

(***************************************************************************)
(* It clears autoUpdateRunning, under the same mutex, when it ends.        *)
(***************************************************************************)
LEMMA StopKeepsInv ==
  ASSUME UpdaterInv, NEW u \in Updaters, UpdaterStops(u)
  PROVE  UpdaterInv'
<1>1. alive = {u}
  BY DEF UpdaterInv, UpdaterStops
<1> QED
  BY <1>1 DEF UpdaterInv, UpdaterStops

(* Updating only the rest of the state changes nothing about the updater. *)
LEMMA OthersKeepInv ==
  ASSUME UpdaterInv, UNCHANGED updateVars
  PROVE  UpdaterInv'
BY DEF UpdaterInv, updateVars

(***************************************************************************)
(* UpdaterInv is inductive.                                                *)
(***************************************************************************)
LEMMA NextKeepsInv ==
  ASSUME UpdaterInv, [Next]_vars
  PROVE  UpdaterInv'
<1>1. CASE BootStep
  <2>1. CASE BootFilter
    BY <2>1, StartKeepsInv, OthersKeepInv DEF BootFilter
  <2>2. CASE BootSetting \/ BootWithoutDatabase \/ BootSources \/ BootReload
    BY <2>2, OthersKeepInv DEF BootSetting, BootWithoutDatabase, BootSources, BootReload, filterVars
  <2> QED
    BY <1>1, <2>1, <2>2 DEF BootStep
<1>2. ASSUME NEW r \in Requests, NEW v \in BOOLEAN, Switch(r, v)
      PROVE  UpdaterInv'
  BY <1>2, OthersKeepInv DEF Switch
<1>3. ASSUME NEW r \in Requests, RequestReload(r) \/ Reload(r)
      PROVE  UpdaterInv'
  BY <1>3, OthersKeepInv DEF RequestReload, Reload, filterVars
<1>4. ASSUME NEW c \in Callers, SetterRuns(c)
      PROVE  UpdaterInv'
  <2>1. CASE StartUpdates(c)
    BY <2>1, StartKeepsInv DEF StartUpdates
  <2>2. CASE WriteEnabled(c) \/ LoadIfEmpty(c)
    BY <2>2, OthersKeepInv DEF WriteEnabled, LoadIfEmpty
  <2> QED
    BY <1>4, <2>1, <2>2 DEF SetterRuns, Own, SetEnabledStep
<1>5. ASSUME NEW l \in Loaders \cup Updaters, LoaderRuns(l)
      PROVE  UpdaterInv'
  BY <1>5, OthersKeepInv DEF LoaderRuns, Own, LoadStep, BeginLoad, Publish
<1>6. ASSUME NEW u \in Updaters, UpdaterRuns(u)
      PROVE  UpdaterInv'
  BY <1>6, StopKeepsInv, OthersKeepInv DEF UpdaterRuns, Own, UpdateTick
<1>7. CASE EditSources
  BY <1>7, OthersKeepInv DEF EditSources, filterVars
<1>8. ASSUME NEW d \in ListDomains, EditLists(d)
      PROVE  UpdaterInv'
  BY <1>8, OthersKeepInv
     DEF EditLists, AddToWhitelist, RemoveFromWhitelist, AddToBlacklist,
         RemoveFromBlacklist, ListsChange
<1>9. CASE Shutdown
  BY <1>9, OthersKeepInv DEF Shutdown, Stop
<1>10. CASE UNCHANGED vars
  BY <1>10, OthersKeepInv DEF vars, filterVars
<1> QED
  BY <1>1, <1>2, <1>3, <1>4, <1>5, <1>6, <1>7, <1>8, <1>9, <1>10 DEF Next

(***************************************************************************)
(* There is one goroutine of autoUpdate if autoUpdateRunning is set, and   *)
(* none otherwise.                                                         *)
(***************************************************************************)
THEOREM OneUpdaterHolds == Spec => []OneUpdater
<1>1. Init => UpdaterInv
  BY DEF Init, FilterInit, UpdaterInv
<1>2. UpdaterInv /\ [Next]_vars => UpdaterInv'
  BY NextKeepsInv
<1>3. UpdaterInv => OneUpdater
  BY FS_EmptySet, FS_Singleton DEF UpdaterInv, OneUpdater
<1> QED
  BY <1>1, <1>2, <1>3, PTL DEF Spec

-----------------------------------------------------------------------------
(* Types.  The steps of the filter come first, in the variables they       *)
(* change.                                                                 *)

FlagsOK == enabled \in BOOLEAN /\ stopped \in BOOLEAN /\ loaded \in BOOLEAN

SetsOK ==
  /\ sources \subseteq Sources /\ dbSources \subseteq Sources
  /\ blocked \subseteq Domains /\ whitelist \subseteq Domains /\ blacklist \subseteq Domains

LoadsOK ==
  /\ loads \in [Loaders \cup Updaters -> [pc : {"off", "ready", "reading"}, got : SUBSET Domains]]
  /\ \A u \in Updaters : loads[u].pc # "ready" /\ (loads[u].pc = "reading" => u \in alive)
  /\ alive \subseteq Updaters

SetterOK ==
  setter \in [Callers -> [step : {"none", "write", "load", "update"},
                          want : BOOLEAN, was : BOOLEAN]]

JobTypes == [todo : {"nothing"}] \cup [todo : {"reload"}, urls : SUBSET Sources]

JobsOK ==
  /\ phase \in {"new", "setting", "sources", "reload", "serving"}
  /\ job \in [Requests -> JobTypes]

TypeInv == FlagsOK /\ SetsOK /\ LoadsOK /\ SetterOK /\ JobsOK

LEMMA SpawnTyped ==
  ASSUME LoadsOK, Spawn, UNCHANGED alive
  PROVE  LoadsOK'
<1> DEFINE free == {l \in Loaders : loads[l].pc = "off"}
           one == CHOOSE l \in free : TRUE
<1>1. free # {} /\ loads' = [loads EXCEPT ![one] = Spawned]
  BY DEF Spawn
<1>2. one \in Loaders \ Updaters
  BY <1>1, FilterAssumption
<1>3. Spawned \in [pc : {"off", "ready", "reading"}, got : SUBSET Domains]
  BY DEF Spawned
<1> HIDE DEF one
<1> QED
  BY <1>1, <1>2, <1>3 DEF LoadsOK

LEMMA StartTyped ==
  ASSUME UpdaterInv, LoadsOK, startAutoUpdate, UNCHANGED loads
  PROVE  LoadsOK'
<1>1. CASE running
  BY <1>1 DEF startAutoUpdate, updateVars, LoadsOK
<1>2. CASE ~running
  <2>1. alive = {} /\ Updaters \ alive # {}
    BY <1>2, Zenon DEF UpdaterInv, startAutoUpdate
  <2>2. (CHOOSE u \in Updaters \ alive : TRUE) \in Updaters
    BY <2>1
  <2> QED
    BY <1>2, <2>1, <2>2 DEF startAutoUpdate, LoadsOK
<1> QED
  BY <1>1, <1>2

LEMMA ReadWasTyped ==
  ASSUME FlagsOK, SetterOK, NEW c \in Callers, NEW v \in BOOLEAN, ReadWas(c, v)
  PROVE  SetterOK'
BY DEF ReadWas, SetterOK, FlagsOK

LEMMA BootTyped ==
  ASSUME TypeInv, UpdaterInv, BootStep
  PROVE  TypeInv'
<1>1. Startup \in Callers
  BY AdminAssumption
<1>2. CASE BootFilter
  <2>1. LoadsOK'
    <3>1. CASE enabled /\ sources # {} /\ AutoUpdate
      <4>1. Spawn /\ startAutoUpdate
        BY <1>2, <3>1 DEF BootFilter
      <4>2. running \/ Updaters \ alive # {}
        BY <4>1, Zenon DEF startAutoUpdate, UpdaterInv
      <4>3. \/ UNCHANGED alive
            \/ alive = {} /\ alive' = {CHOOSE u \in Updaters \ alive : TRUE}
        BY <4>1, Zenon DEF startAutoUpdate, updateVars, UpdaterInv
      <4>4. CASE UNCHANGED alive
        BY <4>1, <4>4, SpawnTyped DEF TypeInv
      <4>5. CASE alive = {} /\ alive' = {CHOOSE u \in Updaters \ alive : TRUE} /\ ~(UNCHANGED alive)
        <5>1. alive' \subseteq Updaters
          BY <4>1, <4>2, <4>5, Zenon DEF startAutoUpdate, updateVars
        <5> DEFINE free == {l \in Loaders : loads[l].pc = "off"}
                   one == CHOOSE l \in free : TRUE
        <5>2. free # {} /\ loads' = [loads EXCEPT ![one] = Spawned]
          BY <4>1 DEF Spawn
        <5>3. one \in Loaders \ Updaters
          BY <5>2, FilterAssumption
        <5>4. Spawned \in [pc : {"off", "ready", "reading"}, got : SUBSET Domains]
          BY DEF Spawned
        <5> HIDE DEF one
        <5> QED
          BY <4>5, <5>1, <5>2, <5>3, <5>4 DEF LoadsOK, TypeInv
      <4> QED
        BY <4>3, <4>4, <4>5
    <3>2. CASE ~(enabled /\ sources # {}) /\ enabled /\ AutoUpdate
      BY <1>2, <3>2, StartTyped DEF BootFilter, TypeInv
    <3>3. CASE enabled /\ sources # {} /\ ~AutoUpdate
      BY <1>2, <3>3, SpawnTyped DEF BootFilter, TypeInv, updateVars
    <3>4. CASE ~enabled \/ (sources = {} /\ ~AutoUpdate)
      BY <1>2, <3>4 DEF BootFilter, TypeInv, LoadsOK, updateVars
    <3> QED
      BY <3>1, <3>2, <3>3, <3>4
  <2> QED
    BY <1>2, <2>1 DEF BootFilter, TypeInv, FlagsOK, SetsOK, SetterOK, JobsOK, listVars, blockVars
<1>3. CASE BootSetting
  <2>1. SetterOK'
    <3>1. CASE \E v \in BOOLEAN : ReadWas(Startup, v)
      BY <1>1, <3>1, ReadWasTyped DEF TypeInv
    <3>2. CASE UNCHANGED setter
      BY <3>2 DEF TypeInv, SetterOK
    <3> QED
      BY <1>3, <3>1, <3>2 DEF BootSetting
  <2> QED
    BY <1>3, <2>1 DEF BootSetting, TypeInv, FlagsOK, SetsOK, LoadsOK, JobsOK, listVars, updateVars, blockVars
<1>4. CASE BootSources
  BY <1>4 DEF BootSources, StoredURLs, SetSourcesFrom, TypeInv, FlagsOK, SetsOK, LoadsOK, SetterOK,
              JobsOK, listVars, updateVars, blockVars
<1>6. CASE BootWithoutDatabase
  BY <1>6 DEF BootWithoutDatabase, filterVars, TypeInv, FlagsOK, SetsOK, LoadsOK, SetterOK, JobsOK,
              listVars, updateVars, blockVars
<1>5. CASE BootReload
  <2>1. LoadsOK'
    BY <1>5, SpawnTyped DEF BootReload, SpawnIfEmpty, TypeInv, updateVars, LoadsOK
  <2> QED
    BY <1>5, <2>1 DEF BootReload, TypeInv, FlagsOK, SetsOK, SetterOK, JobsOK, listVars, updateVars,
                     blockVars
<1> QED
  BY <1>2, <1>3, <1>4, <1>5, <1>6 DEF BootStep

(* The HTTP handlers: SetEnabled is entered with a Boolean, Reload with    *)
(* sources.                                                                *)
LEMMA HandlersTyped ==
  ASSUME TypeInv, NEW r \in Requests,
         \/ \E v \in BOOLEAN : Switch(r, v)
         \/ RequestReload(r)
         \/ Reload(r)
  PROVE  TypeInv'
<1> USE DEF TypeInv
<1> r \in Callers
  BY AdminAssumption
<1>1. ASSUME NEW v \in BOOLEAN, Switch(r, v)
      PROVE  TypeInv'
  <2>1. SetterOK'
    BY <1>1, ReadWasTyped DEF Switch
  <2> QED
    BY <1>1, <2>1
       DEF Switch, adminVars, JobsOK, FlagsOK, SetsOK, LoadsOK, listVars, updateVars, blockVars
<1>2. CASE RequestReload(r)
  <2>1. JobsOK'
    BY <1>2 DEF RequestReload, StoredURLs, Then, ReloadFrom, JobsOK, JobTypes, SetsOK
  <2> QED
    BY <1>2, <2>1
       DEF RequestReload, filterVars, FlagsOK, SetsOK, LoadsOK, SetterOK, listVars, updateVars,
           blockVars
<1>3. NoJob \in JobTypes
  BY DEF NoJob, JobTypes
<1>4. CASE Reload(r)
  <2>1. job[r].urls \subseteq Sources
    BY <1>4 DEF Reload, JobsOK, JobTypes
  <2>2. JobsOK'
    BY <1>3, <1>4 DEF Reload, Then, JobsOK
  <2>3. LoadsOK'
    BY <1>4, SpawnTyped DEF Reload, updateVars
  <2> QED
    BY <1>4, <2>1, <2>2, <2>3
       DEF Reload, SetSourcesFrom, FlagsOK, SetsOK, SetterOK, listVars, blockVars
<1> QED
  BY <1>1, <1>2, <1>4

(* SetEnabled, step by step. *)
LEMMA SetterTyped ==
  ASSUME TypeInv, UpdaterInv, NEW c \in Callers, SetterRuns(c)
  PROVE  TypeInv'
<1> USE DEF TypeInv
<1>1. SetterEnds(c) => SetterOK'
  BY DEF SetterEnds, NotSetting, SetterOK
<1>2. CASE WriteEnabled(c)
  <2>1. setter[c].want \in BOOLEAN
    BY DEF SetterOK
  <2>2. SetterOK'
    BY <1>1, <1>2 DEF WriteEnabled, SetterOK
  <2> QED
    BY <1>2, <2>1, <2>2
       DEF SetterRuns, Own, WriteEnabled, adminVars, FlagsOK, SetsOK, LoadsOK, JobsOK,
           listVars, updateVars, blockVars
<1>3. CASE LoadIfEmpty(c)
  <2>1. SetterOK'
    BY <1>1, <1>3 DEF LoadIfEmpty, SetterOK
  <2>2. LoadsOK'
    BY <1>3, SpawnTyped DEF LoadIfEmpty, SpawnIfEmpty, updateVars, LoadsOK
  <2> QED
    BY <1>3, <2>1, <2>2
       DEF SetterRuns, Own, LoadIfEmpty, adminVars, FlagsOK, SetsOK, JobsOK, listVars, blockVars
<1>4. CASE StartUpdates(c)
  <2>1. LoadsOK'
    BY <1>4, StartTyped DEF StartUpdates
  <2> QED
    BY <1>1, <1>4, <2>1
       DEF SetterRuns, Own, StartUpdates, adminVars, FlagsOK, SetsOK, JobsOK, listVars, blockVars
<1> QED
  BY <1>2, <1>3, <1>4 DEF SetterRuns, Own, SetEnabledStep

(* A load reads domains only, whatever part of its lists it can read.      *)
LEMMA ReadableTyped ==
  ASSUME TypeInv, NEW got \in Readable
  PROVE  Reading(got) \in [pc : {"off", "ready", "reading"}, got : SUBSET Domains]
<1>1. got \subseteq Domains
  BY FilterAssumption DEF Readable, Listed, TypeInv, SetsOK
<1> QED
  BY <1>1 DEF Reading

LEMMA LoaderTyped ==
  ASSUME TypeInv, NEW l \in Loaders \cup Updaters, LoaderRuns(l)
  PROVE  TypeInv'
<1> USE DEF TypeInv
<1>1. CASE BeginLoad(l)
  <2>1. LoadsOK'
    BY <1>1, ReadableTyped DEF BeginLoad, Reading, LoadsOK, updateVars
  <2> QED
    BY <1>1, <2>1
       DEF LoaderRuns, Own, BeginLoad, adminVars, FlagsOK, SetsOK, SetterOK, JobsOK, listVars,
           blockVars
<1>2. CASE Publish(l)
  <2>1. LoadsOK'
    BY <1>2 DEF Publish, NoLoad, LoadsOK, updateVars
  <2>2. blocked' \subseteq Domains
    BY <1>2 DEF Publish, LoadsOK
  <2> QED
    BY <1>2, <2>1, <2>2
       DEF LoaderRuns, Own, Publish, adminVars, FlagsOK, SetsOK, SetterOK, JobsOK, listVars
<1> QED
  BY <1>1, <1>2 DEF LoaderRuns, Own, LoadStep

(* The updater loads only while it lives, and ends between two loads. *)
LEMMA UpdaterTyped ==
  ASSUME TypeInv, NEW u \in Updaters, UpdaterRuns(u)
  PROVE  TypeInv'
<1> USE DEF TypeInv
<1>1. CASE UpdateTick(u)
  <2>1. LoadsOK'
    BY <1>1, ReadableTyped DEF UpdateTick, Reading, LoadsOK, updateVars
  <2> QED
    BY <1>1, <2>1
       DEF UpdaterRuns, Own, UpdateTick, adminVars, FlagsOK, SetsOK, SetterOK, JobsOK, listVars,
           blockVars
<1>2. CASE UpdaterStops(u)
  <2>1. LoadsOK'
    BY <1>2 DEF UpdaterStops, LoadsOK
  <2> QED
    BY <1>2, <2>1
       DEF UpdaterRuns, Own, UpdaterStops, adminVars, FlagsOK, SetsOK, SetterOK, JobsOK, listVars,
           blockVars
<1> QED
  BY <1>1, <1>2 DEF UpdaterRuns, Own

(* TypeInv is inductive, relative to UpdaterInv. *)
LEMMA NextTyped ==
  ASSUME TypeInv, UpdaterInv, [Next]_vars
  PROVE  TypeInv'
<1>1. CASE EditSources
  BY <1>1, AdminAssumption
     DEF EditSources, filterVars, listVars, updateVars, TypeInv, FlagsOK, SetsOK, LoadsOK,
         SetterOK, JobsOK, blockVars
<1>2. ASSUME NEW d \in ListDomains, EditLists(d)
      PROVE  TypeInv'
  BY <1>2, AdminAssumption
     DEF EditLists, AddToWhitelist, RemoveFromWhitelist, AddToBlacklist, RemoveFromBlacklist,
         ListsChange, adminVars, updateVars, blockVars, TypeInv, FlagsOK, SetsOK, LoadsOK, SetterOK,
         JobsOK
<1>3. CASE Shutdown
  BY <1>3 DEF Shutdown, Stop, adminVars, listVars, updateVars, TypeInv, FlagsOK, SetsOK, LoadsOK,
              SetterOK, JobsOK, blockVars
<1>4. CASE UNCHANGED vars
  BY <1>4 DEF vars, filterVars, adminVars, listVars, updateVars, TypeInv, FlagsOK, SetsOK, LoadsOK,
              SetterOK, JobsOK, blockVars
<1>5. ASSUME NEW r \in Requests, NEW v \in BOOLEAN, Switch(r, v)
      PROVE  TypeInv'
  BY <1>5, HandlersTyped
<1>6. ASSUME NEW r \in Requests, RequestReload(r) \/ Reload(r)
      PROVE  TypeInv'
  BY <1>6, HandlersTyped
<1>7. ASSUME NEW c \in Callers, SetterRuns(c)
      PROVE  TypeInv'
  BY <1>7, SetterTyped
<1>8. ASSUME NEW l \in Loaders \cup Updaters, LoaderRuns(l)
      PROVE  TypeInv'
  BY <1>8, LoaderTyped
<1>9. ASSUME NEW u \in Updaters, UpdaterRuns(u)
      PROVE  TypeInv'
  BY <1>9, UpdaterTyped
<1>10. CASE BootStep
  BY <1>10, BootTyped
<1> QED
  BY <1>1, <1>2, <1>3, <1>4, <1>5, <1>6, <1>7, <1>8, <1>9, <1>10 DEF Next

(* Both invariants together, for the theorems that follow. *)
LEMMA InvHolds == Spec => [](TypeInv /\ UpdaterInv)
<1>1. Init => TypeInv /\ UpdaterInv
  <2> SUFFICES ASSUME Init
               PROVE  TypeInv /\ UpdaterInv
    OBVIOUS
  <2>1. UpdaterInv /\ FlagsOK
    BY DEF Init, FilterInit, UpdaterInv, FlagsOK
  <2>2. SetsOK
    BY AdminAssumption DEF Init, FilterInit, SetsOK
  <2>3. LoadsOK
    BY DEF Init, FilterInit, NoLoad, LoadsOK
  <2>4. SetterOK
    BY DEF Init, FilterInit, NotSetting, SetterOK
  <2>5. JobsOK
    BY DEF Init, NoJob, JobsOK, JobTypes
  <2> QED
    BY <2>1, <2>2, <2>3, <2>4, <2>5 DEF TypeInv
<1>2. TypeInv /\ UpdaterInv /\ [Next]_vars => (TypeInv /\ UpdaterInv)'
  BY NextTyped, NextKeepsInv
<1> QED
  BY <1>1, <1>2, PTL DEF Spec

(***************************************************************************)
(* The state of the filter, its goroutines and the handlers keeps its      *)
(* types; an updater that is loading is alive.                             *)
(***************************************************************************)
THEOREM TypeCorrect == Spec => []TypeOK
<1>1. TypeInv /\ UpdaterInv => TypeOK
  <2> SUFFICES ASSUME TypeInv, UpdaterInv
               PROVE  TypeOK
    OBVIOUS
  <2>1. \A r \in Requests : job[r].todo \in {"nothing", "reload"}
    BY DEF TypeInv, JobsOK, JobTypes
  <2> QED
    BY <2>1 DEF TypeInv, UpdaterInv, FlagsOK, SetsOK, LoadsOK, SetterOK, JobsOK, TypeOK
<1> QED
  BY InvHolds, <1>1, PTL

-----------------------------------------------------------------------------
(* The lists change when a load ends, to what that load has read.          *)

LEMMA BlockedChangesByPublish ==
  ASSUME LoadsOK, [Next]_vars
  PROVE  \/ blocked' = blocked
         \/ \E l \in Loaders \cup Updaters :
              loads[l].pc = "reading" /\ loads'[l].pc = "off" /\ blocked' = loads[l].got
<1> DEFINE Ends == \E l \in Loaders \cup Updaters :
                     loads[l].pc = "reading" /\ loads'[l].pc = "off" /\ blocked' = loads[l].got
<1> USE DEF blockVars
<1>1. ASSUME BootStep
      PROVE  blocked' = blocked
  BY <1>1 DEF BootStep, BootFilter, BootSetting, BootWithoutDatabase, BootSources, BootReload,
              filterVars
<1>2. ASSUME NEW r \in Requests, NEW v \in BOOLEAN, Switch(r, v)
      PROVE  blocked' = blocked
  BY <1>2 DEF Switch
<1>3. ASSUME NEW r \in Requests, RequestReload(r) \/ Reload(r)
      PROVE  blocked' = blocked
  BY <1>3 DEF RequestReload, Reload, filterVars
<1>4. ASSUME NEW c \in Callers, SetterRuns(c)
      PROVE  blocked' = blocked
  BY <1>4 DEF SetterRuns, Own, SetEnabledStep, WriteEnabled, LoadIfEmpty, StartUpdates
<1>5. ASSUME NEW l \in Loaders \cup Updaters, LoaderRuns(l)
      PROVE  blocked' = blocked \/ Ends
  <2>1. CASE BeginLoad(l)
    BY <2>1 DEF BeginLoad
  <2>2. CASE Publish(l)
    <3>1. loads'[l].pc = "off"
      BY <2>2 DEF Publish, NoLoad, LoadsOK
    <3> QED
      BY <2>2, <3>1 DEF Publish
  <2> QED
    BY <1>5, <2>1, <2>2 DEF LoaderRuns, Own, LoadStep
<1>6. ASSUME NEW u \in Updaters, UpdaterRuns(u)
      PROVE  blocked' = blocked
  BY <1>6 DEF UpdaterRuns, Own, UpdateTick, UpdaterStops
<1>7. ASSUME EditSources
      PROVE  blocked' = blocked
  BY <1>7 DEF EditSources, filterVars
<1>8. ASSUME NEW d \in ListDomains, EditLists(d)
      PROVE  blocked' = blocked
  BY <1>8
     DEF EditLists, AddToWhitelist, RemoveFromWhitelist, AddToBlacklist, RemoveFromBlacklist,
         ListsChange
<1>9. ASSUME Shutdown
      PROVE  blocked' = blocked
  BY <1>9 DEF Shutdown, Stop
<1>10. ASSUME UNCHANGED vars
      PROVE  blocked' = blocked
  BY <1>10 DEF vars, filterVars
<1> HIDE DEF Ends
<1>11. blocked' = blocked \/ Ends
  BY <1>1, <1>2, <1>3, <1>4, <1>5, <1>6, <1>7, <1>8, <1>9, <1>10 DEF Next
<1> QED
  BY <1>11 DEF Ends

(***************************************************************************)
(* No gap: whichever loads overlap, and whatever they cannot read, what is *)
(* blocked stays blocked until one ends that has not read it, unless the   *)
(* filter is off or the name goes to the whitelist or off the blacklist.   *)
(***************************************************************************)
THEOREM BlockedStaysBlockedHolds == Spec => BlockedStaysBlocked
<1> DEFINE Stays ==
      \A d \in Domains : IsBlocked(d) =>
        \/ IsBlocked(d)'
        \/ ~enabled'
        \/ d \in whitelist'
        \/ d \in blacklist \ blacklist'
        \/ \E l \in Loaders \cup Updaters : EndsWithout(l, {d} \cup Parents[d])
<1>1. TypeInv /\ UpdaterInv /\ [Next]_vars => [Stays]_vars
  <2> SUFFICES ASSUME LoadsOK, [Next]_vars, NEW d \in Domains, IsBlocked(d),
                      enabled', d \notin whitelist', ~(d \in blacklist \ blacklist'),
                      ~(\E l \in Loaders \cup Updaters : EndsWithout(l, {d} \cup Parents[d]))
               PROVE  IsBlocked(d)'
    BY DEF TypeInv
  <2>1. CASE d \in blacklist
    BY <2>1 DEF IsBlocked
  <2>2. CASE ({d} \cup Parents[d]) \cap blocked # {}
    <3>1. ({d} \cup Parents[d]) \cap blocked' # {}
      <4>1. CASE blocked' = blocked
        BY <2>2, <4>1
      <4>2. ASSUME NEW l \in Loaders \cup Updaters,
                   loads[l].pc = "reading", loads'[l].pc = "off", blocked' = loads[l].got
            PROVE  ({d} \cup Parents[d]) \cap blocked' # {}
        BY <4>2 DEF EndsWithout
      <4> QED
        BY <4>1, <4>2, BlockedChangesByPublish
    <3> QED
      BY <3>1 DEF IsBlocked
  <2> QED
    BY <2>1, <2>2 DEF IsBlocked
<1> QED
  BY InvHolds, <1>1, PTL DEF Spec, BlockedStaysBlocked
=============================================================================
