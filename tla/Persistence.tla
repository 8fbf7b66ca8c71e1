---------------------------- MODULE Persistence -----------------------------
(***************************************************************************)
(* internal/persistence with the parts of internal/cache, internal/server  *)
(* and cmd/dns-server that drive it: the cache is saved to a file by the   *)
(* goroutine of StartAutoSave, periodically and once more when the server  *)
(* is shut down, and loaded when the process starts.  The process may die  *)
(* at any moment; the files stay.                                          *)
(*                                                                         *)
(* A file is written in three steps (created empty, encoded, renamed).     *)
(* Load runs before anything else does and is part of the step that boots. *)
(* Lookups are left out: they only take entries away, as Cleanup does.     *)
(***************************************************************************)
EXTENDS CacheOps

CONSTANTS
  Asked,       \* the questions clients ask
  None,        \* an unused value of the empty functions
  DiskFails,   \* whether writing, renaming or creating a file may fail
  MaxClock,    \* bound: the clock stops here
  MaxBoots     \* bound: starts of the process

ASSUME PersistenceAssumption ==
  Asked \subseteq Question /\ MaxClock \in Nat /\ MaxBoots \in Nat /\ DiskFails \in BOOLEAN

VARIABLES
  up,          \* "down", "serving", "closing" (listeners shut), "stopped" (stopChan closed)
  entries,     \* the cache
  now,         \* the clock
  saver,       \* the autosave goroutine: "off", "idle", "encode", "rename"
  final,       \* the save under way is the one for stopChan
  batch,       \* the records being saved
  tmp,         \* the temporary file
  disk,        \* the cache file
  lastSave,    \* (history) the records of the last save that succeeded
  boots        \* (history) starts of the process so far

saveVars == <<saver, final, batch, tmp, disk, lastSave>>
vars == <<up, entries, now, saveVars, boots>>

NoRecords == [k \in {} |-> None]

(* Only a whole file can be decoded. *)
NoFile   == [state |-> "absent", records |-> NoRecords]
Partial  == [state |-> "partial", records |-> NoRecords]
Whole(f) == [state |-> "whole", records |-> f]

Init ==
  /\ up = "down"
  /\ entries = NoRecords
  /\ now = 0
  /\ saver = "off"
  /\ final = FALSE
  /\ batch = NoRecords
  /\ tmp = NoFile
  /\ disk = NoFile
  /\ lastSave = NoRecords
  /\ boots = 0

-----------------------------------------------------------------------------
(* A record keeps the question of the message, the message with its        *)
(* original TTLs and the time of expiry.  The key the entry had is not in  *)
(* it, only (history) in the domain of the function the records of a file  *)
(* are; `after' is how many records follow this one in the file, `id'      *)
(* (history) when the message was resolved.                                *)
Record(e, after) ==
  [asked |-> e.question, msg |-> e.msg, expires |-> e.expires, id |-> e.id,
   after |-> after]

(* ExportEntries skips expired entries, Save also those that expire now.   *)
(* The order is that of a walk over the Go map.                            *)
ToSave(es, at) ==
  LET saved == {k \in LiveKeys(es, at) : es[k].expires > at}
  IN  {[k \in saved |-> Record(es[k], after[k])] :
         after \in Injection(saved, 0 .. Cardinality(saved) - 1)}

(* The last of the records f[j], j in S, that have the key k. *)
LastOf(f, S, k) ==
  CHOOSE j \in S : /\ cacheKey(f[j].asked) = k
                   /\ \A i \in S : cacheKey(f[i].asked) = k => f[j].after <= f[i].after

(* Set, for the records f[j] with j in S in the order of the file, on an   *)
(* empty cache with room for all of them.                                  *)
Restored(f, S, at) ==
  [k \in {cacheKey(f[j].asked) : j \in S} |->
     LET r == f[LastOf(f, S, k)] IN NewEntry(r.asked, r.msg, r.id, at)]

(* Mutant: expired records are restored as well. *)
LoadAll(file, at) == Restored(file.records, DOMAIN file.records, at)

(* The records that are good for longer than this moment. *)
Good(f, at) == {j \in DOMAIN f : f[j].expires > at}

(* Load: what has not expired is given to the cache, message and question  *)
(* only; the cache is as large as it was when the file was written.        *)
Load(file, at) == Restored(file.records, Good(file.records, at), at)

Boot ==
  /\ up = "down"
  /\ boots < MaxBoots
  /\ boots' = boots + 1
  /\ entries' = Load(disk, now)
  /\ up' = "serving"
  /\ saver' = "idle"
  /\ final' = FALSE
  /\ UNCHANGED <<now, batch, tmp, disk, lastSave>>

(* A resolution ends: handlers that were running when the listeners were   *)
(* shut still finish.                                                      *)
CacheAnswer(q, m) ==
  /\ up # "down"
  /\ \E kept \in KeptBySet(entries, now) :
       entries' = Stored(entries, kept, cacheKey(q), NewEntry(NewRootQuery(q), m, now, now))
  /\ UNCHANGED <<up, now, saveVars, boots>>

Cleanup ==
  /\ up # "down"
  /\ LiveKeys(entries, now) # DOMAIN entries
  /\ entries' = cleanup(entries, now)
  /\ UNCHANGED <<up, now, saveVars, boots>>

-----------------------------------------------------------------------------
(* Mutant: the cache file itself is created anew, and encoded into. *)
BeginSaveInPlace(last) ==
  /\ saver = "idle"
  /\ last => up = "stopped"
  /\ LiveKeys(entries, now) # {}
  /\ batch' \in ToSave(entries, now)
  /\ tmp' = Partial
  /\ disk' = Partial
  /\ saver' = "encode"
  /\ final' = last
  /\ UNCHANGED <<up, entries, now, lastSave, boots>>

(* The goroutine of StartAutoSave: Save for a tick, or for stopChan.  With *)
(* nothing in the cache the file is left as it is.                         *)
BeginSave(last) ==
  /\ saver = "idle"
  /\ last => up = "stopped"
  /\ LiveKeys(entries, now) # {}
  /\ batch' \in ToSave(entries, now)
  /\ tmp' = Partial
  /\ saver' = "encode"
  /\ final' = last
  /\ UNCHANGED <<up, entries, now, disk, lastSave, boots>>

(* The final save finds nothing to save, or cannot create its file. *)
SkipFinalSave ==
  /\ saver = "idle"
  /\ up = "stopped"
  /\ LiveKeys(entries, now) = {} \/ DiskFails
  /\ saver' = "off"
  /\ UNCHANGED <<up, entries, now, final, batch, tmp, disk, lastSave, boots>>

AfterSave == IF final THEN "off" ELSE "idle"

Encode ==
  /\ saver = "encode"
  /\ tmp' = Whole(batch)
  /\ saver' = "rename"
  /\ UNCHANGED <<up, entries, now, final, batch, disk, lastSave, boots>>

Rename ==
  /\ saver = "rename"
  /\ disk' = tmp
  /\ lastSave' = batch
  /\ batch' = NoRecords
  /\ tmp' = NoFile
  /\ saver' = AfterSave
  /\ UNCHANGED <<up, entries, now, final, boots>>

(* Encoding or renaming fails: the temporary file is removed. *)
SaveFails ==
  /\ DiskFails
  /\ saver \in {"encode", "rename"}
  /\ batch' = NoRecords
  /\ tmp' = NoFile
  /\ saver' = AfterSave
  /\ UNCHANGED <<up, entries, now, final, disk, lastSave, boots>>

-----------------------------------------------------------------------------
(* Shutdown, in the goroutine that got the signal. *)
CloseListeners ==
  /\ up = "serving"
  /\ up' = "closing"
  /\ UNCHANGED <<entries, now, saveVars, boots>>

(* persistence.Stop: the autosave goroutine is told, not waited for. *)
StopPersistence ==
  /\ up = "closing"
  /\ up' = "stopped"
  /\ UNCHANGED <<entries, now, saveVars, boots>>

(* Of a process that has ended only the files are left. *)
MemoryIsLost ==
  /\ up' = "down"
  /\ entries' = NoRecords
  /\ batch' = NoRecords
  /\ saver' = "off"
  /\ final' = FALSE
  /\ UNCHANGED <<now, tmp, disk, lastSave, boots>>

(* The process ends: main returns once the TCP listener is shut, or the    *)
(* signal goroutine gets to os.Exit after Shutdown.                        *)
Exit ==
  /\ up \in {"closing", "stopped"}
  /\ MemoryIsLost

Crash ==
  /\ up # "down"
  /\ MemoryIsLost

Tick ==
  /\ now < MaxClock
  /\ now' = now + 1
  /\ UNCHANGED <<up, entries, saveVars, boots>>

Next ==
  \/ Boot \/ Cleanup \/ Tick
  \/ \E q \in Asked, m \in Responses : CacheAnswer(q, m)
  \/ \E last \in BOOLEAN : BeginSave(last)
  \/ SkipFinalSave \/ Encode \/ Rename \/ SaveFails
  \/ CloseListeners \/ StopPersistence \/ Exit \/ Crash

Spec == Init /\ [][Next]_vars

-----------------------------------------------------------------------------
Entry == EntryWith(Nat)

TypeOK ==
  /\ up \in {"down", "serving", "closing", "stopped"}
  /\ DOMAIN entries \subseteq Keys
  /\ \A k \in DOMAIN entries : entries[k] \in Entry
  /\ now \in Nat /\ boots \in Nat
  /\ saver \in {"off", "idle", "encode", "rename"}
  /\ final \in BOOLEAN
  /\ \A f \in {batch, lastSave} : DOMAIN f \subseteq Keys
  /\ \A f \in {tmp, disk} :
       f.state \in {"absent", "partial", "whole"} /\ DOMAIN f.records \subseteq Keys

(***************************************************************************)
(* "Write to temp file first, then rename (atomic)": wherever in a save,   *)
(* or in how many saves, processes were killed, the next one starts with   *)
(* the answers of the last completed save that are still good and with     *)
(* nothing else.  Each is found under the name and type it had in the old  *)
(* cache and under the class of its message, which is IN: of answers that  *)
(* differed in the class only, one is left.                                *)
(***************************************************************************)
InClassIN(key) == <<key[1], key[2], ClassToString["IN"]>>

RestartRestoresLastSave ==
  [][ (up = "down" /\ up' = "serving") =>
        LET good == {j \in DOMAIN lastSave : lastSave[j].expires > now}
        IN  /\ DOMAIN entries' = {InClassIN(j) : j \in good}
            /\ \A k \in DOMAIN entries' : \E j \in good :
                 /\ InClassIN(j) = k
                 /\ entries'[k].msg = lastSave[j].msg
                 /\ entries'[k].id = lastSave[j].id
    ]_vars

(***************************************************************************)
(* A restart prolongs the life of an answer, but by one TTL at most: what  *)
(* was resolved at t and came through n starts is gone n TTLs after t.     *)
(***************************************************************************)
LifetimePerBoot ==
  \A k \in DOMAIN entries :
    entries[k].expires <= entries[k].id + boots * EntryTTL(entries[k].msg)
=============================================================================
